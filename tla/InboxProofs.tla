---------------------------- MODULE InboxProofs ----------------------------
(***************************************************************************)
(* Theorems about Inbox, for every number of workers, notices, attempts,   *)
(* tries and restarts: the inbox keeps what Channel promises of a notice.  *)
(* The invariant follows a notice from its posting to its receipt, in the  *)
(* ledger in memory and in the one a crash would leave, through the pass   *)
(* and the process's reader.                                               *)
(***************************************************************************)
EXTENDS Inbox, FiniteSetTheorems, TLAPS

IsPosted(l, n) == l.notes[n].kind # "none"

\* The notices of a ledger are numbered in order, and every change of one
\* has a sequence of its own.
Numbered(l) ==
  /\ \A n \in Ids :
       IF IsPosted(l, n)
       THEN /\ n <= l.sequence /\ l.notes[n].about \in Workers
            /\ l.notes[n].sequence \in 1 .. l.sequence
       ELSE l.notes[n].state = "Cancelled"
  /\ \A n, m \in Ids :
       n # m /\ IsPosted(l, n) /\ IsPosted(l, m) =>
         l.notes[n].sequence # l.notes[m].sequence

\* What is due may still be claimed, and only a stopped run lost its
\* notices, of which none was left to wait.
MayBeTried(l) ==
  \A n \in Ids :
    /\ Waits(l.notes[n]) /\ l.notes[n].due => l.notes[n].tries < MaxTries
    /\ l.notes[n].pruned =>
         ~l.open /\ l.notes[n].state \notin {"Pending", "Delivering"}

\* A ledger knows of what was sent: it was posted, as it was sent, and if it
\* still waits it was tried.
KnowsSent(l) ==
  \A n \in Ids : copies[n] > 0 =>
    /\ IsPosted(l, n)
    /\ said[n] = l.notes[n].sequence
    /\ Waits(l.notes[n]) => l.notes[n].tries > 0

\* The coordinator receives nothing but turns, and they are recorded.
OnRecord(l) ==
  \A n \in Ids :
    /\ l.notes[n].state = "Acknowledged"
    /\ Target(l.notes[n]) = Coordinator
    => n \in record[Coordinator]

LedgerInv(l) ==
  /\ l \in Ledger
  /\ Numbered(l)
  /\ MayBeTried(l)
  /\ KnowsSent(l)
  /\ OnRecord(l)

\* The file is behind the memory, but never by a receipt.
FileBehind ==
  \A n \in Ids :
    /\ IsPosted(disk, n) =>
         /\ mem.notes[n].kind = disk.notes[n].kind
         /\ mem.notes[n].about = disk.notes[n].about
    /\ mem.notes[n].state = "Acknowledged" =>
         \/ n \in record[Target(mem.notes[n])]
         \/ disk.notes[n].state = "Acknowledged"

\* A receipt is of a copy that was sent to this chat, and the ledger hears
\* of it after the record.
ReceiptsAreReal ==
  \A k \in Chats :
    /\ \A n \in record[k] : copies[n] > 0
    /\ \A n \in proc[k].turn : copies[n] > 0 /\ Target(mem.notes[n]) = k
    /\ \A r \in readers[k] : \A n \in r.ids :
         /\ copies[n] > 0 /\ Target(mem.notes[n]) = k
         /\ r.step = "kept" => n \in record[k]

Serving == {"receipts", "claim", "write", "later", "failed"}
Holding == {"write", "later", "failed"}

\* The pass goes by what it read: posted notices, each of the chat it serves,
\* and of what was sent before it began it looks for a receipt.
PassIsCareful ==
  /\ pass.at # None <=> pass.step \in Serving
  /\ \A n \in pass.due \cup pass.ids \cup pass.got : IsPosted(mem, n)
  /\ \A n \in pass.due :
       /\ n \notin pass.ids
       /\ copies[n] > 0 /\ Waits(mem.notes[n]) => n \in pass.tried
  /\ \A n \in pass.ids \cup pass.got : pass.at # None => Target(mem.notes[n]) = pass.at
  /\ pass.step = "receipts" => pass.got \subseteq record[pass.at]

\* What the pass claimed was counted, durably, and once more than any copy.
ClaimIsCounted ==
  pass.step \in Holding =>
    /\ pass.ids # {}
    /\ \A n \in pass.ids : \A l \in {mem, disk} :
         /\ IsPosted(l, n)
         /\ l.notes[n].tries > (IF copies[n] > 0 THEN 1 ELSE 0)
         /\ l.notes[n].sequence = mem.notes[n].sequence

\* What the pass is about to write is of an open run, and nothing newer of
\* its attempt has been sent.
ClaimIsNewest ==
  pass.step = "write" =>
    /\ mem.open
    /\ \A n \in pass.ids, m \in Ids :
         /\ n # m /\ copies[m] > 0 /\ mem.notes[m].state # "Cancelled"
         /\ Informs(mem.notes[n]) /\ Informs(mem.notes[m])
         /\ mem.notes[n].about = mem.notes[m].about
         /\ mem.notes[n].attempt = mem.notes[m].attempt
         => mem.notes[m].sequence < mem.notes[n].sequence

IInv ==
  /\ TypeOK
  /\ LedgerInv(mem)
  /\ LedgerInv(disk)
  /\ FileBehind
  /\ ReceiptsAreReal
  /\ PassIsCareful
  /\ ClaimIsCounted
  /\ ClaimIsNewest

---------------------------------------------------------------------------
(* Numbers *)

\* The least of a set of numbers, as the pass and enqueue take it.
LEMMA MinIsLeast ==
  ASSUME NEW S \in SUBSET Nat, S # {}
  PROVE  Min(S) \in S /\ \A x \in S : Min(S) <= x
<1>1. PICK top \in S : TRUE
  OBVIOUS
<1> DEFINE Below == {x \in 0 .. top : \A y \in S : x <= y}
<1>2. \E x \in S : \A y \in S : x <= y
  <2> SUFFICES ASSUME \A x \in S : \E y \in S : ~(x <= y)
               PROVE  FALSE
    OBVIOUS
  <2> DEFINE next == [x \in Below |-> x + 1]
  <2>1. \A x \in Below : x + 1 \in Below
    <3> SUFFICES ASSUME NEW x \in Below PROVE x + 1 \in Below
      OBVIOUS
    <3>1. x \notin S /\ x \in Nat
      BY <1>1
    <3>2. \A y \in S : x + 1 <= y
      BY <3>1
    <3> QED BY <3>1, <3>2, <1>1
  <2>2. 0 \in Below
    BY <1>1
  <2>3. IsFiniteSet(0 .. top)
    BY FS_Interval, <1>1
  <2>4. IsFiniteSet(Below)
    BY <2>3, FS_Subset
  <2>5. next \in Injection(Below, Below)
    BY <2>1 DEF Injection, IsInjective
  <2>6. next \in Surjection(Below, Below)
    <3> HIDE DEF Below, next
    <3> QED BY <2>4, <2>5, FS_Injection
  <2>7. PICK x \in Below : next[x] = 0
    <3> HIDE DEF Below, next
    <3> QED BY <2>2, <2>6 DEF Surjection
  <2> QED BY <2>7
<1> QED BY <1>2 DEF Min

---------------------------------------------------------------------------
(* What the changes of a ledger have in common *)

\* However l becomes m while the host runs: a notice is posted once, to wait;
\* what is over stays over; what was tried keeps its words.
\* First what may become of one notice.
Moves(a, b) ==
  IF a.kind = "none" THEN b.kind # "none" => b.state = "Pending"
  ELSE /\ b.kind = a.kind /\ b.about = a.about
       /\ Waits(b) => Waits(a)
       /\ a.state = "Acknowledged" => b.state = "Acknowledged"
       /\ a.state = "Cancelled" => b.state = "Cancelled"
       /\ b.state = "Acknowledged" => a.state = "Acknowledged" \/ Waits(a)
       /\ \/ Waits(a) /\ a.tries = 0
          \/ b.sequence = a.sequence /\ b.attempt = a.attempt

Changes(l, m) ==
  /\ m.open => l.open
  /\ l.sequence <= m.sequence
  /\ \A n \in Ids : Moves(l.notes[n], m.notes[n])

Counts(l, m) ==
  \A n \in Ids : IsPosted(l, n) => m.notes[n].tries >= l.notes[n].tries

\* A ledger as far as it goes by itself.
Sound(l) == l \in Ledger /\ Numbered(l) /\ MayBeTried(l)

\* A change that hands nothing over.
Posts(l, m) ==
  /\ Sound(m) /\ Changes(l, m) /\ Counts(l, m)
  /\ \A n \in Ids : m.notes[n].state = "Acknowledged" =>
       l.notes[n].state = "Acknowledged"

\* Only the attempts differ.
LEMMA PostsGoByNotes ==
  ASSUME NEW k, NEW l, NEW m, l.notes = k.notes, l.open = k.open,
         l.sequence = k.sequence, Posts(l, m)
  PROVE  Posts(k, m)
BY DEF Posts, Changes, Counts, IsPosted

LEMMA AttemptsApart ==
  ASSUME NEW l, NEW k, Sound(l), k \in Ledger, k.notes = l.notes,
         k.open = l.open, k.sequence = l.sequence
  PROVE  Posts(l, k)
<1>1. Numbered(k) /\ MayBeTried(k)
  BY DEF Sound, Numbered, MayBeTried, IsPosted
<1>2. \A n \in Ids : l.notes[n].tries \in Nat
  BY InboxAssumption DEF Sound, Ledger, Note
<1>3. l.sequence \in Nat
  BY InboxAssumption DEF Sound, Ledger
<1> QED BY <1>1, <1>2, <1>3 DEF Posts, Sound, Changes, Counts, Moves, Numbered, IsPosted, Waits

\* A ledger with other notices, and an update with the words of another.
With(l, notes, sequence) == [l EXCEPT !.sequence = sequence, !.notes = notes]

LEMMA WithNotes ==
  ASSUME NEW l \in Ledger, NEW notes \in [Ids -> Note],
         NEW sequence \in 0 .. MaxNotices
  PROVE  /\ With(l, notes, sequence) \in Ledger
         /\ With(l, notes, sequence).open = l.open
         /\ With(l, notes, sequence).attempt = l.attempt
         /\ With(l, notes, sequence).sequence = sequence
         /\ With(l, notes, sequence).notes = notes
BY DEF Ledger, With

LEMMA RenewedNote ==
  ASSUME NEW note \in Note, NEW attempt \in 0 .. MaxAttempts,
         NEW at \in 0 .. MaxNotices
  PROVE  /\ Renewed(note, attempt, at) \in Note
         /\ Renewed(note, attempt, at).kind = note.kind
         /\ Renewed(note, attempt, at).about = note.about
         /\ Renewed(note, attempt, at).state = note.state
         /\ Renewed(note, attempt, at).tries = note.tries
         /\ Renewed(note, attempt, at).pruned = note.pruned
         /\ Renewed(note, attempt, at).due = FALSE
         /\ Renewed(note, attempt, at).sequence = at
BY DEF Renewed, Note

\* Numbering goes on: a notice keeps its sequence, or has one of its own
\* that is new.
Keeps(a, b) ==
  /\ b.kind = a.kind /\ b.about = a.about /\ b.sequence = a.sequence
  /\ a.kind = "none" => b.state = a.state

IsNew(l, m, n) ==
  /\ IsPosted(m, n) /\ n <= m.sequence /\ m.notes[n].about \in Workers
  /\ m.notes[n].sequence \in l.sequence + 1 .. m.sequence

LEMMA NumberingGoesOn ==
  ASSUME NEW l, NEW m, l \in Ledger, Numbered(l), m \in Ledger,
         l.sequence <= m.sequence,
         \A n \in Ids : Keeps(l.notes[n], m.notes[n]) \/ IsNew(l, m, n),
         \A n, k \in Ids : n # k /\ IsNew(l, m, n) /\ IsNew(l, m, k) =>
            m.notes[n].sequence # m.notes[k].sequence
  PROVE  Numbered(m)
<1>1. l.sequence \in Nat /\ m.sequence \in Nat /\ Ids \subseteq Nat
  BY InboxAssumption DEF Ledger, Ids
<1>2. ASSUME NEW n \in Ids
      PROVE  IF IsPosted(m, n)
             THEN /\ n <= m.sequence /\ m.notes[n].about \in Workers
                  /\ m.notes[n].sequence \in 1 .. m.sequence
             ELSE m.notes[n].state = "Cancelled"
  <2>1. CASE Keeps(l.notes[n], m.notes[n])
    BY <1>1, <2>1 DEF Keeps, Numbered, IsPosted
  <2>2. CASE IsNew(l, m, n)
    BY <1>1, <2>2 DEF IsNew
  <2> QED BY <2>1, <2>2
<1>3. ASSUME NEW n \in Ids, NEW k \in Ids, n # k, IsPosted(m, n), IsPosted(m, k)
      PROVE  m.notes[n].sequence # m.notes[k].sequence
  <2>1. CASE Keeps(l.notes[n], m.notes[n]) /\ Keeps(l.notes[k], m.notes[k])
    BY <1>3, <2>1 DEF Keeps, Numbered, IsPosted
  <2>2. CASE Keeps(l.notes[n], m.notes[n]) /\ IsNew(l, m, k)
    BY <1>1, <1>3, <2>2 DEF Keeps, IsNew, Numbered, IsPosted
  <2>3. CASE IsNew(l, m, n) /\ Keeps(l.notes[k], m.notes[k])
    BY <1>1, <1>3, <2>3 DEF Keeps, IsNew, Numbered, IsPosted
  <2>4. CASE IsNew(l, m, n) /\ IsNew(l, m, k)
    BY <1>3, <2>4
  <2> QED BY <2>1, <2>2, <2>3, <2>4
<1> QED BY <1>2, <1>3 DEF Numbered

\* enqueue, into a notice that waits or as a new one.
LEMMA EnqueuePosts ==
  ASSUME NEW l, Sound(l), Room(l), NEW kind \in Kinds, NEW w \in Workers
  PROVE  Posts(l, Enqueue(l, kind, w))
<1> DEFINE next == l.sequence + 1
           into == {n \in Ids : Coalesces(l.notes[n], kind, w)}
           m    == Enqueue(l, kind, w)
<1>1. l \in Ledger /\ Numbered(l) /\ MayBeTried(l)
  BY DEF Sound
<1>2. /\ l.sequence \in Nat /\ next \in Ids /\ next \in 0 .. MaxNotices
      /\ next > l.sequence /\ Ids \subseteq Nat
  BY <1>1, InboxAssumption DEF Ledger, Room, Ids
<1>3. \A n \in Ids : l.notes[n] \in Note
  BY <1>1 DEF Ledger
<1>4. l.attempt[w].n \in 0 .. MaxAttempts
  BY <1>1 DEF Ledger, Attempt
<1>5. ~IsPosted(l, next)
  BY <1>1, <1>2 DEF Numbered
<1>6. CASE into # {}
  <2> DEFINE i == Min(into)
             note == Renewed(l.notes[i], l.attempt[w].n, next)
             notes == [l.notes EXCEPT ![i] = note]
  <2>1. i \in into
    BY <1>2, <1>6, MinIsLeast
  <2>2. m = With(l, notes, next)
    BY <1>6 DEF Enqueue, With
  <2> HIDE DEF i, next
  <2>3. i \in Ids /\ Coalesces(l.notes[i], kind, w)
    BY <2>1
  <2> HIDE DEF m, into
  <2>4. /\ note \in Note
        /\ note.kind = l.notes[i].kind /\ note.about = l.notes[i].about
        /\ note.state = l.notes[i].state /\ note.tries = l.notes[i].tries
        /\ note.pruned = l.notes[i].pruned /\ note.due = FALSE
        /\ note.sequence = next
    BY <2>3, <1>2, <1>3, <1>4, RenewedNote
  <2> HIDE DEF note
  <2>5. /\ notes \in [Ids -> Note]
        /\ notes[i] = note /\ \A n \in Ids : n # i => notes[n] = l.notes[n]
    BY <2>3, <2>4, <1>1 DEF Ledger
  <2> HIDE DEF notes
  <2>6. /\ m \in Ledger /\ m.open = l.open
        /\ m.sequence = next /\ m.notes = notes
    BY <2>2, <2>5, <1>1, <1>2, WithNotes
  <2>7. Numbered(m)
    <3>1. \A n \in Ids : n # i => Keeps(l.notes[n], m.notes[n])
      BY <2>5, <2>6 DEF Keeps
    <3>2. IsNew(l, m, i) /\ l.sequence <= m.sequence
      BY <2>3, <2>4, <2>5, <2>6, <1>1, <1>2 DEF IsNew, IsPosted, Coalesces, Numbered
    <3>3. \A n \in Ids : n # i => ~IsNew(l, m, n)
      BY <2>5, <2>6, <1>1, <1>2 DEF IsNew, IsPosted, Numbered
    <3> QED BY <3>1, <3>2, <3>3, <2>6, <1>1, NumberingGoesOn
  <2>8. MayBeTried(m)
    BY <2>3, <2>4, <2>5, <2>6, <1>1 DEF MayBeTried, Waits
  <2>9. Changes(l, m) /\ Counts(l, m)
    <3>1. Moves(l.notes[i], note)
      BY <2>3, <2>4 DEF Moves, Coalesces, Waits
    <3>2. \A n \in Ids : n # i => Moves(l.notes[n], l.notes[n])
      BY <1>1, <1>3 DEF Moves, Waits, Numbered, IsPosted
    <3>3. \A n \in Ids : l.notes[n].tries \in Nat
      BY <1>3, InboxAssumption DEF Note
    <3> QED BY <3>1, <3>2, <3>3, <2>3, <2>4, <2>5, <2>6, <1>2 DEF Changes, Counts
  <2>10. \A n \in Ids : m.notes[n].state = "Acknowledged" =>
            l.notes[n].state = "Acknowledged"
    BY <2>4, <2>5, <2>6
  <2> QED BY <2>6, <2>7, <2>8, <2>9, <2>10 DEF Posts, Sound, m
<1>7. CASE into = {}
  <2> DEFINE new(n) == IF n = next THEN Fresh(l, kind, w, next)
                       ELSE Folded(l.notes[n], kind, w)
             notes == [n \in Ids |-> new(n)]
  <2>1. m = With(l, notes, next)
    BY <1>7 DEF Enqueue, With
  <2> HIDE DEF m, into
  <2>2. /\ new(next) \in Note
        /\ new(next).kind = kind /\ kind # "none" /\ new(next).about = w
        /\ new(next).state = "Pending" /\ new(next).tries = 0
        /\ new(next).pruned = FALSE /\ new(next).sequence = next
    BY <1>2, <1>4, InboxAssumption DEF Fresh, Note, Kinds, States
  <2>3. ASSUME NEW n \in Ids, n # next
        PROVE  /\ new(n) \in Note
               /\ new(n).kind = l.notes[n].kind
               /\ new(n).about = l.notes[n].about
               /\ new(n).attempt = l.notes[n].attempt
               /\ new(n).sequence = l.notes[n].sequence
               /\ new(n).tries = l.notes[n].tries
               /\ new(n).due = l.notes[n].due
               /\ new(n).pruned = l.notes[n].pruned
               /\ \/ new(n).state = l.notes[n].state
                  \/ l.notes[n].state = "Pending" /\ new(n).state = "Cancelled"
    BY <2>3, <1>3 DEF Folded, Note, States
  <2> HIDE DEF new, next
  <2>4. notes \in [Ids -> Note] /\ \A n \in Ids : notes[n] = new(n)
    BY <2>2, <2>3
  <2> HIDE DEF notes
  <2>5. /\ m \in Ledger /\ m.open = l.open
        /\ m.sequence = next /\ m.notes = notes
    BY <2>1, <2>4, <1>1, <1>2, WithNotes
  <2>6. Numbered(m)
    <3>1. \A n \in Ids : n # next => Keeps(l.notes[n], m.notes[n])
      BY <2>3, <2>4, <2>5, <1>1 DEF Keeps, Numbered, IsPosted
    <3>2. IsNew(l, m, next) /\ l.sequence <= m.sequence
      BY <2>2, <2>4, <2>5, <1>2 DEF IsNew, IsPosted
    <3>3. \A n \in Ids : n # next => ~IsNew(l, m, n)
      BY <2>3, <2>4, <2>5, <1>1, <1>2 DEF IsNew, IsPosted, Numbered
    <3> QED BY <3>1, <3>2, <3>3, <2>5, <1>1, NumberingGoesOn
  <2>7. MayBeTried(m)
    BY <2>2, <2>3, <2>4, <2>5, <1>1, InboxAssumption DEF MayBeTried, Waits
  <2>8. Changes(l, m) /\ Counts(l, m)
    <3>1. Moves(l.notes[next], new(next))
      BY <2>2, <1>5 DEF Moves, IsPosted
    <3>2. \A n \in Ids : n # next => Moves(l.notes[n], new(n))
      BY <2>3, <1>1, <1>3 DEF Moves, Waits, Numbered, IsPosted
    <3>3. \A n \in Ids : l.notes[n].tries \in Nat
      BY <1>3, InboxAssumption DEF Note
    <3> QED BY <3>1, <3>2, <3>3, <2>2, <2>3, <2>4, <2>5, <1>2, <1>5 DEF Changes, Counts, IsPosted
  <2>9. \A n \in Ids : m.notes[n].state = "Acknowledged" =>
            l.notes[n].state = "Acknowledged"
    BY <2>2, <2>3, <2>4, <2>5
  <2> QED BY <2>5, <2>6, <2>7, <2>8, <2>9 DEF Posts, Sound, m
<1> QED BY <1>6, <1>7

\* A change that posts nothing: every notice keeps its words, what is over
\* stays over, and what is due may be tried.
SameWords(a, b) ==
  /\ b \in Note
  /\ b.kind = a.kind /\ b.about = a.about /\ b.attempt = a.attempt
  /\ b.sequence = a.sequence
  /\ b.pruned = a.pruned
  /\ b.state = a.state \/ Waits(a)
  /\ b.pruned => b.state \notin {"Pending", "Delivering"}
  /\ b.due /\ Waits(b) => b.tries < MaxTries

LEMMA SameWordsChange ==
  ASSUME NEW l, Sound(l), NEW m, NEW notes, m = With(l, notes, l.sequence),
         notes = [n \in Ids |-> notes[n]],
         \A n \in Ids : SameWords(l.notes[n], notes[n])
  PROVE  /\ Sound(m) /\ Changes(l, m)
         /\ m.notes = notes /\ m.open = l.open /\ m.attempt = l.attempt
         /\ m.sequence = l.sequence
<1>1. /\ l \in Ledger /\ Numbered(l) /\ MayBeTried(l)
      /\ l.sequence \in 0 .. MaxNotices
  BY DEF Sound, Ledger
<1>2. notes \in [Ids -> Note]
  BY DEF SameWords
<1>3. /\ m \in Ledger /\ m.notes = notes /\ m.open = l.open
      /\ m.attempt = l.attempt /\ m.sequence = l.sequence
  BY <1>1, <1>2, WithNotes
<1>4. l.sequence \in Nat
  BY <1>1, InboxAssumption
<1>5. ASSUME NEW n \in Ids
      PROVE  Keeps(l.notes[n], notes[n])
  BY <1>1 DEF SameWords, Keeps, Numbered, IsPosted, Waits
<1>6. \A n \in Ids : ~IsNew(l, m, n)
  BY <1>3, <1>4 DEF IsNew
<1>7. Numbered(m)
  BY <1>1, <1>3, <1>4, <1>5, <1>6, NumberingGoesOn
<1>8. MayBeTried(m)
  BY <1>1, <1>3 DEF MayBeTried, SameWords
<1>9. ASSUME NEW n \in Ids
      PROVE  Moves(l.notes[n], notes[n])
  <2>1. /\ SameWords(l.notes[n], notes[n]) /\ l.notes[n] \in Note
        /\ l.notes[n].kind = "none" => l.notes[n].state = "Cancelled"
    BY <1>1 DEF Numbered, IsPosted, Ledger
  <2> QED BY <2>1 DEF SameWords, Moves, Waits, Note, States
<1> QED BY <1>3, <1>4, <1>7, <1>8, <1>9 DEF Sound, Changes

\* acknowledge_notifications takes only what waits and was tried.
LEMMA AckedChanges ==
  ASSUME NEW l, Sound(l), NEW ids
  PROVE  LET m == Acked(l, ids)
         IN  /\ Sound(m) /\ Changes(l, m) /\ Counts(l, m) /\ m.open = l.open
             /\ \A n \in Ids :
                  \/ m.notes[n] = l.notes[n]
                  \/ n \in ids /\ Waits(l.notes[n]) /\ l.notes[n].tries > 0
<1> DEFINE new(n) == IF n \in ids /\ Waits(l.notes[n]) /\ l.notes[n].tries > 0
                     THEN [l.notes[n] EXCEPT !.state = "Acknowledged"]
                     ELSE l.notes[n]
           notes == [n \in Ids |-> new(n)]
           m == Acked(l, ids)
<1>1. l \in Ledger /\ MayBeTried(l)
  BY DEF Sound
<1>2. m = With(l, notes, l.sequence)
  BY <1>1 DEF Acked, With, Ledger
<1>3. ASSUME NEW n \in Ids
      PROVE  /\ SameWords(l.notes[n], notes[n])
             /\ notes[n].tries = l.notes[n].tries /\ l.notes[n].tries \in Nat
             /\ \/ notes[n] = l.notes[n]
                \/ n \in ids /\ Waits(l.notes[n]) /\ l.notes[n].tries > 0
  <2>1. /\ l.notes[n] \in Note
        /\ l.notes[n].due /\ Waits(l.notes[n]) => l.notes[n].tries < MaxTries
    BY <1>1 DEF Ledger, MayBeTried
  <2>2. notes[n] = new(n)
    OBVIOUS
  <2> HIDE DEF notes
  <2>3. l.notes[n].pruned => l.notes[n].state \notin {"Pending", "Delivering"}
    BY <1>1 DEF MayBeTried
  <2> QED BY <2>1, <2>2, <2>3, InboxAssumption DEF SameWords, Waits, Note, States
<1> HIDE DEF m
<1>4. notes = [n \in Ids |-> notes[n]]
  OBVIOUS
<1> HIDE DEF notes
<1>5. Sound(m) /\ Changes(l, m) /\ m.notes = notes /\ m.open = l.open
  BY <1>2, <1>3, <1>4, SameWordsChange
<1> QED BY <1>3, <1>5 DEF Counts, m

\* take_for_working_worker hands over what waits for the worker.
LEMMA HandedChanges ==
  ASSUME NEW l, Sound(l), NEW w \in Workers,
         \A n \in Taken(l, w) : l.notes[n].tries < MaxTries
  PROVE  LET m == Handed(l, w)
         IN  /\ Sound(m) /\ Changes(l, m) /\ Counts(l, m) /\ m.open = l.open
             /\ \A n \in Ids :
                  \/ m.notes[n] = l.notes[n]
                  \/ n \in Taken(l, w) /\ Target(l.notes[n]) = w
<1> DEFINE new(n) == IF n \in Taken(l, w)
                     THEN [l.notes[n] EXCEPT !.state = "Acknowledged",
                                             !.tries = l.notes[n].tries + 1]
                     ELSE l.notes[n]
           notes == [n \in Ids |-> new(n)]
           m == Handed(l, w)
<1>1. l \in Ledger /\ MayBeTried(l)
  BY DEF Sound
<1>2. m = With(l, notes, l.sequence)
  BY <1>1 DEF Handed, With, Ledger
<1>3. ASSUME NEW n \in Ids
      PROVE  /\ SameWords(l.notes[n], notes[n])
             /\ l.notes[n].tries \in Nat
             /\ \/ notes[n] = l.notes[n]
                \/ /\ n \in Taken(l, w) /\ Target(l.notes[n]) = w
                   /\ notes[n].tries = l.notes[n].tries + 1
  <2>1. /\ l.notes[n] \in Note
        /\ l.notes[n].due /\ Waits(l.notes[n]) => l.notes[n].tries < MaxTries
    BY <1>1 DEF Ledger, MayBeTried
  <2>2. notes[n] = new(n)
    OBVIOUS
  <2> HIDE DEF notes
  <2>3. CASE n \in Taken(l, w)
    <3>1. /\ Waits(l.notes[n]) /\ Target(l.notes[n]) = w
          /\ l.notes[n].tries < MaxTries
      BY <2>3 DEF Taken, Waits
    <3> DEFINE tries == l.notes[n].tries + 1
    <3>2. notes[n] = [l.notes[n] EXCEPT !.state = "Acknowledged",
                                        !.tries = tries]
      BY <2>2, <2>3
    <3>4. l.notes[n].tries \in Nat /\ tries \in 0 .. MaxTries
      BY <2>1, <3>1, InboxAssumption DEF Note
    <3> HIDE DEF tries
    <3>3. /\ notes[n] \in Note /\ notes[n].state = "Acknowledged"
          /\ notes[n].kind = l.notes[n].kind /\ notes[n].about = l.notes[n].about
          /\ notes[n].attempt = l.notes[n].attempt
          /\ notes[n].sequence = l.notes[n].sequence
          /\ notes[n].pruned = l.notes[n].pruned
          /\ notes[n].tries = tries
      BY <2>1, <3>2, <3>4 DEF Note, States
    <3> QED BY <2>3, <3>1, <3>3, <3>4 DEF SameWords, Waits, tries
  <2>4. CASE n \notin Taken(l, w)
    BY <2>1, <2>2, <2>4, <1>1, InboxAssumption DEF SameWords, Note, MayBeTried
  <2> QED BY <2>3, <2>4
<1> HIDE DEF m
<1>4. notes = [n \in Ids |-> notes[n]]
  OBVIOUS
<1> HIDE DEF notes
<1>5. Sound(m) /\ Changes(l, m) /\ m.notes = notes /\ m.open = l.open
  BY <1>2, <1>3, <1>4, SameWordsChange
<1> QED BY <1>3, <1>5 DEF Counts, m

\* claim_notifications counts what it takes and cancels what no longer
\* applies.
LEMMA ClaimedChanges ==
  ASSUME NEW l, Sound(l), NEW ids
  PROVE  LET m == Claimed(l, ids)
         IN  /\ Sound(m) /\ Changes(l, m) /\ Counts(l, m) /\ m.open = l.open
             /\ \A n \in Ids :
                  \/ m.notes[n] = l.notes[n] /\ n \notin Claimable(l, ids)
                  \/ /\ n \in Claimable(l, ids) /\ ~Applies(l, n)
                     /\ m.notes[n].state = "Cancelled"
                     /\ m.notes[n].tries = l.notes[n].tries
                  \/ /\ n \in Claimable(l, ids) /\ Applies(l, n)
                     /\ m.notes[n].state = "Delivering"
                     /\ m.notes[n].tries = l.notes[n].tries + 1
                     /\ Waits(m.notes[n]) /\ ~m.notes[n].due
             /\ \A n \in Ids :
                  /\ m.notes[n].sequence = l.notes[n].sequence
                  /\ m.notes[n].attempt = l.notes[n].attempt
                  /\ m.notes[n].kind = l.notes[n].kind
                  /\ m.notes[n].about = l.notes[n].about
<1> DEFINE new(n) == IF n \notin Claimable(l, ids) THEN l.notes[n]
                     ELSE IF ~Applies(l, n)
                     THEN [l.notes[n] EXCEPT !.state = "Cancelled"]
                     ELSE [l.notes[n] EXCEPT !.state = "Delivering",
                             !.tries = l.notes[n].tries + 1, !.due = FALSE]
           notes == [n \in Ids |-> new(n)]
           m == Claimed(l, ids)
<1>1. l \in Ledger /\ MayBeTried(l)
  BY DEF Sound
<1>2. m = With(l, notes, l.sequence)
  BY <1>1 DEF Claimed, With, Ledger
<1>3. ASSUME NEW n \in Ids
      PROVE  /\ SameWords(l.notes[n], notes[n])
             /\ l.notes[n].tries \in Nat
             /\ \/ notes[n] = l.notes[n] /\ n \notin Claimable(l, ids)
                \/ /\ n \in Claimable(l, ids) /\ ~Applies(l, n)
                   /\ notes[n].state = "Cancelled"
                   /\ notes[n].tries = l.notes[n].tries
                \/ /\ n \in Claimable(l, ids) /\ Applies(l, n)
                   /\ notes[n].state = "Delivering"
                   /\ notes[n].tries = l.notes[n].tries + 1
                   /\ Waits(notes[n]) /\ ~notes[n].due
  <2>1. /\ l.notes[n] \in Note
        /\ l.notes[n].due /\ Waits(l.notes[n]) => l.notes[n].tries < MaxTries
    BY <1>1 DEF Ledger, MayBeTried
  <2>2. notes[n] = new(n)
    OBVIOUS
  <2> HIDE DEF notes
  <2>3. l.notes[n].tries \in Nat
    BY <2>1, InboxAssumption DEF Note
  <2>4. CASE n \notin Claimable(l, ids)
    BY <2>1, <2>2, <2>3, <2>4, <1>1 DEF SameWords, MayBeTried
  <2>5. CASE n \in Claimable(l, ids) /\ ~Applies(l, n)
    <3>1. notes[n] = [l.notes[n] EXCEPT !.state = "Cancelled"]
      BY <2>2, <2>5
    <3>2. /\ notes[n] \in Note /\ notes[n].state = "Cancelled"
          /\ notes[n].kind = l.notes[n].kind /\ notes[n].about = l.notes[n].about
          /\ notes[n].attempt = l.notes[n].attempt
          /\ notes[n].sequence = l.notes[n].sequence
          /\ notes[n].pruned = l.notes[n].pruned
          /\ notes[n].tries = l.notes[n].tries
      BY <2>1, <3>1 DEF Note, States
    <3> QED BY <2>3, <2>5, <3>2 DEF SameWords, Claimable, Waits
  <2>6. CASE n \in Claimable(l, ids) /\ Applies(l, n)
    <3> DEFINE tries == l.notes[n].tries + 1
    <3>1. notes[n] = [l.notes[n] EXCEPT !.state = "Delivering",
                                        !.tries = tries, !.due = FALSE]
      BY <2>2, <2>6
    <3>2. Waits(l.notes[n]) /\ ~l.notes[n].pruned /\ l.notes[n].tries < MaxTries
      BY <2>1, <2>6 DEF Claimable, Waits
    <3>4. tries \in 0 .. MaxTries
      BY <2>1, <2>3, <3>2, InboxAssumption
    <3> HIDE DEF tries
    <3>3. /\ notes[n] \in Note /\ notes[n].state = "Delivering"
          /\ notes[n].kind = l.notes[n].kind /\ notes[n].about = l.notes[n].about
          /\ notes[n].attempt = l.notes[n].attempt
          /\ notes[n].sequence = l.notes[n].sequence
          /\ notes[n].pruned = l.notes[n].pruned /\ notes[n].due = FALSE
          /\ notes[n].tries = tries
      BY <2>1, <3>1, <3>4 DEF Note, States
    <3> QED BY <2>3, <2>6, <3>2, <3>3 DEF SameWords, Waits, tries
  <2> QED BY <2>4, <2>5, <2>6
<1> HIDE DEF m
<1>4. notes = [n \in Ids |-> notes[n]]
  OBVIOUS
<1> HIDE DEF notes
<1>5. Sound(m) /\ Changes(l, m) /\ m.notes = notes /\ m.open = l.open
  BY <1>2, <1>3, <1>4, SameWordsChange
<1>6. Counts(l, m)
  BY <1>3, <1>5 DEF Counts
<1> QED BY <1>3, <1>5, <1>6 DEF SameWords, m

\* retry_notification puts one back, and takes back a count only for the
\* chat that was busy.
LEMMA RetriedChanges ==
  ASSUME NEW l, Sound(l), NEW i \in Ids, l.notes[i].tries > 0,
         NEW step
  PROVE  LET m == Retried(l, i, step)
         IN  /\ Sound(m) /\ Changes(l, m) /\ m.open = l.open
             /\ \A n \in Ids : n # i => m.notes[n] = l.notes[n]
             /\ m.notes[i].state # "Acknowledged" \/ m.notes[i] = l.notes[i]
             /\ m.notes[i].tries >= l.notes[i].tries - (IF step = "later" THEN 1 ELSE 0)
             /\ m.notes[i].kind = l.notes[i].kind
<1> DEFINE tries == l.notes[i].tries - (IF step = "later" THEN 1 ELSE 0)
           note == [l.notes[i] EXCEPT !.state = "Pending", !.due = FALSE,
                                      !.tries = tries]
           notes == [l.notes EXCEPT ![i] = note]
           m == Retried(l, i, step)
<1>1. l \in Ledger /\ MayBeTried(l) /\ l.notes[i] \in Note /\ l.notes[i].tries \in Nat
  BY InboxAssumption DEF Sound, Ledger, Note
<1>2. CASE l.notes[i].state # "Delivering"
  <2>1. m = l
    BY <1>2 DEF Retried
  <2>2. Posts(l, l)
    BY AttemptsApart, <1>1
  <2> QED BY <2>1, <2>2, <1>1 DEF Posts
<1>3. CASE l.notes[i].state = "Delivering"
  <2>1. m = With(l, notes, l.sequence)
    BY <1>1, <1>3 DEF Retried, With, Ledger
  <2>2. /\ SameWords(l.notes[i], note)
        /\ note.state = "Pending"
        /\ note.tries = tries
    <3>1. Waits(l.notes[i]) /\ ~l.notes[i].pruned
      BY <1>1, <1>3 DEF Waits, MayBeTried
    <3>3. tries \in 0 .. MaxTries
      BY <1>1, InboxAssumption DEF Note
    <3> HIDE DEF tries
    <3>2. /\ note \in Note /\ note.due = FALSE /\ note.state = "Pending"
          /\ note.tries = tries
          /\ note.kind = l.notes[i].kind /\ note.about = l.notes[i].about
          /\ note.attempt = l.notes[i].attempt
          /\ note.sequence = l.notes[i].sequence
          /\ note.pruned = l.notes[i].pruned
      BY <1>1, <3>3 DEF Note, States
    <3> HIDE DEF note
    <3> QED BY <3>1, <3>2 DEF SameWords
  <2> HIDE DEF note
  <2>3. \A n \in Ids : n # i => SameWords(l.notes[n], l.notes[n])
    BY <1>1 DEF SameWords, MayBeTried, Ledger
  <2>4. /\ notes = [n \in Ids |-> notes[n]]
        /\ notes[i] = note /\ \A n \in Ids : n # i => notes[n] = l.notes[n]
    BY <1>1 DEF Ledger
  <2> HIDE DEF notes, m
  <2>5. Sound(m) /\ Changes(l, m) /\ m.notes = notes /\ m.open = l.open
    BY <2>1, <2>2, <2>3, <2>4, SameWordsChange
  <2> QED BY <2>2, <2>4, <2>5, <1>1 DEF SameWords, m
<1> QED BY <1>2, <1>3

\* Time makes a notice due that may be tried again.
LEMMA LapsedPosts ==
  ASSUME NEW l, Sound(l), NEW i \in Ids, Waits(l.notes[i]),
         l.notes[i].tries < MaxTries
  PROVE  Posts(l, Lapsed(l, i)) /\ Lapsed(l, i).open = l.open
<1> DEFINE note == [l.notes[i] EXCEPT !.due = TRUE]
           notes == [l.notes EXCEPT ![i] = note]
           m == Lapsed(l, i)
<1>1. l \in Ledger /\ MayBeTried(l) /\ l.notes[i] \in Note
  BY DEF Sound, Ledger
<1>2. m = With(l, notes, l.sequence)
  BY <1>1 DEF Lapsed, With, Ledger
<1>3. /\ note \in Note /\ note.state = l.notes[i].state
      /\ note.kind = l.notes[i].kind /\ note.about = l.notes[i].about
      /\ note.attempt = l.notes[i].attempt /\ note.tries = l.notes[i].tries
      /\ note.sequence = l.notes[i].sequence
      /\ note.pruned = l.notes[i].pruned
  BY <1>1 DEF Note
<1> HIDE DEF note
<1>4. SameWords(l.notes[i], note)
  BY <1>1, <1>3 DEF SameWords, MayBeTried, Waits
<1>5. \A n \in Ids : n # i => SameWords(l.notes[n], l.notes[n])
  BY <1>1 DEF SameWords, MayBeTried, Ledger
<1>6. /\ notes = [n \in Ids |-> notes[n]]
      /\ notes[i] = note /\ \A n \in Ids : n # i => notes[n] = l.notes[n]
  BY <1>1 DEF Ledger
<1> HIDE DEF notes, m
<1>7. Sound(m) /\ Changes(l, m) /\ m.notes = notes /\ m.open = l.open
  BY <1>2, <1>4, <1>5, <1>6, SameWordsChange
<1>8. \A n \in Ids : l.notes[n].tries \in Nat
  BY <1>1, InboxAssumption DEF Ledger, Note
<1> QED BY <1>3, <1>6, <1>7, <1>8 DEF Posts, Counts, m

\* stop_run_in: nothing waits any more.
LEMMA StoppedPosts ==
  ASSUME NEW l, Sound(l)
  PROVE  Posts(l, Stopped(l))
<1> DEFINE attempts == [w \in Workers |->
             IF l.attempt[w].status = "none" THEN l.attempt[w]
             ELSE [l.attempt[w] EXCEPT !.status = "over", !.gate = 0]]
           new(n) == [l.notes[n] EXCEPT
             !.state = IF Waits(l.notes[n]) THEN "Cancelled" ELSE l.notes[n].state,
             !.pruned = TRUE]
           notes == [n \in Ids |-> new(n)]
           m == Stopped(l)
<1>1. /\ l \in Ledger /\ Numbered(l) /\ MayBeTried(l)
      /\ l.sequence \in Nat /\ 0 \in 0 .. MaxNotices
  BY InboxAssumption DEF Sound, Ledger
<1>2. m = [l EXCEPT !.open = FALSE, !.attempt = attempts, !.notes = notes]
  BY DEF Stopped
<1>3. ASSUME NEW w \in Workers
      PROVE  attempts[w] \in Attempt
  BY <1>1 DEF Ledger, Attempt
<1>4. ASSUME NEW n \in Ids
      PROVE  /\ new(n) \in Note /\ new(n).pruned
             /\ new(n).kind = l.notes[n].kind /\ new(n).about = l.notes[n].about
             /\ new(n).attempt = l.notes[n].attempt
             /\ new(n).tries = l.notes[n].tries /\ l.notes[n].tries \in Nat
             /\ new(n).sequence = l.notes[n].sequence
             /\ new(n).state \notin {"Pending", "Delivering"}
             /\ \/ new(n).state = l.notes[n].state
                \/ Waits(l.notes[n]) /\ new(n).state = "Cancelled"
  <2>1. l.notes[n] \in Note /\ l.notes[n].tries \in Nat
    BY <1>1, InboxAssumption DEF Ledger, Note
  <2>2. l.notes[n].pruned => l.notes[n].state \notin {"Pending", "Delivering"}
    BY <1>1 DEF MayBeTried
  <2>3. CASE Waits(l.notes[n])
    BY <2>1, <2>3 DEF Note, States
  <2>4. CASE ~Waits(l.notes[n])
    BY <2>1, <2>2, <2>4 DEF Note, States, Waits
  <2> QED BY <2>3, <2>4
<1> HIDE DEF new
<1>5. attempts \in [Workers -> Attempt] /\ notes \in [Ids -> Note]
  BY <1>3, <1>4
<1>6. \A n \in Ids : notes[n] = new(n)
  OBVIOUS
<1> HIDE DEF attempts, notes, m
<1>7. /\ m \in Ledger /\ m.open = FALSE /\ m.notes = notes
      /\ m.sequence = l.sequence
  BY <1>1, <1>2, <1>5 DEF Ledger
<1>8. Numbered(m)
  <2>1. \A n \in Ids : Keeps(l.notes[n], m.notes[n])
    BY <1>1, <1>4, <1>6, <1>7 DEF Keeps, Numbered, IsPosted, Waits
  <2>2. \A n \in Ids : ~IsNew(l, m, n)
    BY <1>1, <1>7 DEF IsNew
  <2> QED BY <2>1, <2>2, <1>1, <1>7, NumberingGoesOn
<1>9. MayBeTried(m)
  BY <1>4, <1>6, <1>7 DEF MayBeTried, Waits
<1>10. \A n \in Ids : Moves(l.notes[n], notes[n])
  BY <1>1, <1>4, <1>6 DEF Moves, Waits, Numbered, IsPosted
<1> QED BY <1>1, <1>4, <1>6, <1>7, <1>8, <1>9, <1>10
        DEF Posts, Sound, Changes, Counts, m

\* recover_interrupted_workers: what is posted for each attempt is new, and
\* its unsent progress is withdrawn.
LEMMA RecoveredPosts ==
  ASSUME NEW l, Sound(l), l.sequence + Cardinality(Workers) <= MaxNotices,
         NEW order \in Bijection(1 .. Cardinality(Cut(l)), Cut(l))
  PROVE  /\ Posts(l, Recovered(l, order))
         /\ \A n \in Ids :
              \/ Recovered(l, order).notes[n].state = l.notes[n].state
              \/ Recovered(l, order).notes[n].state = "Cancelled"
              \/ ~IsPosted(l, n)
<1> DEFINE c == Cardinality(Cut(l))
           attempts == [w \in Workers |->
             IF w \in Cut(l) THEN [l.attempt[w] EXCEPT !.status = "over", !.gate = 0]
             ELSE l.attempt[w]]
           new(n) ==
             IF n \in l.sequence + 1 .. l.sequence + c
             THEN Fresh(l, "disconnected", order[n - l.sequence], n)
             ELSE IF l.notes[n].about \in Cut(l)
             THEN Folded(l.notes[n], "disconnected", l.notes[n].about)
             ELSE l.notes[n]
           notes == [n \in Ids |-> new(n)]
           m == Recovered(l, order)
<1>1. /\ l \in Ledger /\ Numbered(l) /\ MayBeTried(l)
      /\ l.sequence \in Nat /\ 0 \in 0 .. MaxNotices /\ Ids \subseteq Nat
  BY InboxAssumption DEF Sound, Ledger, Ids
<1>2. Cut(l) \subseteq Workers
  BY DEF Cut
<1>3. c \in Nat /\ c <= Cardinality(Workers) /\ Cardinality(Workers) \in Nat
  BY <1>2, InboxAssumption, FS_Subset, FS_CardinalityType
<1>4. l.sequence + c \in 0 .. MaxNotices
  BY <1>1, <1>3, InboxAssumption
<1>5. m = [l EXCEPT !.sequence = l.sequence + c, !.attempt = attempts,
                    !.notes = notes]
  BY DEF Recovered
<1>6. ASSUME NEW w \in Workers
      PROVE  attempts[w] \in Attempt
  BY <1>1 DEF Ledger, Attempt
<1>7. ASSUME NEW n \in Ids, n \in l.sequence + 1 .. l.sequence + c
      PROVE  /\ new(n) \in Note /\ new(n).kind = "disconnected"
             /\ new(n).about \in Workers /\ new(n).state = "Pending"
             /\ new(n).tries = 0 /\ ~new(n).pruned /\ new(n).sequence = n
             /\ ~IsPosted(l, n)
  <2> DEFINE w == order[n - l.sequence]
  <2>1. n - l.sequence \in 1 .. c
    BY <1>1, <1>3, <1>7
  <2>2. w \in Workers
    BY <1>2, <2>1 DEF Bijection, Injection
  <2>3. new(n) = Fresh(l, "disconnected", w, n)
    BY <1>7
  <2> HIDE DEF w, new
  <2>4. l.attempt[w].n \in 0 .. MaxAttempts /\ n \in 0 .. MaxNotices
    BY <1>1, <2>2 DEF Ledger, Attempt, Ids
  <2>5. 0 \in 0 .. MaxTries
    BY InboxAssumption
  <2>6. ~IsPosted(l, n)
    BY <1>1, <1>7 DEF Numbered
  <2> QED BY <2>2, <2>3, <2>4, <2>5, <2>6 DEF Fresh, Note, Kinds, States
<1>8. ASSUME NEW n \in Ids, n \notin l.sequence + 1 .. l.sequence + c
      PROVE  /\ new(n) \in Note
             /\ new(n).kind = l.notes[n].kind /\ new(n).about = l.notes[n].about
             /\ new(n).attempt = l.notes[n].attempt
             /\ new(n).tries = l.notes[n].tries /\ l.notes[n].tries \in Nat
             /\ new(n).sequence = l.notes[n].sequence
             /\ new(n).due = l.notes[n].due /\ new(n).pruned = l.notes[n].pruned
             /\ \/ new(n).state = l.notes[n].state
                \/ l.notes[n].state = "Pending" /\ new(n).state = "Cancelled"
  <2>1. l.notes[n] \in Note /\ l.notes[n].tries \in Nat
    BY <1>1, InboxAssumption DEF Ledger, Note
  <2>2. \/ new(n) = l.notes[n]
        \/ /\ new(n) = [l.notes[n] EXCEPT !.state = "Cancelled"]
           /\ l.notes[n].state = "Pending"
    BY <1>8 DEF Folded
  <2> HIDE DEF new
  <2> QED BY <2>1, <2>2 DEF Note, States
<1> HIDE DEF new
<1>9. attempts \in [Workers -> Attempt] /\ notes \in [Ids -> Note]
  BY <1>6, <1>7, <1>8
<1>10. \A n \in Ids : notes[n] = new(n)
  OBVIOUS
<1> HIDE DEF attempts, notes, m, c
<1>11. /\ m \in Ledger /\ m.open = l.open /\ m.notes = notes
       /\ m.sequence = l.sequence + c
  BY <1>1, <1>4, <1>5, <1>9 DEF Ledger
<1>12. Numbered(m)
  <2>1. ASSUME NEW n \in Ids, n \in l.sequence + 1 .. l.sequence + c
        PROVE  IsNew(l, m, n) /\ m.notes[n].sequence = n
    BY <1>1, <1>3, <1>7, <1>10, <1>11, <2>1 DEF IsNew, IsPosted
  <2>2. ASSUME NEW n \in Ids, n \notin l.sequence + 1 .. l.sequence + c
        PROVE  Keeps(l.notes[n], m.notes[n]) /\ ~IsNew(l, m, n)
    <3>1. Keeps(l.notes[n], m.notes[n])
      BY <1>1, <1>8, <1>10, <1>11, <2>2 DEF Keeps, Numbered, IsPosted
    <3>2. ~IsNew(l, m, n)
      BY <3>1, <1>1, <1>3, <1>11 DEF IsNew, Keeps, Numbered, IsPosted
    <3> QED BY <3>1, <3>2
  <2>3. l.sequence <= m.sequence
    BY <1>1, <1>3, <1>11
  <2> QED BY <2>1, <2>2, <2>3, <1>1, <1>11, NumberingGoesOn
<1>13. MayBeTried(m)
  BY <1>1, <1>7, <1>8, <1>10, <1>11, InboxAssumption DEF MayBeTried, Waits
<1>14. \A n \in Ids : Moves(l.notes[n], notes[n])
  BY <1>1, <1>7, <1>8, <1>10 DEF Moves, Waits, Numbered, IsPosted
<1> QED BY <1>1, <1>3, <1>7, <1>8, <1>10, <1>11, <1>12, <1>13, <1>14
        DEF Posts, Sound, Changes, Counts, IsPosted, m

---------------------------------------------------------------------------
(* What a step of the host leaves in order *)

\* A ledger moves on, saved or not: what is newly received was recorded, or
\* handed to a worker and saved; what was sent and still waits was counted.
Evolves ==
  /\ Sound(mem') /\ Changes(mem, mem')
  /\ disk' \in {disk, mem'}
  /\ \A n \in Ids :
       mem'.notes[n].state = "Acknowledged" =>
         \/ mem.notes[n].state = "Acknowledged"
         \/ n \in record[Target(mem.notes[n])]
         \/ Target(mem.notes[n]) # Coordinator /\ disk' = mem'
  /\ \A n \in Ids :
       copies[n] > 0 /\ Waits(mem'.notes[n]) => mem'.notes[n].tries > 0

\* The records only grow.
RecordKept == \A k \in Chats : record[k] \subseteq record'[k]

\* A notice that was posted keeps its kind, its worker and its reader.
LEMMA ReaderStays ==
  ASSUME NEW l, NEW m, Changes(l, m), NEW n \in Ids, IsPosted(l, n)
  PROVE  /\ IsPosted(m, n) /\ m.notes[n].kind = l.notes[n].kind
         /\ m.notes[n].about = l.notes[n].about
         /\ Target(m.notes[n]) = Target(l.notes[n])
         /\ Informs(m.notes[n]) = Informs(l.notes[n])
BY DEF Changes, Moves, IsPosted, Target, Informs

LEMMA ReaderIsAChat ==
  ASSUME NEW l, Numbered(l), NEW n \in Ids, IsPosted(l, n)
  PROVE  Target(l.notes[n]) \in Chats
BY DEF Numbered, Target, Chats

\* What was sent keeps its words.
LEMMA SentStays ==
  ASSUME IInv, Evolves, NEW n \in Ids, copies[n] > 0
  PROVE  /\ IsPosted(mem, n) /\ IsPosted(mem', n)
         /\ mem'.notes[n].sequence = mem.notes[n].sequence
         /\ mem'.notes[n].attempt = mem.notes[n].attempt
         /\ mem.notes[n].state = "Cancelled" => mem'.notes[n].state = "Cancelled"
         /\ Waits(mem'.notes[n]) => Waits(mem.notes[n])
<1>1. IsPosted(mem, n) /\ (Waits(mem.notes[n]) => mem.notes[n].tries > 0)
  BY DEF IInv, LedgerInv, KnowsSent
<1>2. mem.notes[n].tries \in Nat
  BY InboxAssumption DEF IInv, TypeOK, Ledger, Note
<1>3. Moves(mem.notes[n], mem'.notes[n])
  BY DEF Evolves, Changes
<1> QED BY <1>1, <1>2, <1>3 DEF Moves, IsPosted

LEMMA LedgersStay ==
  ASSUME IInv, Evolves, UNCHANGED <<copies, said>>, RecordKept
  PROVE  LedgerInv(mem)' /\ LedgerInv(disk)' /\ FileBehind'
<1>1. /\ Sound(mem') /\ Changes(mem, mem') /\ Numbered(mem)
      /\ disk' = disk \/ disk' = mem'
  BY DEF Evolves, IInv, LedgerInv
<1>2. \A n \in Ids : mem.notes[n].state = "Acknowledged" => IsPosted(mem, n)
  BY <1>1 DEF Numbered
<1>3. ASSUME NEW n \in Ids, mem'.notes[n].state = "Acknowledged"
      PROVE  IsPosted(mem, n)
  <2>1. Moves(mem.notes[n], mem'.notes[n]) /\ Numbered(mem')
    BY <1>1 DEF Changes, Sound
  <2>2. IsPosted(mem', n)
    BY <1>3, <2>1 DEF Numbered
  <2> QED BY <1>3, <2>1, <2>2 DEF Moves, IsPosted
<1>4. KnowsSent(mem)'
  BY SentStays DEF Evolves, IInv, LedgerInv, KnowsSent
<1>5. OnRecord(mem)'
  <2> SUFFICES ASSUME NEW n \in Ids, mem'.notes[n].state = "Acknowledged",
                      Target(mem'.notes[n]) = Coordinator
               PROVE  n \in record'[Coordinator]
    BY DEF OnRecord
  <2>1. Target(mem.notes[n]) = Coordinator
    BY <1>1, <1>3, ReaderStays
  <2>2. n \in record[Coordinator]
    BY <2>1 DEF Evolves, IInv, LedgerInv, OnRecord
  <2> QED BY <2>2 DEF RecordKept, Chats
<1>6. LedgerInv(mem)'
  BY <1>1, <1>4, <1>5 DEF LedgerInv, Sound
<1>7. LedgerInv(disk)'
  <2>1. CASE disk' = mem'
    BY <1>6, <2>1 DEF LedgerInv, KnowsSent, OnRecord
  <2>2. CASE disk' = disk
    BY <2>2 DEF IInv, LedgerInv, KnowsSent, OnRecord, RecordKept, Chats
  <2> QED BY <1>1, <2>1, <2>2
<1>8. FileBehind'
  <2>1. CASE disk' = mem'
    BY <2>1 DEF FileBehind
  <2>2. CASE disk' = disk
    <3>1. ASSUME NEW n \in Ids, IsPosted(disk, n)
          PROVE  /\ mem'.notes[n].kind = disk.notes[n].kind
                 /\ mem'.notes[n].about = disk.notes[n].about
      <4>1. /\ mem.notes[n].kind = disk.notes[n].kind
            /\ mem.notes[n].about = disk.notes[n].about
        BY <3>1 DEF IInv, FileBehind
      <4>2. IsPosted(mem, n)
        BY <3>1, <4>1 DEF IsPosted
      <4> QED BY <4>1, <4>2, <1>1, ReaderStays
    <3>2. ASSUME NEW n \in Ids, mem'.notes[n].state = "Acknowledged"
          PROVE  \/ n \in record'[Target(mem'.notes[n])]
                 \/ disk'.notes[n].state = "Acknowledged"
      <4>1. /\ Target(mem'.notes[n]) = Target(mem.notes[n])
            /\ Target(mem.notes[n]) \in Chats
        BY <1>1, <1>3, <3>2, ReaderStays, ReaderIsAChat
      <4>2. \/ n \in record[Target(mem.notes[n])]
            \/ disk'.notes[n].state = "Acknowledged"
        BY <2>2, <3>2 DEF Evolves, IInv, FileBehind
      <4> QED BY <4>1, <4>2 DEF RecordKept
    <3> QED BY <2>2, <3>1, <3>2 DEF FileBehind, IsPosted
  <2> QED BY <1>1, <2>1, <2>2
<1> QED BY <1>6, <1>7, <1>8

\* The claim of the pass stands while the ledger moves under it.
LEMMA ClaimStays ==
  ASSUME IInv, Evolves, Counts(mem, mem'), UNCHANGED <<copies, pass>>, RecordKept,
         mem'.open = mem.open \/ pass.at = None
  PROVE  PassIsCareful' /\ ClaimIsCounted' /\ ClaimIsNewest'
<1>1. /\ Changes(mem, mem') /\ disk' \in {disk, mem'}
      /\ Sound(mem') /\ mem' \in Ledger /\ mem \in Ledger /\ disk \in Ledger
  BY DEF Evolves, Sound, IInv, TypeOK
<1>2. pass.due \cup pass.ids \cup pass.got \subseteq Ids
  BY DEF IInv, TypeOK
<1>3. \A n \in Ids : copies[n] > 0 /\ Waits(mem'.notes[n]) => Waits(mem.notes[n])
  BY SentStays
<1>4. \A n \in Ids : mem.notes[n].tries \in Nat /\ mem'.notes[n].tries \in Nat
                     /\ disk.notes[n].tries \in Nat /\ copies[n] \in Nat
  BY <1>1, InboxAssumption DEF Ledger, Note, IInv, TypeOK
<1>5. PassIsCareful'
  <2>1. \A n \in pass.due \cup pass.ids \cup pass.got :
          IsPosted(mem', n) /\ Target(mem'.notes[n]) = Target(mem.notes[n])
    BY <1>1, <1>2, ReaderStays DEF IInv, PassIsCareful
  <2>2. ASSUME pass.step = "receipts"
        PROVE  pass.got \subseteq record'[pass.at]
    <3>1. pass.at \in Chats /\ pass.got \subseteq record[pass.at]
      BY <2>2 DEF IInv, TypeOK, PassIsCareful, Serving
    <3> QED BY <3>1 DEF RecordKept
  <2>3. pass' = pass /\ copies' = copies
    OBVIOUS
  <2> QED BY <2>1, <2>2, <2>3, <1>2, <1>3 DEF IInv, PassIsCareful
<1>6. ClaimIsCounted'
  <2> SUFFICES ASSUME pass.step \in Holding
               PROVE  /\ pass.ids # {}
                      /\ \A n \in pass.ids : \A l \in {mem', disk'} :
                           /\ IsPosted(l, n)
                           /\ l.notes[n].tries > (IF copies[n] > 0 THEN 1 ELSE 0)
                           /\ l.notes[n].sequence = mem'.notes[n].sequence
    BY DEF ClaimIsCounted
  <2>1. pass.ids # {}
    BY DEF IInv, ClaimIsCounted
  <2>2. ASSUME NEW n \in pass.ids
        PROVE  /\ IsPosted(mem', n)
               /\ mem'.notes[n].tries > (IF copies[n] > 0 THEN 1 ELSE 0)
               /\ mem'.notes[n].sequence = mem.notes[n].sequence
    <3>1. /\ n \in Ids /\ IsPosted(mem, n)
          /\ mem.notes[n].tries > (IF copies[n] > 0 THEN 1 ELSE 0)
      BY <1>2 DEF IInv, ClaimIsCounted
    <3>2. mem'.notes[n].tries >= mem.notes[n].tries
      BY <3>1 DEF Counts
    <3>3. Moves(mem.notes[n], mem'.notes[n])
      BY <1>1, <3>1 DEF Changes
    <3> QED BY <1>4, <3>1, <3>2, <3>3 DEF Moves, IsPosted
  <2>3. ASSUME NEW n \in pass.ids
        PROVE  /\ IsPosted(disk, n)
               /\ disk.notes[n].tries > (IF copies[n] > 0 THEN 1 ELSE 0)
               /\ disk.notes[n].sequence = mem.notes[n].sequence
    BY DEF IInv, ClaimIsCounted
  <2> QED BY <1>1, <2>1, <2>2, <2>3
<1>7. ClaimIsNewest'
  <2> SUFFICES ASSUME pass.step = "write"
               PROVE  /\ mem'.open
                      /\ \A n \in pass.ids, m \in Ids :
                           /\ n # m /\ copies[m] > 0
                           /\ mem'.notes[m].state # "Cancelled"
                           /\ Informs(mem'.notes[n]) /\ Informs(mem'.notes[m])
                           /\ mem'.notes[n].about = mem'.notes[m].about
                           /\ mem'.notes[n].attempt = mem'.notes[m].attempt
                           => mem'.notes[m].sequence < mem'.notes[n].sequence
    BY DEF ClaimIsNewest
  <2>1. mem'.open
    BY DEF IInv, ClaimIsNewest, PassIsCareful, Serving
  <2>2. ASSUME NEW n \in pass.ids, NEW m \in Ids,
               n # m, copies[m] > 0, mem'.notes[m].state # "Cancelled",
               Informs(mem'.notes[n]), Informs(mem'.notes[m]),
               mem'.notes[n].about = mem'.notes[m].about,
               mem'.notes[n].attempt = mem'.notes[m].attempt
        PROVE  mem'.notes[m].sequence < mem'.notes[n].sequence
    <3>1. /\ n \in Ids /\ IsPosted(mem, n) /\ mem.notes[n].tries > 0
      BY <1>2, <1>4 DEF IInv, ClaimIsCounted, Holding
    <3>2. /\ mem'.notes[n].sequence = mem.notes[n].sequence
          /\ mem'.notes[n].attempt = mem.notes[n].attempt
          /\ mem'.notes[n].about = mem.notes[n].about
          /\ Informs(mem.notes[n])
      BY <1>1, <1>4, <2>2, <3>1, ReaderStays DEF Changes, Moves, IsPosted
    <3>3. /\ mem'.notes[m].sequence = mem.notes[m].sequence
          /\ mem'.notes[m].attempt = mem.notes[m].attempt
          /\ mem'.notes[m].about = mem.notes[m].about
          /\ Informs(mem.notes[m]) /\ mem.notes[m].state # "Cancelled"
      BY <1>1, <2>2, SentStays, ReaderStays
    <3> QED BY <2>2, <3>2, <3>3 DEF IInv, ClaimIsNewest
  <2> QED BY <2>1, <2>2
<1> QED BY <1>5, <1>6, <1>7

LEMMA SentIsCountedOn ==
  ASSUME IInv, Changes(mem, mem'), Counts(mem, mem'), mem' \in Ledger
  PROVE  \A n \in Ids :
           copies[n] > 0 /\ Waits(mem'.notes[n]) => mem'.notes[n].tries > 0
<1> SUFFICES ASSUME NEW n \in Ids, copies[n] > 0, Waits(mem'.notes[n])
             PROVE  mem'.notes[n].tries > 0
  OBVIOUS
<1>1. IsPosted(mem, n) /\ (Waits(mem.notes[n]) => mem.notes[n].tries > 0)
  BY DEF IInv, LedgerInv, KnowsSent
<1>2. Waits(mem.notes[n])
  BY <1>1 DEF Changes, Moves, IsPosted
<1>3. mem'.notes[n].tries >= mem.notes[n].tries
  BY <1>1 DEF Counts
<1>4. mem'.notes[n].tries \in Nat /\ mem.notes[n].tries \in Nat
  BY InboxAssumption DEF IInv, TypeOK, Ledger, Note
<1> QED BY <1>1, <1>2, <1>3, <1>4

LEMMA PostsEvolves ==
  ASSUME IInv, Posts(mem, mem'), disk' \in {disk, mem'}
  PROVE  Evolves /\ Counts(mem, mem')
BY SentIsCountedOn DEF Posts, Sound, Evolves

\* Receipts are still of this chat, whatever is posted in between.
LEMMA ReceiptsStay ==
  ASSUME IInv, Evolves, UNCHANGED <<copies, record, proc, readers>>
  PROVE  ReceiptsAreReal'
<1>1. \A n \in Ids : copies[n] > 0 => Target(mem'.notes[n]) = Target(mem.notes[n])
  BY SentStays, ReaderStays DEF Evolves
<1>2. \A k \in Chats :
        /\ proc[k].turn \subseteq Ids
        /\ \A r \in readers[k] : r.ids \subseteq Ids
  BY DEF IInv, TypeOK
<1> QED BY <1>1, <1>2 DEF IInv, ReceiptsAreReal

\* A step that moves the ledger and none of the pass.
LEMMA HostStep ==
  ASSUME IInv, Evolves, Counts(mem, mem'), TypeOK', ReceiptsAreReal', RecordKept,
         UNCHANGED <<pass, copies, said>>, mem'.open = mem.open \/ pass.at = None
  PROVE  IInv'
BY LedgersStay, ClaimStays DEF IInv

LEMMA LedgerStep ==
  ASSUME IInv, Posts(mem, mem'), disk' \in {disk, mem'},
         mem'.open = mem.open \/ pass.at = None,
         UNCHANGED <<proc, readers, record, pass, restarts, copies, said>>
  PROVE  IInv' /\ Evolves
<1>1. Evolves /\ Counts(mem, mem')
  BY PostsEvolves
<1>2. TypeOK'
  BY DEF IInv, TypeOK, Posts, Sound
<1>3. RecordKept
  BY DEF RecordKept
<1> QED BY <1>1, <1>2, <1>3, ReceiptsStay, HostStep

\* A step that posts a notice, on a ledger whose attempts moved first.
LEMMA PostStep ==
  ASSUME IInv, NEW l, l \in Ledger, l.notes = mem.notes, l.open = mem.open,
         l.sequence = mem.sequence, Room(mem),
         NEW kind \in Kinds, NEW w \in Workers,
         mem' = Enqueue(l, kind, w), disk' \in {disk, mem'},
         UNCHANGED <<proc, readers, record, pass, restarts, copies, said>>
  PROVE  IInv' /\ Evolves
<1>1. Sound(mem)
  BY DEF IInv, LedgerInv, Sound
<1>2. Sound(l)
  BY <1>1, AttemptsApart DEF Posts
<1>3. Posts(l, mem')
  BY <1>2, EnqueuePosts DEF Room
<1>4. Posts(mem, mem')
  BY <1>3, PostsGoByNotes
<1>5. mem'.open = mem.open
  BY DEF Enqueue, Ledger
<1> QED BY <1>4, <1>5, LedgerStep


---------------------------------------------------------------------------
(* The agents and the host, one action each *)

LEMMA TellStep ==
  ASSUME IInv, NEW w \in Workers, NEW kind \in Kinds, Tell(w, kind)
  PROVE  IInv' /\ Evolves
<1>1. mem \in Ledger
  BY DEF IInv, TypeOK
<1> QED BY <1>1, PostStep DEF Tell, Commit

LEMMA InstructStep ==
  ASSUME IInv, NEW w \in Workers, NEW interrupting \in BOOLEAN,
         Instruct(w, interrupting)
  PROVE  IInv' /\ Evolves
<1>1. mem \in Ledger /\ "instruction" \in Kinds
  BY DEF IInv, TypeOK, Kinds
<1>2. /\ mem' = Enqueue(mem, "instruction", w) /\ disk' \in {disk, mem'}
      /\ Room(mem)
      /\ UNCHANGED <<proc, readers, record, pass, restarts, copies, said>>
  BY DEF Instruct, Commit, Keep
<1> QED BY <1>1, <1>2, PostStep

\* An attempt that is settled changes no notice.
LEMMA SettledLedger ==
  ASSUME NEW l \in Ledger, NEW w \in Workers
  PROVE  /\ Settled(l, w) \in Ledger /\ Settled(l, w).notes = l.notes
         /\ Settled(l, w).open = l.open /\ Settled(l, w).sequence = l.sequence
<1> DEFINE attempt == [l.attempt[w] EXCEPT !.status = "over", !.gate = 0]
<1>1. attempt \in Attempt
  <2>1. l.attempt[w] \in Attempt /\ 0 \in 0 .. MaxNotices
    BY InboxAssumption DEF Ledger
  <2> QED BY <2>1 DEF Attempt
<1>2. Settled(l, w) = [l EXCEPT !.attempt[w] = attempt]
  BY DEF Settled, Ledger
<1> HIDE DEF attempt
<1> QED BY <1>1, <1>2 DEF Ledger

LEMMA ReportStep ==
  ASSUME IInv, NEW w \in Workers, Report(w) \/ Confirm(w)
  PROVE  IInv' /\ Evolves
<1>1. mem \in Ledger /\ "report" \in Kinds
  BY DEF IInv, TypeOK, Kinds
<1>2. /\ mem' = Enqueue(Settled(mem, w), "report", w) /\ disk' = mem'
      /\ Room(mem)
      /\ UNCHANGED <<proc, readers, record, pass, restarts, copies, said>>
  BY DEF Report, Confirm, Commit
<1> QED BY <1>1, <1>2, PostStep, SettledLedger

LEMMA FailStep ==
  ASSUME IInv, NEW w \in Workers, NEW kind \in Kinds, Fail(w, kind)
  PROVE  IInv' /\ Evolves
<1>1. mem \in Ledger
  BY DEF IInv, TypeOK
<1>2. /\ mem' = Enqueue(Settled(mem, w), kind, w) /\ disk' = mem'
      /\ Room(mem)
      /\ UNCHANGED <<proc, readers, record, pass, restarts, copies, said>>
  BY DEF Fail, Commit
<1> QED BY <1>1, <1>2, PostStep, SettledLedger

\* An attempt that asks a question, or has it answered, changes no notice.
LEMMA GatedLedger ==
  ASSUME NEW l \in Ledger, NEW w \in Workers, NEW gate \in 0 .. MaxNotices,
         NEW status \in {"running", "blocked"}
  PROVE  LET k == [l EXCEPT !.attempt[w].status = status, !.attempt[w].gate = gate]
         IN  /\ k \in Ledger /\ k.notes = l.notes
             /\ k.open = l.open /\ k.sequence = l.sequence
<1> DEFINE attempt == [l.attempt[w] EXCEPT !.status = status, !.gate = gate]
           k == [l EXCEPT !.attempt[w].status = status, !.attempt[w].gate = gate]
<1>1. attempt \in Attempt
  BY DEF Ledger, Attempt
<1>2. k = [l EXCEPT !.attempt[w] = attempt]
  BY DEF Ledger
<1> HIDE DEF attempt, k
<1>3. /\ k \in Ledger /\ k.notes = l.notes
      /\ k.open = l.open /\ k.sequence = l.sequence
  BY <1>1, <1>2 DEF Ledger
<1> QED BY <1>3 DEF k

LEMMA AskGateStep ==
  ASSUME IInv, NEW w \in Workers, AskGate(w)
  PROVE  IInv' /\ Evolves
<1> DEFINE gate == mem.sequence + 1
           l == [mem EXCEPT !.attempt[w].status = "blocked",
                            !.attempt[w].gate = gate]
<1>1. mem \in Ledger /\ "decision" \in Kinds /\ Room(mem)
  BY DEF IInv, TypeOK, Kinds, AskGate
<1>2. /\ mem' = Enqueue(l, "decision", w) /\ disk' = mem'
      /\ UNCHANGED <<proc, readers, record, pass, restarts, copies, said>>
  BY DEF AskGate, Commit
<1>3. gate \in 0 .. MaxNotices
  BY <1>1, InboxAssumption DEF Room, Ledger
<1> HIDE DEF gate
<1>4. /\ l \in Ledger /\ l.notes = mem.notes
      /\ l.open = mem.open /\ l.sequence = mem.sequence
  BY <1>1, <1>3, GatedLedger
<1> HIDE DEF l
<1> QED BY <1>1, <1>2, <1>4, PostStep

LEMMA ResolveStep ==
  ASSUME IInv, NEW w \in Workers, Resolve(w)
  PROVE  IInv' /\ Evolves
<1> DEFINE l == [mem EXCEPT !.attempt[w].status = "running",
                            !.attempt[w].gate = 0]
<1>1. /\ mem \in Ledger /\ "resolution" \in Kinds /\ Room(mem)
      /\ 0 \in 0 .. MaxNotices
  BY InboxAssumption DEF IInv, TypeOK, Kinds, Resolve
<1>2. /\ mem' = Enqueue(l, "resolution", w) /\ disk' \in {disk, mem'}
      /\ UNCHANGED <<proc, readers, record, pass, restarts, copies, said>>
  BY DEF Resolve, Keep
<1>3. /\ l \in Ledger /\ l.notes = mem.notes
      /\ l.open = mem.open /\ l.sequence = mem.sequence
  BY <1>1, GatedLedger
<1> HIDE DEF l
<1> QED BY <1>1, <1>2, <1>3, PostStep

LEMMA StopRunStep ==
  ASSUME IInv, StopRun
  PROVE  IInv' /\ Evolves
<1>1. Posts(mem, Stopped(mem))
  BY StoppedPosts DEF IInv, LedgerInv, Sound
<1> QED BY <1>1, LedgerStep DEF StopRun, Keep

LEMMA LapseStep ==
  ASSUME IInv, NEW n \in Ids, Lapse(n)
  PROVE  IInv' /\ Evolves
<1>1. Posts(mem, Lapsed(mem, n)) /\ Lapsed(mem, n).open = mem.open
  BY LapsedPosts DEF IInv, LedgerInv, Sound, Lapse
<1> QED BY <1>1, LedgerStep DEF Lapse

\* The ledger as it is, saved or not.
LEMMA NothingPosted ==
  ASSUME IInv
  PROVE  Posts(mem, mem)
BY AttemptsApart DEF IInv, LedgerInv, Sound

LEMMA SettleStep ==
  ASSUME IInv, Settle
  PROVE  IInv' /\ Evolves
BY NothingPosted, LedgerStep DEF Settle


\* What was sent to a chat, and is still on its way, is of that chat.
LEMMA SentToChat ==
  ASSUME IInv, Evolves, UNCHANGED copies, NEW k \in Chats, NEW n \in proc[k].turn
  PROVE  n \in Ids /\ copies'[n] > 0 /\ Target(mem'.notes[n]) = k
<1>1. n \in Ids /\ copies[n] > 0 /\ Target(mem.notes[n]) = k
  BY DEF IInv, TypeOK, ReceiptsAreReal
<1> QED BY <1>1, SentStays, ReaderStays DEF Evolves

\* A step of a process or of its reader that keeps to this.
LEMMA ProcessStep ==
  ASSUME IInv, Evolves, Counts(mem, mem'), mem'.open = mem.open, RecordKept,
         UNCHANGED <<pass, restarts, copies, said>>,
         proc' \in [Chats -> [up : BOOLEAN, busy : BOOLEAN, turn : SUBSET Ids]],
         readers' \in
           [Chats -> SUBSET [ids : SUBSET Ids, step : {"waits", "read", "kept"}]],
         record' \in [Chats -> SUBSET Ids],
         \A k \in Chats : proc'[k].turn \subseteq proc[k].turn,
         \A k \in Chats : \A r \in readers'[k] :
           \/ \E q \in readers[k] : r.ids = q.ids /\ (r.step = "kept" => q.step = "kept")
           \/ r.ids = proc[k].turn /\ r.step # "kept"
           \/ \E q \in readers[k] : r.ids = q.ids /\ r.ids \subseteq record'[k],
         \A k \in Chats : \A n \in record'[k] : copies[n] > 0
  PROVE  IInv'
<1>1. TypeOK'
  BY DEF IInv, TypeOK, Evolves, Sound
<1>2. \A k \in Chats : \A n \in record'[k] : copies'[n] > 0
  OBVIOUS
<1>3. \A k \in Chats : \A n \in proc'[k].turn :
        copies'[n] > 0 /\ Target(mem'.notes[n]) = k
  BY SentToChat
<1>4. ASSUME NEW k \in Chats, NEW r \in readers'[k], NEW n \in r.ids
      PROVE  /\ copies'[n] > 0 /\ Target(mem'.notes[n]) = k
             /\ r.step = "kept" => n \in record'[k]
  <2>1. CASE r.ids = proc[k].turn /\ r.step # "kept"
    BY <1>4, <2>1, SentToChat
  <2>2. ASSUME NEW q \in readers[k], r.ids = q.ids
        PROVE  copies'[n] > 0 /\ Target(mem'.notes[n]) = k
    <3>1. n \in Ids /\ copies[n] > 0 /\ Target(mem.notes[n]) = k
      BY <1>4, <2>2 DEF IInv, TypeOK, ReceiptsAreReal
    <3> QED BY <3>1, SentStays, ReaderStays DEF Evolves
  <2>3. ASSUME NEW q \in readers[k], r.ids = q.ids, q.step = "kept"
        PROVE  n \in record'[k]
    BY <1>4, <2>3 DEF IInv, ReceiptsAreReal, RecordKept
  <2> QED BY <1>4, <2>1, <2>2, <2>3
<1>5. ReceiptsAreReal'
  BY <1>2, <1>3, <1>4 DEF ReceiptsAreReal
<1> QED BY <1>1, <1>5, HostStep

\* Steps that leave the ledger alone.
LEMMA LedgerAlone ==
  ASSUME IInv, UNCHANGED <<mem, disk>>
  PROVE  Evolves /\ Counts(mem, mem') /\ mem'.open = mem.open
BY NothingPosted, PostsEvolves

LEMMA ReadReceiptStep ==
  ASSUME IInv, NEW k \in Chats, ReadReceipt(k)
  PROVE  IInv' /\ Evolves
<1>1. /\ proc \in [Chats -> [up : BOOLEAN, busy : BOOLEAN, turn : SUBSET Ids]]
      /\ readers \in
           [Chats -> SUBSET [ids : SUBSET Ids, step : {"waits", "read", "kept"}]]
      /\ record \in [Chats -> SUBSET Ids]
      /\ \A j \in Chats : \A n \in record[j] : copies[n] > 0
  BY DEF IInv, TypeOK, ReceiptsAreReal
<1>2. Evolves /\ Counts(mem, mem') /\ mem'.open = mem.open
  BY LedgerAlone DEF ReadReceipt
<1> DEFINE r == [ids |-> proc[k].turn, step |-> "read"]
<1>3. /\ proc' = [proc EXCEPT ![k] = [proc[k] EXCEPT !.turn = {}]]
      /\ readers' = [readers EXCEPT ![k] = readers[k] \cup {r}]
      /\ UNCHANGED <<pass, restarts, copies, said, record>>
  BY <1>1 DEF ReadReceipt
<1>4. /\ r \in [ids : SUBSET Ids, step : {"waits", "read", "kept"}]
      /\ r.ids = proc[k].turn /\ r.step = "read"
  BY <1>1
<1> HIDE DEF r
<1>5. /\ proc' \in [Chats -> [up : BOOLEAN, busy : BOOLEAN, turn : SUBSET Ids]]
      /\ readers' \in
           [Chats -> SUBSET [ids : SUBSET Ids, step : {"waits", "read", "kept"}]]
      /\ \A j \in Chats : proc'[j].turn \subseteq proc[j].turn
      /\ \A j \in Chats : readers'[j] = readers[j] \cup (IF j = k THEN {r} ELSE {})
  BY <1>1, <1>3, <1>4
<1>6. RecordKept
  BY <1>3 DEF RecordKept
<1> QED BY <1>1, <1>2, <1>3, <1>4, <1>5, <1>6, ProcessStep


LEMMA ReadLateStep ==
  ASSUME IInv, NEW k \in Chats, NEW r \in readers[k], ReadLate(k, r)
  PROVE  IInv' /\ Evolves
<1>1. /\ proc \in [Chats -> [up : BOOLEAN, busy : BOOLEAN, turn : SUBSET Ids]]
      /\ readers \in
           [Chats -> SUBSET [ids : SUBSET Ids, step : {"waits", "read", "kept"}]]
      /\ record \in [Chats -> SUBSET Ids]
      /\ \A j \in Chats : \A n \in record[j] : copies[n] > 0
  BY DEF IInv, TypeOK, ReceiptsAreReal
<1>2. Evolves /\ Counts(mem, mem') /\ mem'.open = mem.open
  BY LedgerAlone DEF ReadLate
<1> DEFINE q == [r EXCEPT !.step = "read"]
<1>3. /\ readers' = [readers EXCEPT ![k] = (readers[k] \ {r}) \cup {q}]
      /\ UNCHANGED <<proc, pass, restarts, copies, said, record>>
  BY <1>1 DEF ReadLate
<1>4. /\ q \in [ids : SUBSET Ids, step : {"waits", "read", "kept"}]
      /\ q.ids = r.ids /\ q.step = "read"
  BY <1>1
<1> HIDE DEF q
<1>5. /\ readers' \in
           [Chats -> SUBSET [ids : SUBSET Ids, step : {"waits", "read", "kept"}]]
      /\ \A j \in Chats : \A p \in readers'[j] : p \in readers[j] \/ (j = k /\ p = q)
  BY <1>1, <1>3, <1>4
<1>6. RecordKept
  BY <1>3 DEF RecordKept
<1> QED BY <1>1, <1>2, <1>3, <1>4, <1>5, <1>6, ProcessStep

LEMMA OutputEndsStep ==
  ASSUME IInv, NEW k \in Chats, NEW r \in readers[k], OutputEnds(k, r)
  PROVE  IInv' /\ Evolves
<1>1. /\ proc \in [Chats -> [up : BOOLEAN, busy : BOOLEAN, turn : SUBSET Ids]]
      /\ readers \in
           [Chats -> SUBSET [ids : SUBSET Ids, step : {"waits", "read", "kept"}]]
      /\ record \in [Chats -> SUBSET Ids]
      /\ \A j \in Chats : \A n \in record[j] : copies[n] > 0
  BY DEF IInv, TypeOK, ReceiptsAreReal
<1>2. Evolves /\ Counts(mem, mem') /\ mem'.open = mem.open
  BY LedgerAlone DEF OutputEnds
<1>3. /\ readers' = [readers EXCEPT ![k] = readers[k] \ {r}]
      /\ UNCHANGED <<proc, pass, restarts, copies, said, record>>
  BY <1>1 DEF OutputEnds
<1>5. /\ readers' \in
           [Chats -> SUBSET [ids : SUBSET Ids, step : {"waits", "read", "kept"}]]
      /\ \A j \in Chats : readers'[j] \subseteq readers[j]
  BY <1>1, <1>3
<1>6. RecordKept
  BY <1>3 DEF RecordKept
<1> QED BY <1>1, <1>2, <1>3, <1>5, <1>6, ProcessStep

\* The record hears of a receipt first.
LEMMA KeepReceiptStep ==
  ASSUME IInv, NEW k \in Chats, NEW r \in readers[k], KeepReceipt(k, r)
  PROVE  IInv' /\ Evolves
<1>1. /\ proc \in [Chats -> [up : BOOLEAN, busy : BOOLEAN, turn : SUBSET Ids]]
      /\ readers \in
           [Chats -> SUBSET [ids : SUBSET Ids, step : {"waits", "read", "kept"}]]
      /\ record \in [Chats -> SUBSET Ids]
      /\ \A j \in Chats : \A n \in record[j] : copies[n] > 0
      /\ \A n \in r.ids : copies[n] > 0
  BY DEF IInv, TypeOK, ReceiptsAreReal
<1>2. Evolves /\ Counts(mem, mem') /\ mem'.open = mem.open
  BY LedgerAlone DEF KeepReceipt
<1> DEFINE q == [r EXCEPT !.step = "kept"]
<1>3. /\ readers' = [readers EXCEPT ![k] = (readers[k] \ {r}) \cup {q}]
      /\ record' = [record EXCEPT ![k] = record[k] \cup r.ids]
      /\ UNCHANGED <<proc, pass, restarts, copies, said>>
  BY <1>1 DEF KeepReceipt
<1>4. /\ q \in [ids : SUBSET Ids, step : {"waits", "read", "kept"}]
      /\ q.ids = r.ids /\ r.ids \subseteq Ids
  BY <1>1
<1> HIDE DEF q
<1>5. /\ readers' \in
           [Chats -> SUBSET [ids : SUBSET Ids, step : {"waits", "read", "kept"}]]
      /\ \A j \in Chats : \A p \in readers'[j] : p \in readers[j] \/ (j = k /\ p = q)
  BY <1>1, <1>3, <1>4
<1>6. /\ record' \in [Chats -> SUBSET Ids]
      /\ \A j \in Chats : record'[j] = record[j] \cup (IF j = k THEN r.ids ELSE {})
  BY <1>1, <1>3, <1>4
<1>7. RecordKept /\ (\A j \in Chats : \A n \in record'[j] : copies[n] > 0)
  BY <1>1, <1>6 DEF RecordKept
<1> QED BY <1>1, <1>2, <1>3, <1>4, <1>5, <1>6, <1>7, ProcessStep

\* And the ledger hears of what is on record.
LEMMA AcksEvolve ==
  ASSUME IInv, NEW k \in Chats, NEW ids \in SUBSET Ids,
         mem' = Acked(mem, ids), disk' \in {disk, mem'},
         \A n \in ids : n \in record[k] /\ Target(mem.notes[n]) = k
  PROVE  Evolves /\ Counts(mem, mem') /\ mem'.open = mem.open
<1>1. /\ Sound(mem') /\ Changes(mem, mem') /\ Counts(mem, mem')
      /\ mem'.open = mem.open
      /\ \A n \in Ids : mem'.notes[n] = mem.notes[n] \/ n \in ids
  BY AckedChanges DEF IInv, LedgerInv, Sound
<1> QED BY <1>1, SentIsCountedOn DEF Evolves, Sound

LEMMA AckReceiptStep ==
  ASSUME IInv, NEW k \in Chats, NEW r \in readers[k], AckReceipt(k, r)
  PROVE  IInv' /\ Evolves
<1>1. /\ proc \in [Chats -> [up : BOOLEAN, busy : BOOLEAN, turn : SUBSET Ids]]
      /\ readers \in
           [Chats -> SUBSET [ids : SUBSET Ids, step : {"waits", "read", "kept"}]]
      /\ record \in [Chats -> SUBSET Ids]
      /\ \A j \in Chats : \A n \in record[j] : copies[n] > 0
      /\ r.ids \subseteq Ids
  BY DEF IInv, TypeOK, ReceiptsAreReal
<1>2. Evolves /\ Counts(mem, mem') /\ mem'.open = mem.open
  <2>1. CASE Gone(mem, r.ids)
    BY <2>1, LedgerAlone DEF AckReceipt
  <2>2. CASE ~Gone(mem, r.ids)
    <3>1. \A n \in r.ids : n \in record[k] /\ Target(mem.notes[n]) = k
      BY DEF AckReceipt, IInv, ReceiptsAreReal
    <3> QED BY <1>1, <2>2, <3>1, AcksEvolve DEF AckReceipt, Keep
  <2> QED BY <2>1, <2>2
<1>3. /\ readers' = [readers EXCEPT ![k] = readers[k] \ {r}]
      /\ UNCHANGED <<proc, pass, restarts, copies, said, record>>
  BY <1>1 DEF AckReceipt
<1>5. /\ readers' \in
           [Chats -> SUBSET [ids : SUBSET Ids, step : {"waits", "read", "kept"}]]
      /\ \A j \in Chats : readers'[j] \subseteq readers[j]
  BY <1>1, <1>3
<1>6. RecordKept
  BY <1>3 DEF RecordKept
<1> QED BY <1>1, <1>2, <1>3, <1>5, <1>6, ProcessStep


LEMMA TurnEndsStep ==
  ASSUME IInv, NEW k \in Chats, TurnEnds(k)
  PROVE  IInv' /\ Evolves
<1>1. /\ proc \in [Chats -> [up : BOOLEAN, busy : BOOLEAN, turn : SUBSET Ids]]
      /\ readers \in
           [Chats -> SUBSET [ids : SUBSET Ids, step : {"waits", "read", "kept"}]]
      /\ record \in [Chats -> SUBSET Ids]
      /\ \A j \in Chats : \A n \in record[j] : copies[n] > 0
  BY DEF IInv, TypeOK, ReceiptsAreReal
<1>2. Evolves /\ Counts(mem, mem') /\ mem'.open = mem.open
  BY LedgerAlone DEF TurnEnds
<1>3. /\ proc' = [proc EXCEPT ![k] = [proc[k] EXCEPT !.busy = FALSE]]
      /\ UNCHANGED <<readers, pass, restarts, copies, said, record>>
  BY <1>1 DEF TurnEnds
<1>4. /\ proc' \in [Chats -> [up : BOOLEAN, busy : BOOLEAN, turn : SUBSET Ids]]
      /\ \A j \in Chats : proc'[j].turn \subseteq proc[j].turn
  BY <1>1, <1>3
<1>5. RecordKept
  BY <1>3 DEF RecordKept
<1> QED BY <1>1, <1>2, <1>3, <1>4, <1>5, ProcessStep

LEMMA PersonTurnStep ==
  ASSUME IInv, NEW k \in Chats, PersonTurn(k)
  PROVE  IInv' /\ Evolves
<1>1. /\ proc \in [Chats -> [up : BOOLEAN, busy : BOOLEAN, turn : SUBSET Ids]]
      /\ readers \in
           [Chats -> SUBSET [ids : SUBSET Ids, step : {"waits", "read", "kept"}]]
      /\ record \in [Chats -> SUBSET Ids]
      /\ \A j \in Chats : \A n \in record[j] : copies[n] > 0
  BY DEF IInv, TypeOK, ReceiptsAreReal
<1>2. Evolves /\ Counts(mem, mem') /\ mem'.open = mem.open
  BY LedgerAlone DEF PersonTurn
<1>3. /\ proc' = [proc EXCEPT ![k] = [up |-> TRUE, busy |-> TRUE, turn |-> {}]]
      /\ UNCHANGED <<readers, pass, restarts, copies, said, record>>
  BY <1>1 DEF PersonTurn
<1>4. /\ proc' \in [Chats -> [up : BOOLEAN, busy : BOOLEAN, turn : SUBSET Ids]]
      /\ \A j \in Chats : proc'[j].turn \subseteq proc[j].turn
  BY <1>1, <1>3
<1>5. RecordKept
  BY <1>3 DEF RecordKept
<1> QED BY <1>1, <1>2, <1>3, <1>4, <1>5, ProcessStep

\* What a process was given, and has not answered for, is still to be read.
Left(k) ==
  IF proc[k].turn = {} THEN {} ELSE {[ids |-> proc[k].turn, step |-> "waits"]}

LEMMA LeftToRead ==
  ASSUME IInv, NEW k \in Chats, NEW more \in SUBSET Left(k),
         readers' = [readers EXCEPT ![k] = readers[k] \cup more]
  PROVE  /\ readers' \in
              [Chats -> SUBSET [ids : SUBSET Ids, step : {"waits", "read", "kept"}]]
         /\ \A j \in Chats : \A r \in readers'[j] :
              r \in readers[j] \/ (r.ids = proc[j].turn /\ r.step # "kept")
<1>1. /\ readers \in
           [Chats -> SUBSET [ids : SUBSET Ids, step : {"waits", "read", "kept"}]]
      /\ proc[k].turn \subseteq Ids
  BY DEF IInv, TypeOK
<1>2. more \subseteq [ids : SUBSET Ids, step : {"waits", "read", "kept"}]
  BY <1>1 DEF Left
<1>3. \A r \in more : r.ids = proc[k].turn /\ r.step # "kept"
  BY DEF Left
<1> QED BY <1>1, <1>2, <1>3

LEMMA ProcessEndsStep ==
  ASSUME IInv, NEW k \in Chats, ProcessEnds(k)
  PROVE  IInv' /\ Evolves
<1>1. /\ proc \in [Chats -> [up : BOOLEAN, busy : BOOLEAN, turn : SUBSET Ids]]
      /\ record \in [Chats -> SUBSET Ids]
      /\ \A j \in Chats : \A n \in record[j] : copies[n] > 0
  BY DEF IInv, TypeOK, ReceiptsAreReal
<1>2. Evolves /\ Counts(mem, mem') /\ mem'.open = mem.open
  BY LedgerAlone DEF ProcessEnds
<1>3. /\ proc' = [proc EXCEPT ![k] = [up |-> FALSE, busy |-> FALSE, turn |-> {}]]
      /\ readers' = [readers EXCEPT ![k] = readers[k] \cup Left(k)]
      /\ UNCHANGED <<pass, restarts, copies, said, record>>
  BY <1>1 DEF ProcessEnds, Left
<1>4. /\ proc' \in [Chats -> [up : BOOLEAN, busy : BOOLEAN, turn : SUBSET Ids]]
      /\ \A j \in Chats : proc'[j].turn \subseteq proc[j].turn
  BY <1>1, <1>3
<1>5. RecordKept
  BY <1>3 DEF RecordKept
<1>6. /\ readers' \in
           [Chats -> SUBSET [ids : SUBSET Ids, step : {"waits", "read", "kept"}]]
      /\ \A j \in Chats : \A r \in readers'[j] :
           r \in readers[j] \/ (r.ids = proc[j].turn /\ r.step # "kept")
  <2>1. Left(k) \in SUBSET Left(k)
    OBVIOUS
  <2> QED BY <1>3, <2>1, LeftToRead
<1> QED BY <1>1, <1>2, <1>3, <1>4, <1>5, <1>6, ProcessStep

\* An attempt that begins changes no notice.
LEMMA StartStep ==
  ASSUME IInv, NEW w \in Workers, Start(w)
  PROVE  IInv' /\ Evolves
<1>1. /\ proc \in [Chats -> [up : BOOLEAN, busy : BOOLEAN, turn : SUBSET Ids]]
      /\ record \in [Chats -> SUBSET Ids]
      /\ \A j \in Chats : \A n \in record[j] : copies[n] > 0
      /\ mem \in Ledger /\ w \in Chats
  BY DEF IInv, TypeOK, ReceiptsAreReal, Chats
<1> DEFINE next == mem.attempt[w].n + 1
           attempt == [n |-> next, gate |-> 0, status |-> "running"]
           more == IF proc[w].up THEN Left(w) ELSE {}
<1>2. next \in 0 .. MaxAttempts /\ 0 \in 0 .. MaxNotices
  BY <1>1, InboxAssumption DEF Start, Ledger, Attempt
<1>3. /\ mem' = [mem EXCEPT !.attempt[w] = attempt]
      /\ disk' = mem'
      /\ proc' = [proc EXCEPT ![w] = [up |-> TRUE, busy |-> TRUE, turn |-> {}]]
      /\ readers' = [readers EXCEPT ![w] = readers[w] \cup more]
      /\ UNCHANGED <<pass, restarts, copies, said, record>>
  BY <1>1 DEF Start, Commit, Left
<1> HIDE DEF next
<1>4. attempt \in Attempt
  BY <1>2 DEF Attempt
<1> HIDE DEF attempt
<1>5. /\ mem' \in Ledger /\ mem'.notes = mem.notes
      /\ mem'.open = mem.open /\ mem'.sequence = mem.sequence
  BY <1>1, <1>3, <1>4 DEF Ledger
<1>6. Evolves /\ Counts(mem, mem')
  <2>1. Posts(mem, mem')
    BY <1>5, AttemptsApart DEF IInv, LedgerInv, Sound
  <2> QED BY <1>3, <2>1, PostsEvolves
<1>7. /\ proc' \in [Chats -> [up : BOOLEAN, busy : BOOLEAN, turn : SUBSET Ids]]
      /\ \A j \in Chats : proc'[j].turn \subseteq proc[j].turn
  BY <1>1, <1>3
<1>8. RecordKept
  BY <1>3 DEF RecordKept
<1>9. more \in SUBSET Left(w)
  OBVIOUS
<1> HIDE DEF more
<1>10. /\ readers' \in
            [Chats -> SUBSET [ids : SUBSET Ids, step : {"waits", "read", "kept"}]]
       /\ \A j \in Chats : \A r \in readers'[j] :
            r \in readers[j] \/ (r.ids = proc[j].turn /\ r.step # "kept")
  BY <1>1, <1>3, <1>9, LeftToRead
<1> QED BY <1>1, <1>3, <1>5, <1>6, <1>7, <1>8, <1>10, ProcessStep

LEMMA TakeForWorkerStep ==
  ASSUME IInv, NEW w \in Workers, TakeForWorker(w)
  PROVE  IInv' /\ Evolves
<1>1. /\ Sound(mem') /\ Changes(mem, mem') /\ Counts(mem, mem')
      /\ mem'.open = mem.open
      /\ \A n \in Ids : mem'.notes[n] = mem.notes[n] \/ Target(mem.notes[n]) = w
      /\ disk' = mem'
      /\ UNCHANGED <<proc, readers, record, pass, restarts, copies, said>>
  BY HandedChanges DEF IInv, LedgerInv, Sound, TakeForWorker, Commit
<1>2. w # Coordinator
  BY InboxAssumption
<1>3. Evolves
  BY <1>1, <1>2, SentIsCountedOn DEF Evolves, Sound
<1>4. TypeOK'
  BY <1>1 DEF IInv, TypeOK, Sound
<1>5. RecordKept
  BY <1>1 DEF RecordKept
<1> QED BY <1>1, <1>3, <1>4, <1>5, ReceiptsStay, HostStep


---------------------------------------------------------------------------
(* The pass, one action each *)

PassType ==
  [step : Steps, due : SUBSET Ids, tried : SUBSET Ids,
   at : Chats \cup {None}, got : SUBSET Ids, ids : SUBSET Ids]

\* A step that moves the pass, and the ledger with it.
LEMMA PassStep ==
  ASSUME IInv, Evolves, UNCHANGED <<proc, readers, record, restarts, copies, said>>,
         pass' \in PassType, PassIsCareful', ClaimIsCounted', ClaimIsNewest'
  PROVE  IInv'
<1>1. TypeOK'
  BY DEF IInv, TypeOK, Evolves, Sound, PassType
<1>2. RecordKept
  BY DEF RecordKept
<1> QED BY <1>1, <1>2, ReceiptsStay, LedgersStay DEF IInv

\* A pass that holds no claim claims nothing.
LEMMA NoClaim ==
  ASSUME pass'.step \notin Holding
  PROVE  ClaimIsCounted' /\ ClaimIsNewest'
BY DEF ClaimIsCounted, ClaimIsNewest, Holding

LEMMA OffIsCareful ==
  ASSUME pass' = Off
  PROVE  /\ pass' \in PassType /\ PassIsCareful' /\ pass'.step \notin Holding
         /\ ClaimIsCounted' /\ ClaimIsNewest'
<1>1. pass' \in PassType /\ PassIsCareful' /\ pass'.step \notin Holding
  BY DEF Off, PassType, Steps, PassIsCareful, Serving, Holding
<1> QED BY <1>1, NoClaim

\* A chat is let go of.
LEMMA LetGoIsCareful ==
  ASSUME IInv, pass' = LetGo, Changes(mem, mem'),
         \A n \in pass.due : copies'[n] > 0 /\ Waits(mem'.notes[n]) =>
            copies[n] > 0 /\ Waits(mem.notes[n])
  PROVE  /\ pass' \in PassType /\ PassIsCareful' /\ pass'.step \notin Holding
         /\ ClaimIsCounted' /\ ClaimIsNewest'
<1>1. CASE pass.due = {}
  BY <1>1, OffIsCareful DEF LetGo
<1>2. CASE pass.due # {}
  <2>1. pass \in PassType
    BY DEF IInv, TypeOK, PassType
  <2>2. /\ pass' \in PassType /\ pass'.step = "next" /\ pass'.at = None
        /\ pass'.ids = {} /\ pass'.due = pass.due /\ pass'.tried = pass.tried
        /\ pass'.got = pass.got
    BY <1>2, <2>1 DEF LetGo, PassType, Steps
  <2>3. \A n \in pass.due \cup pass.got : IsPosted(mem', n)
    BY <2>1, ReaderStays DEF IInv, PassIsCareful, PassType
  <2>4. PassIsCareful'
    BY <2>2, <2>3 DEF IInv, PassIsCareful, Serving
  <2> QED BY <2>2, <2>4, NoClaim DEF Holding
<1> QED BY <1>1, <1>2

LEMMA PassBeginsStep ==
  ASSUME IInv, PassBegins
  PROVE  IInv' /\ Evolves
<1>1. /\ Evolves /\ pass \in PassType /\ Numbered(mem) /\ KnowsSent(mem)
      /\ UNCHANGED <<mem, disk, proc, readers, record, restarts, copies, said>>
  BY LedgerAlone DEF PassBegins, IInv, LedgerInv, TypeOK, PassType
<1>2. /\ pass'.step = "next" /\ pass'.due = Due(mem) /\ pass'.at = None
      /\ pass'.tried = {n \in Due(mem) : mem.notes[n].tries > 0}
      /\ pass'.ids = {} /\ pass'.got = {} /\ pass' \in PassType
  BY DEF PassBegins, Off, PassType, Steps, Due
<1>3. ASSUME NEW n \in Due(mem)
      PROVE  /\ IsPosted(mem, n)
             /\ copies[n] > 0 /\ Waits(mem.notes[n]) => mem.notes[n].tries > 0
  BY <1>1 DEF Due, Numbered, KnowsSent, Waits
<1>4. PassIsCareful'
  BY <1>1, <1>2, <1>3 DEF PassIsCareful, Serving
<1> QED BY <1>1, <1>2, <1>4, NoClaim, PassStep DEF Holding

LEMMA PassReadsStep ==
  ASSUME IInv, NEW k \in Chats, PassReads(k)
  PROVE  IInv'
<1> DEFINE mine == {n \in pass.due : Target(mem.notes[n]) = k}
           got  == Received(k) \cap mine
<1>1. /\ Evolves /\ pass \in PassType
      /\ UNCHANGED <<mem, disk, proc, readers, record, restarts, copies, said>>
  BY LedgerAlone DEF PassReads, IInv, TypeOK, PassType
<1>2. /\ pass'.step = (IF got = {} THEN "claim" ELSE "receipts")
      /\ pass'.due = pass.due \ mine /\ pass'.at = k
      /\ pass'.tried = pass.tried /\ pass'.ids = mine \ got
      /\ pass'.got = got /\ pass' \in PassType
  BY <1>1 DEF PassReads, PassType, Steps
<1>3. /\ mine \subseteq pass.due /\ got \subseteq mine
      /\ \A n \in mine : Target(mem.notes[n]) = k
      /\ got \subseteq record[k]
  BY DEF Received
<1>4. k # None
  BY InboxAssumption DEF Chats
<1> HIDE DEF mine, got
<1>5. PassIsCareful'
  BY <1>1, <1>2, <1>3, <1>4 DEF IInv, PassIsCareful, Serving
<1>6. pass'.step \notin Holding
  BY <1>2 DEF Holding
<1> QED BY <1>1, <1>2, <1>5, <1>6, NoClaim, PassStep

LEMMA PassAbortsStep ==
  ASSUME IInv, PassAborts
  PROVE  IInv' /\ Evolves
<1>1. /\ Evolves /\ pass' = Off
      /\ UNCHANGED <<mem, disk, proc, readers, record, restarts, copies, said>>
  BY LedgerAlone DEF PassAborts
<1> QED BY <1>1, OffIsCareful, PassStep

LEMMA PassAcksStep ==
  ASSUME IInv, PassAcks
  PROVE  IInv' /\ Evolves
<1>1. /\ pass \in PassType /\ pass.step = "receipts" /\ pass.at \in Chats
      /\ pass.got \subseteq Ids
      /\ \A n \in pass.got : n \in record[pass.at] /\ Target(mem.notes[n]) = pass.at
  BY DEF PassAcks, IInv, TypeOK, PassType, PassIsCareful, Serving
<1>2. /\ mem' = Acked(mem, pass.got) /\ disk' \in {disk, mem'}
      /\ UNCHANGED <<proc, readers, record, restarts, copies, said>>
  BY DEF PassAcks, Keep
<1>3. Evolves
  BY <1>1, <1>2, AcksEvolve
<1>4. /\ pass'.step = "claim" /\ pass'.got = {} /\ pass' \in PassType
      /\ pass'.due = pass.due /\ pass'.tried = pass.tried
      /\ pass'.at = pass.at /\ pass'.ids = pass.ids
  BY <1>1 DEF PassAcks, PassType, Steps
<1>5. \A n \in pass.due \cup pass.ids :
        IsPosted(mem', n) /\ Target(mem'.notes[n]) = Target(mem.notes[n])
  BY <1>1, <1>3, ReaderStays DEF IInv, PassIsCareful, PassType, Evolves
<1>6. \A n \in pass.due :
        copies[n] > 0 /\ Waits(mem'.notes[n]) => Waits(mem.notes[n])
  BY <1>1, <1>3, SentStays DEF PassType
<1>7. PassIsCareful'
  BY <1>1, <1>2, <1>4, <1>5, <1>6 DEF IInv, PassIsCareful, Serving
<1> QED BY <1>2, <1>3, <1>4, <1>7, NoClaim, PassStep DEF Holding

LEMMA PassSkipsStep ==
  ASSUME IInv, PassSkips
  PROVE  IInv' /\ Evolves
<1>1. /\ Evolves /\ pass' = LetGo
      /\ UNCHANGED <<mem, disk, proc, readers, record, restarts, copies, said>>
  BY LedgerAlone DEF PassSkips
<1> QED BY <1>1, LetGoIsCareful, PassStep DEF Evolves

LEMMA PassFindsBusyStep ==
  ASSUME IInv, PassFindsBusy
  PROVE  IInv' /\ Evolves
<1>1. /\ Evolves /\ pass \in PassType /\ pass.step = "write"
      /\ UNCHANGED <<mem, disk, proc, readers, record, restarts, copies, said>>
  BY LedgerAlone DEF PassFindsBusy, IInv, TypeOK, PassType
<1>2. /\ pass'.step = "later" /\ pass'.got = pass.got /\ pass' \in PassType
      /\ pass'.due = pass.due /\ pass'.tried = pass.tried
      /\ pass'.at = pass.at /\ pass'.ids = pass.ids
  BY <1>1 DEF PassFindsBusy, PassType, Steps
<1>3. PassIsCareful' /\ ClaimIsCounted' /\ ClaimIsNewest'
  BY <1>1, <1>2 DEF IInv, PassIsCareful, ClaimIsCounted, ClaimIsNewest, Serving, Holding
<1> QED BY <1>1, <1>2, <1>3, PassStep


LEMMA PassFailsStep ==
  ASSUME IInv, PassFails
  PROVE  IInv' /\ Evolves
<1>1. /\ Evolves /\ pass \in PassType /\ pass.step = "write"
      /\ proc \in [Chats -> [up : BOOLEAN, busy : BOOLEAN, turn : SUBSET Ids]]
      /\ UNCHANGED <<mem, disk, readers, record, restarts, copies, said>>
  BY LedgerAlone DEF PassFails, IInv, TypeOK, PassType
<1>2. /\ pass'.step = "failed" /\ pass'.got = pass.got /\ pass' \in PassType
      /\ pass'.due = pass.due /\ pass'.tried = pass.tried
      /\ pass'.at = pass.at /\ pass'.ids = pass.ids
  BY <1>1 DEF PassFails, PassType, Steps
<1>3. PassIsCareful' /\ ClaimIsCounted' /\ ClaimIsNewest'
  BY <1>1, <1>2 DEF IInv, PassIsCareful, ClaimIsCounted, ClaimIsNewest, Serving, Holding
<1>4. /\ proc' \in [Chats -> [up : BOOLEAN, busy : BOOLEAN, turn : SUBSET Ids]]
      /\ \A k \in Chats : proc'[k].turn \subseteq proc[k].turn
  <2>1. CASE UNCHANGED proc
    BY <1>1, <2>1
  <2>2. CASE proc' = [proc EXCEPT ![pass.at] =
                        [up |-> TRUE, busy |-> TRUE, turn |-> {}]]
    BY <1>1, <2>2
  <2> QED BY <2>1, <2>2 DEF PassFails
<1>5. TypeOK'
  BY <1>1, <1>2, <1>4 DEF IInv, TypeOK, PassType
<1>6. RecordKept
  BY <1>1 DEF RecordKept
<1>7. ReceiptsAreReal'
  BY <1>1, <1>4 DEF IInv, ReceiptsAreReal
<1> QED BY <1>1, <1>3, <1>5, <1>6, <1>7, LedgersStay DEF IInv

\* The turn is written of what was claimed, in the words the ledger has.
LEMMA PassWritesStep ==
  ASSUME IInv, PassWrites
  PROVE  IInv'
<1>1. /\ pass \in PassType /\ pass.step = "write" /\ pass.at \in Chats
      /\ proc \in [Chats -> [up : BOOLEAN, busy : BOOLEAN, turn : SUBSET Ids]]
      /\ copies \in [Ids -> Nat] /\ said \in [Ids -> 0 .. MaxNotices]
      /\ mem \in Ledger /\ disk \in Ledger
      /\ UNCHANGED <<mem, disk, readers, record, restarts>>
      /\ pass.ids \subseteq Ids
  BY DEF PassWrites, IInv, TypeOK, PassType, PassIsCareful, Serving
<1>2. /\ proc' = [proc EXCEPT ![pass.at] =
                   [up |-> TRUE, busy |-> TRUE, turn |-> pass.ids]]
      /\ copies' = [n \in Ids |-> copies[n] + IF n \in pass.ids THEN 1 ELSE 0]
      /\ said' = [n \in Ids |-> IF n \in pass.ids THEN mem.notes[n].sequence
                                ELSE said[n]]
      /\ pass' = LetGo
  BY DEF PassWrites
<1>3. ASSUME NEW n \in Ids
      PROVE  /\ n \notin pass.ids => copies'[n] = copies[n] /\ said'[n] = said[n]
             /\ n \in pass.ids => copies'[n] > 0 /\ said'[n] = mem.notes[n].sequence
             /\ copies'[n] \in Nat /\ (copies[n] > 0 => copies'[n] > 0)
             /\ said'[n] \in 0 .. MaxNotices
  <2>1. /\ copies[n] \in Nat /\ mem.notes[n].sequence \in 0 .. MaxNotices
        /\ said[n] \in 0 .. MaxNotices
    BY <1>1 DEF Ledger, Note
  <2> QED BY <1>2, <2>1
<1>4. copies' \in [Ids -> Nat] /\ said' \in [Ids -> 0 .. MaxNotices]
  <2>1. copies' = [n \in Ids |-> copies'[n]] /\ said' = [n \in Ids |-> said'[n]]
    BY <1>2
  <2> QED BY <1>3, <2>1
<1>5. /\ proc' \in [Chats -> [up : BOOLEAN, busy : BOOLEAN, turn : SUBSET Ids]]
      /\ proc'[pass.at].turn = pass.ids
      /\ \A k \in Chats : k # pass.at => proc'[k] = proc[k]
  BY <1>1, <1>2
<1>6. /\ pass' \in PassType /\ PassIsCareful' /\ ClaimIsCounted' /\ ClaimIsNewest'
  <2>1. Changes(mem, mem')
    BY <1>1, LedgerAlone DEF Evolves
  <2>2. \A n \in pass.due : n \in Ids /\ n \notin pass.ids
    BY <1>1 DEF IInv, PassIsCareful, PassType
  <2> QED BY <1>1, <1>2, <1>3, <2>1, <2>2, LetGoIsCareful
<1>7. TypeOK'
  BY <1>1, <1>4, <1>5, <1>6 DEF IInv, TypeOK, PassType
<1>8. ASSUME NEW n \in pass.ids
      PROVE  /\ IsPosted(mem, n) /\ mem.notes[n].tries > 0
             /\ IsPosted(disk, n) /\ disk.notes[n].tries > 0
             /\ disk.notes[n].sequence = mem.notes[n].sequence
             /\ Target(mem.notes[n]) = pass.at
  <2>1. /\ mem.notes[n].tries \in Nat /\ disk.notes[n].tries \in Nat
    BY <1>1, <1>8, InboxAssumption DEF Ledger, Note
  <2> QED BY <1>1, <2>1 DEF IInv, ClaimIsCounted, PassIsCareful, Holding, Serving
<1>9. LedgerInv(mem)' /\ LedgerInv(disk)'
  <2>1. KnowsSent(mem)' /\ KnowsSent(disk)'
    BY <1>1, <1>3, <1>8 DEF IInv, LedgerInv, KnowsSent
  <2> QED BY <1>1, <2>1 DEF IInv, LedgerInv, OnRecord
<1>10. FileBehind'
  BY <1>1 DEF IInv, FileBehind
<1>11. ReceiptsAreReal'
  <2>1. ASSUME NEW k \in Chats
        PROVE  /\ \A n \in record[k] : copies'[n] > 0
               /\ \A r \in readers[k] : \A n \in r.ids :
                    /\ copies'[n] > 0 /\ Target(mem.notes[n]) = k
                    /\ r.step = "kept" => n \in record[k]
    <3>1. /\ record[k] \subseteq Ids
          /\ \A r \in readers[k] : r.ids \subseteq Ids
      BY DEF IInv, TypeOK
    <3> QED BY <1>3, <3>1 DEF IInv, ReceiptsAreReal
  <2>2. ASSUME NEW k \in Chats, NEW n \in proc'[k].turn
        PROVE  copies'[n] > 0 /\ Target(mem.notes[n]) = k
    <3>1. CASE k = pass.at
      BY <1>1, <1>3, <1>5, <1>8, <2>2, <3>1
    <3>2. CASE k # pass.at
      BY <1>1, <1>3, <1>5, <2>2, <3>2 DEF IInv, ReceiptsAreReal
    <3> QED BY <3>1, <3>2
  <2> QED BY <1>1, <2>1, <2>2 DEF ReceiptsAreReal
<1> QED BY <1>6, <1>7, <1>9, <1>10, <1>11 DEF IInv

\* What is claimed is counted, of an open run, and the newest of its attempt.
LEMMA PassClaimsStep ==
  ASSUME IInv, PassClaims
  PROVE  IInv' /\ Evolves
<1> DEFINE batch == {n \in Claimable(mem, pass.ids) : Applies(mem, n)}
<1>1. /\ pass \in PassType /\ pass.step = "claim" /\ pass.at # None
      /\ mem \in Ledger /\ Sound(mem) /\ pass.ids \subseteq Ids
      /\ mem' = Claimed(mem, pass.ids) /\ disk' = mem'
      /\ UNCHANGED <<proc, readers, record, restarts, copies, said>>
      /\ pass' = IF batch = {} THEN LetGo
                 ELSE [pass EXCEPT !.step = "write", !.ids = batch]
  BY DEF PassClaims, Commit, IInv, TypeOK, PassType, PassIsCareful, Serving,
         LedgerInv, Sound
<1>2. /\ Sound(mem') /\ Changes(mem, mem') /\ Counts(mem, mem')
      /\ mem'.open = mem.open
      /\ \A n \in Ids :
           \/ mem'.notes[n] = mem.notes[n] /\ n \notin Claimable(mem, pass.ids)
           \/ /\ n \in Claimable(mem, pass.ids) /\ ~Applies(mem, n)
              /\ mem'.notes[n].state = "Cancelled"
              /\ mem'.notes[n].tries = mem.notes[n].tries
           \/ /\ n \in Claimable(mem, pass.ids) /\ Applies(mem, n)
              /\ mem'.notes[n].state = "Delivering"
              /\ mem'.notes[n].tries = mem.notes[n].tries + 1
              /\ Waits(mem'.notes[n]) /\ ~mem'.notes[n].due
      /\ \A n \in Ids :
           /\ mem'.notes[n].sequence = mem.notes[n].sequence
           /\ mem'.notes[n].attempt = mem.notes[n].attempt
           /\ mem'.notes[n].kind = mem.notes[n].kind
           /\ mem'.notes[n].about = mem.notes[n].about
  BY <1>1, ClaimedChanges
<1>3. Evolves
  BY <1>1, <1>2, SentIsCountedOn DEF Evolves, Sound
<1>4. CASE batch = {}
  <2>1. \A n \in pass.due :
          copies[n] > 0 /\ Waits(mem'.notes[n]) => Waits(mem.notes[n])
    BY <1>1, <1>3, SentStays DEF PassType
  <2> QED BY <1>1, <1>2, <1>3, <1>4, <2>1, LetGoIsCareful, PassStep
<1>5. CASE batch # {}
  <2>1. batch \subseteq pass.ids
    BY DEF Claimable
  <2>2. /\ pass'.step = "write" /\ pass'.ids = batch /\ pass' \in PassType
        /\ pass'.due = pass.due /\ pass'.tried = pass.tried
        /\ pass'.at = pass.at /\ pass'.got = pass.got
    BY <1>1, <1>5, <2>1 DEF PassType, Steps
  <2>3. \A n \in pass.due \cup pass.ids \cup pass.got :
          IsPosted(mem', n) /\ Target(mem'.notes[n]) = Target(mem.notes[n])
    BY <1>1, <1>2, ReaderStays DEF IInv, PassIsCareful, PassType
  <2>4. \A n \in batch : Applies(mem, n) /\ n \in Claimable(mem, pass.ids)
    OBVIOUS
  <2> HIDE DEF batch
  <2>5. PassIsCareful'
    <3>1. \A n \in pass.due :
            copies[n] > 0 /\ Waits(mem'.notes[n]) => Waits(mem.notes[n])
      BY <1>1, <1>3, SentStays DEF PassType
    <3> QED BY <1>1, <2>1, <2>2, <2>3, <3>1 DEF IInv, PassIsCareful, Serving
  <2>6. ClaimIsCounted'
    <3>1. ASSUME NEW n \in batch
          PROVE  /\ IsPosted(mem', n)
                 /\ mem'.notes[n].tries > (IF copies[n] > 0 THEN 1 ELSE 0)
      <4>1. n \in Ids /\ mem.notes[n].tries \in Nat
        BY <1>1, <2>1, InboxAssumption DEF Ledger, Note
      <4>2. copies[n] > 0 => mem.notes[n].tries > 0
        BY <2>4, <4>1 DEF IInv, LedgerInv, KnowsSent, Claimable
      <4>3. mem'.notes[n].tries = mem.notes[n].tries + 1
        BY <1>2, <2>4, <4>1
      <4> QED BY <2>1, <2>3, <4>1, <4>2, <4>3
    <3> QED BY <1>1, <1>5, <2>2, <3>1 DEF ClaimIsCounted
  <2>7. ClaimIsNewest'
    <3>1. mem'.open
      BY <1>2, <1>5, <2>4 DEF Applies, Valid
    <3>2. ASSUME NEW n \in batch, NEW m \in Ids,
                 n # m, copies[m] > 0, mem'.notes[m].state # "Cancelled",
                 Informs(mem'.notes[n]), Informs(mem'.notes[m]),
                 mem'.notes[n].about = mem'.notes[m].about,
                 mem'.notes[n].attempt = mem'.notes[m].attempt
          PROVE  mem'.notes[m].sequence < mem'.notes[n].sequence
      <4>1. /\ n \in Ids /\ IsPosted(mem, n) /\ IsPosted(mem, m)
            /\ mem.notes[n].sequence \in Nat /\ mem.notes[m].sequence \in Nat
        BY <1>1, <1>3, <2>1, <3>2, SentStays, InboxAssumption
           DEF IInv, PassIsCareful, Ledger, Note
      <4>2. /\ Informs(mem.notes[n]) /\ Informs(mem.notes[m])
            /\ mem.notes[n].about = mem.notes[m].about
            /\ mem.notes[n].attempt = mem.notes[m].attempt
        BY <1>2, <3>2, <4>1 DEF Informs
      <4>3. mem.notes[m].state # "Cancelled" /\ ~mem.notes[m].pruned
        BY <1>1, <1>2, <1>3, <3>1, <3>2, SentStays DEF Sound, MayBeTried
      <4>4. ~(mem.notes[m].sequence > mem.notes[n].sequence)
        BY <2>4, <3>2, <4>2, <4>3 DEF Applies, Stale
      <4>5. mem.notes[m].sequence # mem.notes[n].sequence
        BY <1>1, <3>2, <4>1 DEF Sound, Numbered
      <4> QED BY <1>2, <4>1, <4>4, <4>5
    <3> QED BY <1>1, <2>2, <3>1, <3>2 DEF ClaimIsNewest
  <2> QED BY <1>1, <1>3, <2>2, <2>5, <2>6, <2>7, PassStep
<1> QED BY <1>4, <1>5

\* A claim that was not sent is put back, one notice at a time.
LEMMA PassRetriesStep ==
  ASSUME IInv, PassRetries
  PROVE  IInv' /\ Evolves
<1> DEFINE n == Min(pass.ids)
<1>1. /\ pass \in PassType /\ pass.step \in {"later", "failed"}
      /\ pass.at # None /\ pass.ids # {} /\ pass.ids \subseteq Ids
      /\ mem \in Ledger /\ Sound(mem) /\ Ids \subseteq Nat
  BY DEF PassRetries, IInv, TypeOK, PassType, PassIsCareful, Serving,
         ClaimIsCounted, Holding, LedgerInv, Sound, Ids
<1>2. n \in pass.ids
  BY <1>1, MinIsLeast
<1>3. /\ mem' = Retried(mem, n, pass.step) /\ disk' = mem'
      /\ pass' = IF pass.ids = {n} THEN LetGo
                 ELSE [pass EXCEPT !.ids = pass.ids \ {n}]
      /\ UNCHANGED <<proc, readers, record, restarts, copies, said>>
  BY <1>1 DEF PassRetries, Commit, PassType
<1> HIDE DEF n
<1>4. /\ IsPosted(mem, n)
      /\ mem.notes[n].tries > (IF copies[n] > 0 THEN 1 ELSE 0)
      /\ mem.notes[n].tries \in Nat
  <2>1. mem.notes[n].tries \in Nat
    <3>1. n \in Ids /\ mem \in Ledger
      BY <1>1, <1>2
    <3>2. mem.notes[n] \in Note
      BY <3>1 DEF Ledger
    <3> QED BY <3>2, InboxAssumption DEF Note
  <2>2. /\ IsPosted(mem, n)
        /\ mem.notes[n].tries > (IF copies[n] > 0 THEN 1 ELSE 0)
    BY <1>1, <1>2 DEF IInv, ClaimIsCounted, Holding
  <2> QED BY <2>1, <2>2
<1>5. /\ Sound(mem') /\ Changes(mem, mem') /\ (mem'.open = mem.open)
      /\ \A m \in Ids : m # n => mem'.notes[m] = mem.notes[m]
      /\ (mem'.notes[n].state # "Acknowledged" \/ mem'.notes[n] = mem.notes[n])
      /\ mem'.notes[n].tries >=
           mem.notes[n].tries - (IF pass.step = "later" THEN 1 ELSE 0)
  BY <1>1, <1>2, <1>3, <1>4, RetriedChanges
<1>6. Evolves
  <2>1. \A m \in Ids : mem'.notes[m].state = "Acknowledged" =>
          mem.notes[m].state = "Acknowledged"
    BY <1>5
  <2>2. ASSUME NEW m \in Ids, copies[m] > 0, Waits(mem'.notes[m])
        PROVE  mem'.notes[m].tries > 0
    <3>1. CASE m = n
      <4>1. mem'.notes[n].tries \in Nat
        <5>1. n \in Ids /\ mem' \in Ledger
          BY <1>1, <1>2, <1>5 DEF Sound
        <5>2. mem'.notes[n] \in Note
          BY <5>1 DEF Ledger
        <5> QED BY <5>2, InboxAssumption DEF Note
      <4> QED BY <1>4, <1>5, <2>2, <3>1, <4>1
    <3>2. CASE m # n
      BY <1>5, <2>2, <3>2 DEF IInv, LedgerInv, KnowsSent
    <3> QED BY <3>1, <3>2
  <2> QED BY <1>3, <1>5, <2>1, <2>2 DEF Evolves
<1>7. \A m \in pass.due :
        copies[m] > 0 /\ Waits(mem'.notes[m]) => Waits(mem.notes[m])
  BY <1>1, <1>6, SentStays DEF PassType
<1>8. CASE pass.ids = {n}
  BY <1>3, <1>5, <1>6, <1>7, <1>8, LetGoIsCareful, PassStep
<1>9. CASE pass.ids # {n}
  <2>1. /\ pass'.step = pass.step /\ pass'.ids = pass.ids \ {n}
        /\ pass' \in PassType /\ pass'.ids # {}
        /\ pass'.due = pass.due /\ pass'.tried = pass.tried
        /\ pass'.at = pass.at /\ pass'.got = pass.got
    BY <1>1, <1>2, <1>3, <1>9 DEF PassType
  <2>2. \A m \in pass.due \cup pass.ids \cup pass.got :
          IsPosted(mem', m) /\ Target(mem'.notes[m]) = Target(mem.notes[m])
    BY <1>1, <1>5, ReaderStays DEF IInv, PassIsCareful, PassType
  <2>3. PassIsCareful'
    BY <1>1, <1>3, <1>7, <2>1, <2>2 DEF IInv, PassIsCareful, Serving
  <2>4. ClaimIsCounted'
    BY <1>1, <1>3, <1>5, <2>1 DEF IInv, ClaimIsCounted, Holding, IsPosted
  <2>5. ClaimIsNewest'
    BY <1>1, <2>1 DEF ClaimIsNewest
  <2> QED BY <1>3, <1>6, <2>1, <2>3, <2>4, <2>5, PassStep
<1> QED BY <1>8, <1>9


---------------------------------------------------------------------------
(* The host dies and comes back *)

\* What the host finds after a crash is the file and the records: of what was
\* sent, the file knew, and of what was received, one of them does.
LEMMA RestartStep ==
  ASSUME IInv, Restart
  PROVE  IInv'
<1>1. /\ disk \in Ledger /\ Sound(disk) /\ KnowsSent(disk) /\ OnRecord(disk)
      /\ disk.sequence + Cardinality(Workers) <= MaxNotices
  BY DEF Restart, IInv, TypeOK, LedgerInv, Sound
<1>2. PICK order \in Bijection(1 .. Cardinality(Cut(disk)), Cut(disk)) :
        mem' = Recovered(disk, order) /\ disk' = mem'
  BY DEF Restart, Commit
<1>3. Posts(disk, mem')
  BY <1>1, <1>2, RecoveredPosts
<1>4. /\ proc' = [k \in Chats |-> [up |-> FALSE, busy |-> FALSE, turn |-> {}]]
      /\ readers' = [k \in Chats |-> {}]
      /\ pass' = Off
      /\ restarts' = restarts + 1 /\ restarts < MaxRestarts
      /\ UNCHANGED <<record, copies, said>>
  BY DEF Restart
<1>5. pass' \in PassType /\ PassIsCareful' /\ ClaimIsCounted' /\ ClaimIsNewest'
  BY <1>4, OffIsCareful
<1>6. TypeOK'
  <2>1. restarts' \in 0 .. MaxRestarts
    BY <1>4, InboxAssumption DEF IInv, TypeOK
  <2>2. mem' \in Ledger /\ disk' \in Ledger
    BY <1>2, <1>3 DEF Posts, Sound
  <2> QED BY <1>4, <1>5, <2>1, <2>2 DEF IInv, TypeOK, PassType
<1>7. KnowsSent(mem)'
  <2> SUFFICES ASSUME NEW n \in Ids, copies[n] > 0
               PROVE  /\ IsPosted(mem', n) /\ said[n] = mem'.notes[n].sequence
                      /\ Waits(mem'.notes[n]) => mem'.notes[n].tries > 0
    BY <1>4 DEF KnowsSent
  <2>1. /\ IsPosted(disk, n) /\ said[n] = disk.notes[n].sequence
        /\ Waits(disk.notes[n]) => disk.notes[n].tries > 0
    BY <1>1 DEF KnowsSent
  <2>2. /\ disk.notes[n].tries \in Nat /\ mem'.notes[n].tries \in Nat
    BY <1>1, <1>3, InboxAssumption DEF Posts, Sound, Ledger, Note
  <2>3. Moves(disk.notes[n], mem'.notes[n]) /\ mem'.notes[n].tries >= disk.notes[n].tries
    BY <1>3, <2>1 DEF Posts, Changes, Counts
  <2> QED BY <2>1, <2>2, <2>3 DEF Moves, IsPosted
<1>8. OnRecord(mem)'
  <2> SUFFICES ASSUME NEW n \in Ids, mem'.notes[n].state = "Acknowledged",
                      Target(mem'.notes[n]) = Coordinator
               PROVE  n \in record[Coordinator]
    BY <1>4 DEF OnRecord
  <2>1. disk.notes[n].state = "Acknowledged"
    BY <1>3 DEF Posts
  <2>2. IsPosted(disk, n)
    BY <1>1, <2>1 DEF Sound, Numbered
  <2>3. Target(disk.notes[n]) = Coordinator
    BY <1>3, <2>2, ReaderStays DEF Posts
  <2> QED BY <1>1, <2>1, <2>3 DEF OnRecord
<1>9. LedgerInv(mem)' /\ LedgerInv(disk)'
  BY <1>2, <1>3, <1>7, <1>8 DEF Posts, Sound, LedgerInv, KnowsSent, OnRecord
<1>10. FileBehind'
  BY <1>2 DEF FileBehind
<1>11. ReceiptsAreReal'
  BY <1>4 DEF IInv, ReceiptsAreReal
<1> QED BY <1>5, <1>6, <1>9, <1>10, <1>11 DEF IInv

---------------------------------------------------------------------------
(* The invariant *)

LEMMA InitIsSound ==
  ASSUME Init
  PROVE  IInv
<1>1. /\ mem = [open |-> TRUE, sequence |-> 0,
                attempt |-> [w \in Workers |->
                  [n |-> 0, gate |-> 0, status |-> "none"]],
                notes |-> [n \in Ids |->
                  [kind |-> "none", about |-> None, attempt |-> 0,
                   state |-> "Cancelled", tries |-> 0, due |-> FALSE,
                   sequence |-> 0, pruned |-> FALSE]]]
      /\ disk = mem
  BY DEF Init
<1>2. /\ proc = [k \in Chats |-> [up |-> FALSE, busy |-> FALSE, turn |-> {}]]
      /\ readers = [k \in Chats |-> {}] /\ record = [k \in Chats |-> {}]
      /\ pass = Off /\ restarts = 0
      /\ copies = [n \in Ids |-> 0] /\ said = [n \in Ids |-> 0]
  BY DEF Init
<1>3. /\ 0 \in 0 .. MaxNotices /\ 0 \in 0 .. MaxAttempts /\ 0 \in 0 .. MaxTries
      /\ 0 \in 0 .. MaxRestarts
  BY InboxAssumption
<1>4. mem \in Ledger
  BY <1>1, <1>3 DEF Ledger, Note, Attempt, States
<1>5. TypeOK
  BY <1>1, <1>2, <1>3, <1>4 DEF TypeOK, Off, Steps
<1>6. \A n \in Ids : /\ ~IsPosted(mem, n) /\ mem.notes[n].state = "Cancelled"
                     /\ ~mem.notes[n].pruned /\ copies[n] = 0
  BY <1>1, <1>2 DEF IsPosted
<1>7. LedgerInv(mem)
  BY <1>4, <1>6 DEF LedgerInv, Numbered, MayBeTried, KnowsSent, OnRecord, Waits
<1>8. LedgerInv(disk)
  BY <1>1, <1>7
<1>9. FileBehind /\ ReceiptsAreReal
  BY <1>1, <1>2, <1>6 DEF FileBehind, ReceiptsAreReal
<1>10. PassIsCareful /\ ClaimIsCounted /\ ClaimIsNewest
  BY <1>2 DEF PassIsCareful, ClaimIsCounted, ClaimIsNewest, Off, Serving, Holding
<1> QED BY <1>5, <1>7, <1>8, <1>9, <1>10 DEF IInv

LEMMA PassKeeps ==
  ASSUME IInv, Pass
  PROVE  IInv'
<1>1. PassAcksNothing \/ PassCannotSave => PassAborts
  BY DEF PassAcksNothing, PassCannotSave
<1> QED BY <1>1, PassBeginsStep, PassReadsStep, PassAcksStep, PassClaimsStep,
           PassSkipsStep, PassWritesStep, PassFindsBusyStep, PassFailsStep,
           PassRetriesStep, PassAbortsStep
        DEF Pass

LEMMA ReaderKeeps ==
  ASSUME IInv, NEW k \in Chats, Reader(k)
  PROVE  IInv'
BY ReadReceiptStep, ReadLateStep, OutputEndsStep, KeepReceiptStep,
   AckReceiptStep
DEF Reader

LEMMA NextKeeps ==
  ASSUME IInv, [Next]_vars
  PROVE  IInv'
<1>1. CASE UNCHANGED vars
  BY <1>1, NothingPosted, LedgerStep DEF vars
<1>2. ASSUME NEW w \in Workers,
             \/ Start(w) \/ Report(w) \/ Confirm(w) \/ AskGate(w) \/ Resolve(w)
             \/ TakeForWorker(w)
             \/ \E kind \in Kinds : Tell(w, kind) \/ Fail(w, kind)
             \/ \E interrupting \in BOOLEAN : Instruct(w, interrupting)
      PROVE  IInv'
  BY <1>2, StartStep, ReportStep, AskGateStep, ResolveStep, TakeForWorkerStep,
     TellStep, FailStep, InstructStep
<1>3. ASSUME NEW k \in Chats,
             Reader(k) \/ TurnEnds(k) \/ PersonTurn(k) \/ ProcessEnds(k)
      PROVE  IInv'
  BY <1>3, ReaderKeeps, TurnEndsStep, PersonTurnStep, ProcessEndsStep
<1>4. ASSUME NEW n \in Ids, Lapse(n)
      PROVE  IInv'
  BY <1>4, LapseStep
<1>5. CASE StopRun \/ Pass \/ Settle \/ Restart
  BY <1>5, StopRunStep, PassKeeps, SettleStep, RestartStep
<1> QED BY <1>1, <1>2, <1>3, <1>4, <1>5 DEF Next

\* The invariant of the inbox: in memory and in the file alike, what was sent
\* is known, counted and worded as it was sent; the file lacks no receipt; the
\* pass holds only what it counted and what no newer update overtook.
THEOREM Invariance == Spec => []IInv
<1>1. Init => IInv
  BY InitIsSound
<1>2. IInv /\ [Next]_vars => IInv'
  BY NextKeeps
<1> QED BY <1>1, <1>2, PTL DEF Spec


---------------------------------------------------------------------------
(* The properties the runs check *)

\* Every state of the inbox is of its type (Inbox.TypeOK).
THEOREM TypeCorrect == Spec => []TypeOK
<1>1. IInv => TypeOK
  BY DEF IInv
<1> QED BY <1>1, Invariance, PTL

\* A notice of which a copy went out and that still waits counts a try, so
\* that the record is searched for its receipt (deliver_pending's
\* candidate.attempts > 0).
THEOREM SentAreCounted == Spec => []SentIsCounted
<1>1. IInv => SentIsCounted
  BY DEF IInv, LedgerInv, KnowsSent, SentIsCounted
<1> QED BY <1>1, Invariance, PTL

\* The ledger says that the coordinator received a notice only if its record
\* says so too (acknowledge_user_turn, then acknowledge_notifications).
THEOREM ReceiptsAreRecorded == Spec => []ReceiptIsRecorded
<1>1. IInv => ReceiptIsRecorded
  BY DEF IInv, LedgerInv, OnRecord, ReceiptIsRecorded
<1> QED BY <1>1, Invariance, PTL

\* The words that are said to be received are the words of the last copy:
\* enqueue folds nothing into a notice that was claimed.
THEOREM WordsAreAsSent == Spec => []ReceivedAsSent
<1>1. IInv => ReceivedAsSent
  <2> SUFFICES ASSUME IInv, NEW n \in Ids, mem.notes[n].state = "Acknowledged",
                      Target(mem.notes[n]) = Coordinator
               PROVE  said[n] = mem.notes[n].sequence
    BY DEF ReceivedAsSent
  <2>1. n \in record[Coordinator]
    BY DEF IInv, LedgerInv, OnRecord
  <2>2. copies[n] > 0
    BY <2>1 DEF IInv, ReceiptsAreReal, Chats
  <2> QED BY <2>2 DEF IInv, LedgerInv, KnowsSent
<1> QED BY <1>1, Invariance, PTL

\* Nothing but the turn of the pass writes a copy.
LEMMA OnlyWritesCopy ==
  ASSUME [Next]_vars, copies' # copies
  PROVE  PassWrites
<1>1. ~UNCHANGED vars
  BY DEF vars
<1>2. ASSUME NEW w \in Workers,
             \/ Start(w) \/ Report(w) \/ Confirm(w) \/ AskGate(w) \/ Resolve(w)
             \/ TakeForWorker(w)
             \/ \E kind \in Kinds : Tell(w, kind) \/ Fail(w, kind)
             \/ \E interrupting \in BOOLEAN : Instruct(w, interrupting)
      PROVE  FALSE
  BY <1>2 DEF Start, Report, Confirm, AskGate, Resolve, TakeForWorker, Tell, Fail,
              Instruct
<1>3. ASSUME NEW k \in Chats,
             Reader(k) \/ TurnEnds(k) \/ PersonTurn(k) \/ ProcessEnds(k)
      PROVE  FALSE
  BY <1>3 DEF Reader, ReadReceipt, ReadLate, OutputEnds, KeepReceipt, AckReceipt,
              TurnEnds, PersonTurn, ProcessEnds
<1>4. ASSUME NEW n \in Ids, Lapse(n)
      PROVE  FALSE
  BY <1>4 DEF Lapse
<1>5. ~(StopRun \/ Settle \/ Restart)
  BY DEF StopRun, Settle, Restart
<1>6. Pass => PassWrites
  BY DEF Pass, PassBegins, PassReads, PassAcks, PassAcksNothing, PassClaims,
         PassSkips, PassFindsBusy, PassFails, PassRetries, PassCannotSave, PassAborts
<1> QED BY <1>1, <1>2, <1>3, <1>4, <1>5, <1>6 DEF Next

LEMMA WrittenIsClaimed ==
  ASSUME IInv, [Next]_vars, NEW n \in Ids, copies'[n] # copies[n]
  PROVE  pass.step = "write" /\ n \in pass.ids
<1>1. PassWrites
  BY OnlyWritesCopy
<1>2. copies \in [Ids -> Nat]
  BY DEF IInv, TypeOK
<1> QED BY <1>1, <1>2 DEF PassWrites

\* Nothing is written to an agent of a stopped run, also not by the delivery
\* that was under way when the Stop came (stop_run and deliver_pending share
\* workspace_ops).
THEOREM StoppedRunIsSilent == Spec => NothingSentAfterStop
<1>1. IInv /\ [Next]_vars => (\A n \in Ids : copies'[n] # copies[n] => mem.open)
  BY WrittenIsClaimed DEF IInv, ClaimIsNewest
<1> QED BY <1>1, Invariance, PTL DEF Spec, NothingSentAfterStop

\* No older update of an attempt is written to the coordinator after a newer
\* one it is known to have received (stale_reason).
THEOREM StatusGoesForward == Spec => StatusNeverGoesBack
<1>1. ASSUME IInv, [Next]_vars, NEW n \in Ids, NEW m \in Ids,
             n # m, copies'[n] # copies[n],
             Informs(mem.notes[n]), Informs(mem.notes[m]),
             mem.notes[n].about = mem.notes[m].about,
             mem.notes[n].attempt = mem.notes[m].attempt,
             mem.notes[m].state = "Acknowledged"
      PROVE  mem.notes[m].sequence < mem.notes[n].sequence
  <2>1. pass.step = "write" /\ n \in pass.ids
    BY <1>1, WrittenIsClaimed
  <2>2. Target(mem.notes[m]) = Coordinator
    BY <1>1 DEF Informs, Target
  <2>3. copies[m] > 0
    BY <1>1, <2>2 DEF IInv, LedgerInv, OnRecord, ReceiptsAreReal, Chats
  <2> QED BY <1>1, <2>1, <2>3 DEF IInv, ClaimIsNewest
<1>2. IInv /\ [Next]_vars =>
        \A n, m \in Ids :
          /\ n # m /\ copies'[n] # copies[n]
          /\ Informs(mem.notes[n]) /\ Informs(mem.notes[m])
          /\ mem.notes[n].about = mem.notes[m].about
          /\ mem.notes[n].attempt = mem.notes[m].attempt
          /\ mem.notes[m].state = "Acknowledged"
          => mem.notes[m].sequence < mem.notes[n].sequence
  BY <1>1
<1> QED BY <1>2, Invariance, PTL DEF Spec, StatusNeverGoesBack


---------------------------------------------------------------------------
(* The inbox implements Channel *)

\* What is on record was sent, so it was posted, in memory and in the file.
LEMMA OnRecordIsSent ==
  ASSUME IInv, NEW k \in Chats, NEW n \in record[k]
  PROVE  n \in Ids /\ copies[n] > 0 /\ IsPosted(mem, n) /\ IsPosted(disk, n)
BY DEF IInv, TypeOK, ReceiptsAreReal, LedgerInv, KnowsSent

\* In memory and in the file a notice is of one chat.
LEMMA FileHasReader ==
  ASSUME IInv, NEW n \in Ids, IsPosted(disk, n)
  PROVE  /\ IsPosted(mem, n) /\ Target(disk.notes[n]) = Target(mem.notes[n])
         /\ Target(disk.notes[n]) \in Chats
BY ReaderIsAChat DEF IInv, LedgerInv, FileBehind, IsPosted, Target

\* The status of a posted notice, by its state and its reader's record.
LEMMA StatusOfPosted ==
  ASSUME NEW l, NEW n \in Ids, IsPosted(l, n)
  PROVE  Status(l, n) =
           IF l.notes[n].state = "Acknowledged" \/ n \in record[Target(l.notes[n])]
           THEN "received"
           ELSE IF l.notes[n].state = "Cancelled" THEN "withdrawn" ELSE "open"
BY DEF Status, IsPosted

\* A step of the host, as one notice sees it.
LEMMA StatusMoves ==
  ASSUME IInv, Evolves, RecordKept, ReceiptsAreReal', UNCHANGED copies,
         record' \in [Chats -> SUBSET Ids], NEW n \in Ids
  PROVE  LET old == Status(mem, n)
             new == Status(mem, n)'
         IN  \/ new = old
             \/ old = "unposted" /\ new = "open"
             \/ old = "open" /\ new \in {"withdrawn", "received"}
             \/ old = "withdrawn" /\ copies[n] > 0 /\ new = "received"
<1>1. /\ Moves(mem.notes[n], mem'.notes[n]) /\ Changes(mem, mem')
      /\ Numbered(mem) /\ Numbered(mem')
      /\ mem.notes[n].state \in States /\ mem'.notes[n].state \in States
  BY DEF Evolves, Changes, Sound, IInv, LedgerInv, Ledger, Note
<1>2. ASSUME NEW k \in Chats, n \in record'[k]
      PROVE  copies[n] > 0 /\ IsPosted(mem, n)
  BY <1>2 DEF ReceiptsAreReal, IInv, LedgerInv, KnowsSent
<1>3. CASE ~IsPosted(mem, n)
  <2>1. CASE ~IsPosted(mem', n)
    BY <1>3, <2>1 DEF Status, IsPosted
  <2>2. CASE IsPosted(mem', n)
    <3>1. Target(mem'.notes[n]) \in Chats
      BY <1>1, <2>2, ReaderIsAChat
    <3>2. mem'.notes[n].state = "Pending" /\ n \notin record'[Target(mem'.notes[n])]
      BY <1>1, <1>2, <1>3, <2>2, <3>1 DEF Moves, IsPosted
    <3> QED BY <1>3, <2>2, <3>2 DEF Status, IsPosted
  <2> QED BY <2>1, <2>2
<1>4. CASE IsPosted(mem, n)
  <2>1. /\ IsPosted(mem', n) /\ Target(mem'.notes[n]) = Target(mem.notes[n])
        /\ Target(mem.notes[n]) \in Chats
    BY <1>1, <1>4, ReaderStays, ReaderIsAChat
  <2>2. n \in record[Target(mem.notes[n])] => n \in record'[Target(mem.notes[n])]
    BY <2>1 DEF RecordKept
  <2>3. n \in record'[Target(mem.notes[n])] => copies[n] > 0
    BY <1>2, <2>1
  <2>4. /\ mem.notes[n].state = "Acknowledged" => mem'.notes[n].state = "Acknowledged"
        /\ mem.notes[n].state = "Cancelled" => mem'.notes[n].state = "Cancelled"
    BY <1>1, <1>4 DEF Moves, IsPosted
  <2>5. Status(mem, n) =
          IF mem.notes[n].state = "Acknowledged" \/ n \in record[Target(mem.notes[n])]
          THEN "received"
          ELSE IF mem.notes[n].state = "Cancelled" THEN "withdrawn" ELSE "open"
    BY <1>4 DEF Status, IsPosted
  <2>6. Status(mem, n)' =
          IF mem'.notes[n].state = "Acknowledged" \/ n \in record'[Target(mem.notes[n])]
          THEN "received"
          ELSE IF mem'.notes[n].state = "Cancelled" THEN "withdrawn" ELSE "open"
    BY <2>1 DEF Status, IsPosted
  <2> QED BY <2>2, <2>3, <2>4, <2>5, <2>6
<1> QED BY <1>3, <1>4

\* What a crash would leave of it is as it was, or as it has become.
LEMMA DurableMoves ==
  ASSUME IInv, Evolves, RecordKept, ReceiptsAreReal', UNCHANGED copies,
         record' \in [Chats -> SUBSET Ids], NEW n \in Ids
  PROVE  Status(disk, n)' \in {Status(disk, n), Status(mem, n)'}
<1>1. disk' \in {disk, mem'}
  BY DEF Evolves
<1>2. CASE disk' = mem'
  BY <1>2 DEF Status
<1>3. CASE disk' = disk /\ ~IsPosted(disk, n)
  BY <1>3 DEF Status, IsPosted
<1>4. CASE disk' = disk /\ IsPosted(disk, n)
  <2>1. /\ IsPosted(mem, n) /\ Target(disk.notes[n]) = Target(mem.notes[n])
        /\ Target(disk.notes[n]) \in Chats
    BY <1>4, FileHasReader
  <2>2. IsPosted(mem', n) /\ Target(mem'.notes[n]) = Target(mem.notes[n])
    BY <2>1, ReaderStays DEF Evolves
  <2>3. CASE n \in record'[Target(disk.notes[n])]
    BY <1>4, <2>1, <2>2, <2>3 DEF Status, IsPosted
  <2>4. CASE n \notin record'[Target(disk.notes[n])]
    <3>1. n \notin record[Target(disk.notes[n])]
      BY <2>1, <2>4 DEF RecordKept
    <3> QED BY <1>4, <2>4, <3>1 DEF Status
  <2> QED BY <2>3, <2>4
<1> QED BY <1>1, <1>2, <1>3, <1>4

LEMMA ChangeRefines ==
  ASSUME IInv, Evolves, RecordKept, ReceiptsAreReal', UNCHANGED copies,
         record' \in [Chats -> SUBSET Ids], Offered' \subseteq Offered
  PROVE  Channel!Change
<1>1. ASSUME NEW n \in Ids
      PROVE  Channel!Moves(n)
  BY StatusMoves DEF Channel!Moves
<1> QED BY <1>1, DurableMoves DEF Channel!Change


\* The notices a pass holds do not wait again once they no longer do.
LEMMA WaitsLess ==
  ASSUME IInv, Evolves, NEW n \in pass.ids, Waits(mem'.notes[n])
  PROVE  Waits(mem.notes[n])
<1>1. n \in Ids /\ IsPosted(mem, n)
  BY DEF IInv, TypeOK, PassIsCareful
<1> QED BY <1>1 DEF Evolves, Changes, Moves, IsPosted

\* What is set out to be sent grows only when a chat's notices are read.
LEMMA OfferedShrinks ==
  ASSUME IInv, Evolves,
         \/ pass' = pass
         \/ pass' = Off \/ pass' = LetGo
         \/ /\ pass.step = "receipts" /\ pass'.step = "claim"
            /\ pass'.ids = pass.ids
         \/ pass'.step \in {"next", "later", "failed"}
         \/ /\ pass.step = "claim" /\ pass'.step = "write"
            /\ pass'.ids \subseteq {n \in pass.ids : Waits(mem.notes[n])}
  PROVE  Offered' \subseteq Offered
<1>1. CASE pass' = pass
  BY <1>1, WaitsLess DEF Offered
<1>2. CASE pass' = Off \/ pass' = LetGo
  <2>1. pass \in PassType
    BY DEF IInv, TypeOK, PassType
  <2>2. Off.step = "off" /\ LetGo.step \in {"off", "next"}
    BY <2>1 DEF Off, LetGo, PassType
  <2>3. pass'.step \in {"off", "next"}
    BY <1>2, <2>2
  <2> QED BY <2>3 DEF Offered
<1>3. CASE pass.step = "receipts" /\ pass'.step = "claim" /\ pass'.ids = pass.ids
  BY <1>3, WaitsLess DEF Offered
<1>4. CASE pass'.step \in {"next", "later", "failed"}
  BY <1>4 DEF Offered
<1>5. CASE /\ pass.step = "claim" /\ pass'.step = "write"
           /\ pass'.ids \subseteq {n \in pass.ids : Waits(mem.notes[n])}
  BY <1>5 DEF Offered
<1> QED BY <1>1, <1>2, <1>3, <1>4, <1>5

\* The pass reads a chat's record, and sets out to send what is open.
LEMMA ReadsAreOffers ==
  ASSUME IInv, NEW k \in Chats, PassReads(k)
  PROVE  Channel!Offer
<1> DEFINE mine == {n \in pass.due : Target(mem.notes[n]) = k}
           got  == Received(k) \cap mine
<1>1. /\ pass \in PassType /\ pass.step = "next"
      /\ UNCHANGED <<mem, disk, record, copies>>
  BY DEF PassReads, IInv, TypeOK, PassType
<1>2. pass'.step \in {"claim", "receipts"} /\ pass'.ids = mine \ got
  BY <1>1 DEF PassReads, PassType, Steps
<1>3. ASSUME NEW n \in mine, n \notin got, Waits(mem.notes[n])
      PROVE  n \in Ids /\ Status(mem, n) = "open"
  <2>1. /\ n \in Ids /\ n \in pass.due /\ IsPosted(mem, n)
        /\ Target(mem.notes[n]) = k
        /\ copies[n] > 0 => n \in pass.tried
    BY <1>1, <1>3 DEF IInv, PassIsCareful, PassType
  <2>2. n \notin record[k]
    BY <1>3, <2>1, OnRecordIsSent DEF Received
  <2>3. mem.notes[n].state \in {"Pending", "Delivering"}
    BY <1>3 DEF Waits
  <2> QED BY <2>1, <2>2, <2>3 DEF Status, IsPosted
<1> HIDE DEF mine, got
<1>4. Offered' = {n \in mine \ got : Waits(mem.notes[n])}
  BY <1>1, <1>2 DEF Offered
<1>5. /\ [n \in Ids |-> Status(mem, n)]' = [n \in Ids |-> Status(mem, n)]
      /\ [n \in Ids |-> Status(disk, n)]' = [n \in Ids |-> Status(disk, n)]
  BY <1>1 DEF Status
<1> QED BY <1>1, <1>3, <1>4, <1>5 DEF Channel!Offer

\* The turn is a copy of what was offered, and saved.
LEMMA WritesAreSends ==
  ASSUME IInv, PassWrites
  PROVE  Channel!Send
<1>1. /\ pass \in PassType /\ pass.step = "write" /\ pass' = LetGo
      /\ UNCHANGED <<mem, disk, record>>
      /\ copies' = [n \in Ids |-> copies[n] + IF n \in pass.ids THEN 1 ELSE 0]
      /\ copies \in [Ids -> Nat]
  BY DEF PassWrites, IInv, TypeOK, PassType
<1>2. Offered = pass.ids
  BY <1>1 DEF Offered
<1>3. Offered' \subseteq Offered
  <2>1. pass'.step \in {"off", "next"}
    BY <1>1 DEF Off, LetGo, PassType
  <2> QED BY <2>1 DEF Offered
<1>4. ASSUME NEW n \in Ids, copies'[n] # copies[n]
      PROVE  /\ n \in pass.ids /\ copies'[n] = copies[n] + 1
             /\ Status(disk, n) # "unposted"
  <2>1. n \in pass.ids /\ copies'[n] = copies[n] + 1
    BY <1>1, <1>4
  <2>2. IsPosted(disk, n)
    BY <1>1, <2>1 DEF IInv, ClaimIsCounted, Holding
  <2> QED BY <2>1, <2>2 DEF Status, IsPosted
<1>5. /\ [n \in Ids |-> Status(mem, n)]' = [n \in Ids |-> Status(mem, n)]
      /\ [n \in Ids |-> Status(disk, n)]' = [n \in Ids |-> Status(disk, n)]
  BY <1>1 DEF Status
<1> QED BY <1>2, <1>3, <1>4, <1>5 DEF Channel!Send

\* A restart is a crash: no receipt is lost.
LEMMA RestartIsACrash ==
  ASSUME IInv, Restart
  PROVE  Channel!Crash
<1>1. /\ Sound(disk) /\ Numbered(mem) /\ FileBehind
      /\ disk.sequence + Cardinality(Workers) <= MaxNotices
      /\ \A n \in Ids : disk.notes[n].state \in States
  BY DEF Restart, IInv, LedgerInv, Sound, Ledger, Note
<1>2. PICK order \in Bijection(1 .. Cardinality(Cut(disk)), Cut(disk)) :
        mem' = Recovered(disk, order) /\ disk' = mem'
  BY DEF Restart, Commit
<1>3. /\ Posts(disk, mem')
      /\ \A n \in Ids :
           \/ mem'.notes[n].state = disk.notes[n].state
           \/ mem'.notes[n].state = "Cancelled"
           \/ ~IsPosted(disk, n)
  BY <1>1, <1>2, RecoveredPosts
<1>4. pass' = Off /\ UNCHANGED <<record, copies>>
  BY DEF Restart
<1>5. ASSUME NEW n \in Ids
      PROVE  IF Status(mem, n) = "received" THEN Status(mem, n)' = "received"
             ELSE \/ Status(mem, n)' = Status(disk, n)
                  \/ Status(disk, n) = "unposted" /\ Status(mem, n)' = "open"
                  \/ Status(disk, n) = "open" /\ Status(mem, n)' = "withdrawn"
  <2>1. CASE ~IsPosted(disk, n)
    <3>1. Status(disk, n) = "unposted"
      BY <2>1 DEF Status, IsPosted
    <3>2. \A k \in Chats : n \notin record[k]
      BY <2>1, OnRecordIsSent
    <3>3. disk.notes[n].state # "Acknowledged"
      BY <1>1, <2>1 DEF Sound, Numbered
    <3>4. Status(mem, n) # "received"
      <4>1. CASE IsPosted(mem, n)
        <5>1. Target(mem.notes[n]) \in Chats
          BY <1>1, <4>1, ReaderIsAChat
        <5> QED BY <1>1, <3>2, <3>3, <4>1, <5>1 DEF Status, FileBehind
      <4>2. CASE ~IsPosted(mem, n)
        BY <4>2 DEF Status, IsPosted
      <4> QED BY <4>1, <4>2
    <3>5. CASE IsPosted(mem', n)
      <4>1. Target(mem'.notes[n]) \in Chats
        BY <1>3, <3>5, ReaderIsAChat DEF Posts, Sound
      <4>2. mem'.notes[n].state = "Pending"
        BY <1>3, <2>1, <3>5 DEF Posts, Changes, Moves, IsPosted
      <4>3. Status(mem, n)' = "open"
        BY <1>4, <3>2, <3>5, <4>1, <4>2 DEF Status, IsPosted
      <4> QED BY <3>1, <3>4, <4>3
    <3>6. CASE ~IsPosted(mem', n)
      <4>1. Status(mem, n)' = "unposted"
        BY <3>6 DEF Status, IsPosted
      <4> QED BY <3>1, <3>4, <4>1
    <3> QED BY <3>5, <3>6
  <2>2. CASE IsPosted(disk, n)
    <3>1. /\ IsPosted(mem, n) /\ Target(disk.notes[n]) = Target(mem.notes[n])
          /\ Target(disk.notes[n]) \in Chats
      BY <2>2, FileHasReader
    <3>2. /\ IsPosted(mem', n) /\ Target(mem'.notes[n]) = Target(disk.notes[n])
      BY <1>3, <2>2, ReaderStays DEF Posts
    <3> DEFINE read == n \in record[Target(disk.notes[n])]
    <3>3. Status(mem, n) =
            IF mem.notes[n].state = "Acknowledged" \/ read THEN "received"
            ELSE IF mem.notes[n].state = "Cancelled" THEN "withdrawn" ELSE "open"
      BY <3>1 DEF Status, IsPosted
    <3>4. Status(disk, n) =
            IF disk.notes[n].state = "Acknowledged" \/ read THEN "received"
            ELSE IF disk.notes[n].state = "Cancelled" THEN "withdrawn" ELSE "open"
      BY <2>2 DEF Status, IsPosted
    <3>5. Status(mem, n)' =
            IF mem'.notes[n].state = "Acknowledged" \/ read THEN "received"
            ELSE IF mem'.notes[n].state = "Cancelled" THEN "withdrawn" ELSE "open"
      BY <1>4, <3>2 DEF Status, IsPosted
    <3>6. mem.notes[n].state = "Acknowledged" =>
            read \/ disk.notes[n].state = "Acknowledged"
      BY <1>1, <3>1 DEF FileBehind
    <3>7. /\ disk.notes[n].state = "Acknowledged" => mem'.notes[n].state = "Acknowledged"
          /\ disk.notes[n].state = "Cancelled" => mem'.notes[n].state = "Cancelled"
          /\ \/ mem'.notes[n].state = disk.notes[n].state
             \/ mem'.notes[n].state = "Cancelled"
      BY <1>3, <2>2 DEF Posts, Changes, Moves, IsPosted
    <3> HIDE DEF read
    <3> QED BY <3>3, <3>4, <3>5, <3>6, <3>7
  <2> QED BY <2>1, <2>2
<1>6. Offered' = {}
  BY <1>4 DEF Offered, Off
<1>7. [n \in Ids |-> Status(disk, n)]' = [n \in Ids |-> Status(mem, n)]'
  BY <1>2 DEF Status
<1> QED BY <1>4, <1>5, <1>6, <1>7 DEF Channel!Crash


\* Each action of the inbox is a step of Channel, or none.
LEMMA HostStepsAreChanges ==
  ASSUME IInv, IInv', Evolves, RecordKept, UNCHANGED <<copies, pass>>
  PROVE  Channel!Change
<1>1. record' \in [Chats -> SUBSET Ids] /\ ReceiptsAreReal'
  BY DEF IInv, TypeOK
<1>2. Offered' \subseteq Offered
  BY OfferedShrinks
<1> QED BY <1>1, <1>2, ChangeRefines

LEMMA PassStepsAreChanges ==
  ASSUME IInv, IInv', Evolves, UNCHANGED <<record, copies>>,
         Offered' \subseteq Offered
  PROVE  Channel!Change
<1>1. record' \in [Chats -> SUBSET Ids] /\ ReceiptsAreReal' /\ RecordKept
  BY DEF IInv, TypeOK, RecordKept
<1> QED BY <1>1, ChangeRefines


LEMMA WorkerStepsAreChanges ==
  ASSUME IInv, IInv', NEW w \in Workers,
         \/ Start(w) \/ Report(w) \/ Confirm(w) \/ AskGate(w) \/ Resolve(w)
         \/ TakeForWorker(w)
         \/ \E kind \in Kinds : Tell(w, kind) \/ Fail(w, kind)
         \/ \E interrupting \in BOOLEAN : Instruct(w, interrupting)
  PROVE  Channel!Change
<1>1. Evolves
  BY StartStep, ReportStep, AskGateStep, ResolveStep, TakeForWorkerStep,
     TellStep, FailStep, InstructStep
<1>2. UNCHANGED <<record, pass, copies>>
  BY DEF Start, Report, Confirm, AskGate, Resolve, TakeForWorker, Tell, Fail,
         Instruct
<1> QED BY <1>1, <1>2, HostStepsAreChanges DEF RecordKept

LEMMA ProcessStepsAreChanges ==
  ASSUME IInv, IInv', NEW k \in Chats,
         Reader(k) \/ TurnEnds(k) \/ PersonTurn(k) \/ ProcessEnds(k)
  PROVE  Channel!Change
<1>1. Evolves
  BY ReadReceiptStep, ReadLateStep, OutputEndsStep, KeepReceiptStep,
     AckReceiptStep, TurnEndsStep, PersonTurnStep, ProcessEndsStep
  DEF Reader
<1>2. UNCHANGED <<pass, copies>>
  BY DEF Reader, ReadReceipt, ReadLate, OutputEnds, KeepReceipt, AckReceipt,
         TurnEnds, PersonTurn, ProcessEnds
<1>3. UNCHANGED record \/ \E r \in readers[k] : KeepReceipt(k, r)
  BY DEF Reader, ReadReceipt, ReadLate, OutputEnds, AckReceipt, TurnEnds,
         PersonTurn, ProcessEnds
<1>4. RecordKept
  <2>1. record \in [Chats -> SUBSET Ids]
    BY DEF IInv, TypeOK
  <2>2. ASSUME NEW r \in readers[k], KeepReceipt(k, r)
        PROVE  RecordKept
    BY <2>1, <2>2 DEF KeepReceipt, RecordKept
  <2> QED BY <1>3, <2>2 DEF RecordKept
<1> QED BY <1>1, <1>2, <1>4, HostStepsAreChanges

LEMMA PassStepsRefine ==
  ASSUME IInv, IInv', Pass
  PROVE  Channel!Next
<1>1. ASSUME NEW k \in Chats, PassReads(k)
      PROVE  Channel!Next
  BY <1>1, ReadsAreOffers DEF Channel!Next
<1>2. CASE PassWrites
  BY <1>2, WritesAreSends DEF Channel!Next
<1>3. CASE PassClaims
  <2> DEFINE batch == {n \in Claimable(mem, pass.ids) : Applies(mem, n)}
  <2>1. pass \in PassType
    BY DEF IInv, TypeOK, PassType
  <2>2. batch \subseteq {n \in pass.ids : Waits(mem.notes[n])}
    BY DEF Claimable
  <2>3. \/ pass' = LetGo
        \/ /\ pass.step = "claim" /\ pass'.step = "write"
           /\ pass'.ids \subseteq {n \in pass.ids : Waits(mem.notes[n])}
    BY <1>3, <2>1, <2>2 DEF PassClaims, PassType
  <2>4. Evolves /\ UNCHANGED <<record, copies>>
    BY <1>3, PassClaimsStep DEF PassClaims
  <2>5. Offered' \subseteq Offered
    BY <2>3, <2>4, OfferedShrinks
  <2> QED BY <2>4, <2>5, PassStepsAreChanges DEF Channel!Next
<1>4. CASE PassRetries
  <2>1. pass \in PassType
    BY DEF IInv, TypeOK, PassType
  <2>2. pass' = LetGo \/ pass'.step \in {"next", "later", "failed"}
    BY <1>4, <2>1 DEF PassRetries, PassType
  <2>3. Evolves /\ UNCHANGED <<record, copies>>
    BY <1>4, PassRetriesStep DEF PassRetries
  <2>4. Offered' \subseteq Offered
    BY <2>2, <2>3, OfferedShrinks
  <2> QED BY <2>3, <2>4, PassStepsAreChanges DEF Channel!Next
<1>5. CASE PassAcks
  <2>1. pass \in PassType
    BY DEF IInv, TypeOK, PassType
  <2>2. pass.step = "receipts" /\ pass'.step = "claim" /\ pass'.ids = pass.ids
    BY <1>5, <2>1 DEF PassAcks, PassType
  <2>3. Evolves /\ UNCHANGED <<record, copies>>
    BY <1>5, PassAcksStep DEF PassAcks
  <2>4. Offered' \subseteq Offered
    BY <2>2, <2>3, OfferedShrinks
  <2> QED BY <2>3, <2>4, PassStepsAreChanges DEF Channel!Next
<1>6. CASE PassAcksNothing \/ PassCannotSave \/ PassSkips
  <2>1. pass' = Off \/ pass' = LetGo
    BY <1>6 DEF PassAcksNothing, PassCannotSave, PassSkips, PassAborts
  <2>2. Evolves /\ UNCHANGED <<record, copies>>
    BY <1>6, LedgerAlone DEF PassAcksNothing, PassCannotSave, PassSkips, PassAborts
  <2>3. Offered' \subseteq Offered
    BY <2>1, <2>2, OfferedShrinks
  <2> QED BY <2>2, <2>3, PassStepsAreChanges DEF Channel!Next
<1>7. CASE PassBegins \/ PassFindsBusy \/ PassFails
  <2>1. pass \in PassType
    BY DEF IInv, TypeOK, PassType
  <2>2. pass'.step \in {"next", "later", "failed"}
    BY <1>7, <2>1 DEF PassBegins, PassFindsBusy, PassFails, PassType, Off
  <2>3. Evolves /\ UNCHANGED <<record, copies>>
    BY <1>7, LedgerAlone DEF PassBegins, PassFindsBusy, PassFails
  <2>4. Offered' \subseteq Offered
    BY <2>2, <2>3, OfferedShrinks
  <2> QED BY <2>3, <2>4, PassStepsAreChanges DEF Channel!Next
<1> QED BY <1>1, <1>2, <1>3, <1>4, <1>5, <1>6, <1>7 DEF Pass

LEMMA NextRefines ==
  ASSUME IInv, IInv', [Next]_vars
  PROVE  Channel!Next
<1>1. ASSUME NEW w \in Workers,
             \/ Start(w) \/ Report(w) \/ Confirm(w) \/ AskGate(w) \/ Resolve(w)
             \/ TakeForWorker(w)
             \/ \E kind \in Kinds : Tell(w, kind) \/ Fail(w, kind)
             \/ \E interrupting \in BOOLEAN : Instruct(w, interrupting)
      PROVE  Channel!Next
  BY <1>1, WorkerStepsAreChanges DEF Channel!Next
<1>2. ASSUME NEW k \in Chats,
             Reader(k) \/ TurnEnds(k) \/ PersonTurn(k) \/ ProcessEnds(k)
      PROVE  Channel!Next
  BY <1>2, ProcessStepsAreChanges DEF Channel!Next
<1>3. ASSUME (\E n \in Ids : Lapse(n)) \/ StopRun \/ Settle \/ UNCHANGED vars
      PROVE  Channel!Next
  <2>1. Evolves
    BY <1>3, LapseStep, StopRunStep, SettleStep, LedgerAlone DEF vars
  <2>2. UNCHANGED <<record, pass, copies>>
    BY <1>3 DEF Lapse, StopRun, Settle, vars
  <2> QED BY <2>1, <2>2, HostStepsAreChanges DEF Channel!Next, RecordKept
<1>4. CASE Restart
  BY <1>4, RestartIsACrash DEF Channel!Next
<1> QED BY <1>1, <1>2, <1>3, <1>4, PassStepsRefine DEF Next

LEMMA InitRefines ==
  ASSUME Init
  PROVE  Channel!Init
<1>1. /\ mem.notes = [n \in Ids |->
                  [kind |-> "none", about |-> None, attempt |-> 0,
                   state |-> "Cancelled", tries |-> 0, due |-> FALSE,
                   sequence |-> 0, pruned |-> FALSE]]
      /\ disk = mem /\ pass.step = "off" /\ copies = [n \in Ids |-> 0]
  BY DEF Init, Off
<1>2. \A n \in Ids : Status(mem, n) = "unposted"
  BY <1>1 DEF Status
<1>3. Offered = {}
  BY <1>1 DEF Offered
<1> QED BY <1>1, <1>2, <1>3 DEF Channel!Init

\* The inbox implements Channel: a notice is written only while it is open as
\* far as the host could know, and only if its posting would survive a crash;
\* and no crash, retry, late receipt or Stop undoes that it was received.
THEOREM InboxIsAChannel == Spec => ChannelHolds
<1>1. Init => Channel!Init
  BY InitRefines
<1>2. IInv /\ IInv' /\ [Next]_vars => [Channel!Next]_(Channel!channel)
  BY NextRefines
<1> QED BY <1>1, <1>2, Invariance, PTL DEF Spec, ChannelHolds, Channel!Spec


\* A receipt is never undone: not by a retry, a Stop, a change that could not
\* be saved, nor by a crash between the record and the ledger
\* (acknowledge_notifications, recover_interrupted_workers).
THEOREM ReceiptIsFinal ==
  Spec => [][\A n \in Ids : Status(mem, n) = "received" =>
                Status(mem, n)' = "received"]_vars
<1>1. ASSUME Channel!Next, NEW n \in Ids, Status(mem, n) = "received"
      PROVE  Status(mem, n)' = "received"
  <2>1. CASE Channel!Change
    <3>1. Channel!Moves(n)
      BY <2>1 DEF Channel!Change
    <3> QED BY <1>1, <3>1 DEF Channel!Moves
  <2>2. CASE Channel!Offer \/ Channel!Send
    <3>1. [m \in Ids |-> Status(mem, m)]' = [m \in Ids |-> Status(mem, m)]
      BY <2>2 DEF Channel!Offer, Channel!Send
    <3>2. [m \in Ids |-> Status(mem, m)]'[n] = [m \in Ids |-> Status(mem, m)][n]
      BY <3>1
    <3> QED BY <1>1, <3>2
  <2>3. CASE Channel!Crash
    BY <1>1, <2>3 DEF Channel!Crash
  <2> QED BY <1>1, <2>1, <2>2, <2>3 DEF Channel!Next
<1>2. IInv /\ IInv' /\ [Next]_vars =>
        \A n \in Ids : Status(mem, n) = "received" => Status(mem, n)' = "received"
  BY <1>1, NextRefines
<1> QED BY <1>2, Invariance, PTL DEF Spec

=============================================================================
