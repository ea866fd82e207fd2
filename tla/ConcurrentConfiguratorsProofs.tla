--------------------- MODULE ConcurrentConfiguratorsProofs ---------------------
(***************************************************************************)
(* Proofs about ConcurrentConfigurators when every process takes the lock, *)
(* for any number of processes, files, crashes and raising calls.          *)
(***************************************************************************)
EXTENDS ConcurrentConfigurators, TLAPS

All(v) == [f \in File |-> v]

Holding == Label \ Resting

\* The labels of a process that applies its own change.
Applying == {"stage", "link", "swap", "final", "tombs", "handler", "rollback"}
Writing  == {"jStage", "jSwap"}

\* p has written nothing yet: it recovers others or is about to begin.
Early(p) ==
  \/ pc[p] \in {"start", "plan", "lock", "read", "restore", "check"}
  \/ pc[p] \in {"clean", "drop"} /\ snap[p] # NoJournal
  \/ pc[p] \in Writing /\ want[p] = "preparing"

LockInv == \A p \in Proc : pc[p] \in Holding => lock = p

\* Nothing of a process is seen before it writes.
EarlyInv ==
  \A p \in Proc : Early(p) =>
    /\ p \notin commits /\ jr.owner # p
    /\ \A f \in File : dest[f] # p /\ \A q \in Proc : seen[q][f] # p

SeenInv == \A p \in Proc : \A f \in File : seen[p][f] # p

\* Which journal a process finds or has written, by label.
OwnInv(p) ==
  /\ pc[p] = "restore" => snap[p] = jr /\ jr.phase = "prepared"
  /\ pc[p] \in {"clean", "drop"} => jr # NoJournal /\ jr.owner = Target(p)
  /\ pc[p] \in {"clean", "drop"} /\ jr.phase = "prepared" => dest = seen[jr.owner]
  /\ pc[p] \in Applying \cup Writing \cup {"check"} => snap[p] = NoJournal
  /\ pc[p] = "check" => jr = NoJournal
  /\ pc[p] \in Applying => jr.owner = p
  /\ pc[p] = "stage" => jr.phase = "preparing"
  /\ pc[p] \in {"link", "swap", "final", "rollback"} => jr.phase = "prepared"
  /\ pc[p] = "handler" => jr.phase # "committed"
  /\ pc[p] = "tombs" => jr.phase = "committed"

WriteInv(p) ==
  pc[p] \in Writing =>
    /\ want[p] # "none"
    /\ want[p] = "preparing" => jr = NoJournal /\ dest = seen[p] /\ subject = p
    /\ want[p] = "prepared" => jr = [owner |-> p, phase |-> "preparing"]
    /\ want[p] = "committed" =>
         jr = [owner |-> p, phase |-> "prepared"] /\ dest = All(p) /\ cur[p] = N

\* Which files are as they were, for who restores or publishes them in order.
FileInv(p) ==
  /\ \/ pc[p] \in {"link", "swap", "handler", "restore"}
     \/ pc[p] = "rollback" /\ ~failed[p]
     => (jr.phase = "prepared" =>
           \A f \in File : f > cur[p] => dest[f] = seen[jr.owner][f])
  /\ pc[p] \in {"link", "swap"} => cur[p] \in File
  /\ pc[p] = "final" => cur[p] = N
  /\ pc[p] \in {"stage", "handler", "rollback", "restore"} \cup Writing => cur[p] <= N

\* What the journal says of the files.
JournalInv ==
  jr # NoJournal =>
    /\ subject = jr.owner /\ seen[jr.owner] \in Contents
    /\ jr.phase = "preparing" => dest = seen[jr.owner]
    /\ jr.phase = "committed" => dest = All(jr.owner)

\* The contents that count: of a prepared journal, the originals.
Settled == IF jr.phase = "prepared" THEN seen[jr.owner] ELSE dest
Origins == {All(v) : v \in commits \cup {"base"}}

HistoryInv ==
  /\ Settled \in Origins
  /\ \A p \in commits : seen[p] \in Origins /\ seen[p] # Settled

GlobalInv == EarlyInv /\ SeenInv /\ JournalInv /\ HistoryInv /\ NoLostUpdate

LocalInv(p) == OwnInv(p) /\ WriteInv(p) /\ FileInv(p)

\* The inductive invariant.
IInv == TypeOK /\ LockInv /\ GlobalInv /\ \A p \in Proc : LocalInv(p)

--------------------------------------------------------------------------------
(* Helper lemmas                                                            *)

\* What a step of p does to control and lock; the others stay where they are.
Moved(p) ==
  /\ pc' \in [Proc -> Label] /\ cur' \in [Proc -> 0..(N + 1)] /\ lock' \in Proc \cup {"free"}
  /\ \A q \in Proc \ {p} : pc'[q] = pc[q] /\ cur'[q] = cur[q]
  /\ lock' = lock \/ (lock = p /\ pc'[p] \notin Holding)

\* A step that goes to a label, keeping the lock or releasing it on leaving.
LEMMA GotoStep ==
  ASSUME TypeOK, NEW p \in Proc, NEW l \in Label, NEW i \in 0..(N + 1), Goto(p, l, i),
         lock' = lock \/ (Release(p) /\ l \notin Holding)
  PROVE  Moved(p) /\ pc'[p] = l /\ cur'[p] = i
BY DEF Goto, TypeOK, Release, Moved

\* A process that leaves, wherever it was.
LEMMA LeaveStep ==
  ASSUME TypeOK, NEW p \in Proc, Leave(p)
  PROVE  Moved(p) /\ pc'[p] = "done"
<1>1. "done" \in Label /\ "done" \notin Holding /\ 0 \in 0..(N + 1)
  BY ConcurrencyAssumption DEF Label, Holding, Resting
<1>2. Goto(p, "done", 0) /\ Release(p)
  BY DEF Leave
<1> QED BY <1>1, <1>2, GotoStep

\* The invariants of a process that does not hold the lock say nothing.
LEMMA Idle == ASSUME NEW q, pc'[q] \notin Holding PROVE LocalInv(q)'
BY DEF LocalInv, OwnInv, WriteInv, FileInv, Holding, Label, Resting, Applying, Writing

\* A step of the lock's holder: it remains to look at that process and at the disk.
LEMMA HolderStep ==
  ASSUME IInv, NEW p \in Proc, pc[p] \in Holding, Moved(p),
         TypeOK', GlobalInv', LocalInv(p)'
  PROVE  IInv'
<1>1. \A q \in Proc \ {p} : pc'[q] \notin Holding
  BY DEF IInv, LockInv, Moved
<1>2. LockInv'
  <2>1. pc'[p] \in Holding => lock' = p
    BY DEF IInv, LockInv, Moved
  <2> QED BY <1>1, <2>1 DEF LockInv
<1>3. \A q \in Proc : LocalInv(q)'
  BY <1>1, Idle
<1> QED BY <1>2, <1>3 DEF IInv

\* A step that leaves the files, the journal and the history alone.
LEMMA SameDisk ==
  ASSUME IInv, NEW p \in Proc, UNCHANGED <<dest, jr, seen, commits>>,
         jr = NoJournal \/ UNCHANGED subject,
         \A q \in Proc \ {p} : pc'[q] = pc[q] /\ snap'[q] = snap[q] /\ want'[q] = want[q],
         Early(p)' => Early(p)
  PROVE  GlobalInv'
<1>1. \A q \in Proc : Early(q)' => Early(q)
  BY DEF Early
<1>2. EarlyInv'
  BY <1>1 DEF IInv, GlobalInv, EarlyInv
<1>3. SeenInv' /\ NoLostUpdate'
  BY DEF IInv, GlobalInv, SeenInv, NoLostUpdate
<1>4. JournalInv'
  BY DEF IInv, GlobalInv, JournalInv
<1>5. HistoryInv'
  BY DEF IInv, GlobalInv, HistoryInv, Settled, Origins
<1> QED BY <1>2, <1>3, <1>4, <1>5 DEF GlobalInv

\* A step of a process that rests and goes on resting, or takes a free lock.
LEMMA RestingStep ==
  ASSUME IInv, NEW p \in Proc, TypeOK', GlobalInv',
         UNCHANGED <<dest, jr, subject, want, snap, failed>>,
         jr # NoJournal => seen'[jr.owner] = seen[jr.owner],
         \A q \in Proc \ {p} : pc'[q] = pc[q] /\ cur'[q] = cur[q] /\ seen'[q] = seen[q],
         \/ pc'[p] \notin Holding /\ \A q \in Proc \ {p} : lock = q => lock' = q
         \/ pc'[p] = "read" /\ lock = "free" /\ lock' = p
  PROVE  IInv'
<1>1. "free" \notin Proc
  BY ConcurrencyAssumption
<1>2. LockInv'
  BY <1>1 DEF IInv, LockInv
<1>3. ASSUME NEW q \in Proc PROVE LocalInv(q)'
  <2>1. CASE q = p
    <3>1. CASE pc'[p] \notin Holding BY <2>1, <3>1, Idle
    <3>2. CASE pc'[p] = "read"
      BY <2>1, <3>2 DEF LocalInv, OwnInv, WriteInv, FileInv, Applying, Writing
    <3> QED BY <3>1, <3>2
  <2>2. CASE q # p
    <3>1. LocalInv(q) BY DEF IInv
    <3>2. OwnInv(q)'
      BY <2>2, <3>1 DEF LocalInv, OwnInv, Target
    <3>3. WriteInv(q)'
      BY <2>2, <3>1 DEF LocalInv, WriteInv
    <3>4. FileInv(q)'
      <4>1. jr.phase = "prepared" => jr # NoJournal BY DEF NoJournal
      <4> QED BY <2>2, <3>1, <4>1 DEF LocalInv, FileInv
    <3> QED BY <3>2, <3>3, <3>4 DEF LocalInv
  <2> QED BY <2>1, <2>2
<1> QED BY <1>2, <1>3 DEF IInv

\* A journal on disk is a proper one.
LEMMA JournalOf ==
  ASSUME TypeOK
  PROVE  /\ jr # NoJournal <=> jr \in Journal
         /\ jr # NoJournal <=> jr.phase \in {"preparing", "prepared", "committed"}
         /\ jr # NoJournal <=> jr.owner \in Proc
         /\ jr \in Journal => jr = [owner |-> jr.owner, phase |-> jr.phase]
BY ConcurrencyAssumption DEF TypeOK, Journal, NoJournal

\* A failing transaction keeps the invariants of its process and of the disk.
LEMMA RaiseStep ==
  ASSUME IInv, NEW p \in Proc, pc[p] \in InApply, Raise(p),
         UNCHANGED <<dest, jr, seen, snap, want, failed, subject, commits>>
  PROVE  Moved(p) /\ GlobalInv' /\ LocalInv(p)'
<1>0. TypeOK /\ LocalInv(p) BY DEF IInv
<1>1. CASE BeforeJournal(p)
  <2>1. Moved(p) /\ pc'[p] = "done"
    BY <1>0, <1>1, LeaveStep DEF Raise
  <2>2. GlobalInv'
    BY <2>1, SameDisk DEF Early, Moved, Writing
  <2>3. LocalInv(p)'
    BY <2>1, Idle DEF Holding, Resting
  <2> QED BY <2>1, <2>2, <2>3
<1>2. CASE ~BeforeJournal(p)
  <2>1. Goto(p, "handler", cur[p]) /\ UNCHANGED lock
    BY <1>2 DEF Raise
  <2>2. "handler" \in Label /\ cur[p] \in 0..(N + 1)
    BY <1>0 DEF Label, TypeOK
  <2>3. Moved(p) /\ pc'[p] = "handler" /\ cur'[p] = cur[p]
    BY <1>0, <2>1, <2>2, GotoStep
  <2>4. GlobalInv'
    BY <2>3, SameDisk DEF Early, Moved, Writing
  <2>5. /\ jr.owner = p /\ snap[p] = NoJournal /\ jr.phase # "committed"
    BY <1>0, <1>2 DEF LocalInv, OwnInv, WriteInv, InApply, Applying, Writing, BeforeJournal, TypeOK
  <2>6. OwnInv(p)' /\ WriteInv(p)'
    BY <2>3, <2>5 DEF OwnInv, WriteInv, Applying, Writing
  <2>7. jr.phase = "prepared" => \A f \in File : f > cur[p] => dest[f] = seen[jr.owner][f]
    <3>1. CASE pc[p] \in {"link", "swap"}
      BY <1>0, <3>1 DEF LocalInv, FileInv
    <3>2. CASE pc[p] = "stage"
      BY <1>0, <3>2 DEF LocalInv, OwnInv
    <3>3. CASE pc[p] = "final"
      BY <1>0, <3>3, ConcurrencyAssumption DEF LocalInv, FileInv, File
    <3>4. CASE pc[p] \in Writing
      <4>1. jr.phase = "prepared" => cur[p] = N
        BY <1>0, <1>2, <3>4 DEF LocalInv, WriteInv, BeforeJournal, TypeOK, Writing
      <4> QED BY <4>1, ConcurrencyAssumption DEF File
    <3> QED BY <3>1, <3>2, <3>3, <3>4 DEF InApply, Writing
  <2>9. cur[p] <= N
    BY <1>0, ConcurrencyAssumption DEF LocalInv, FileInv, InApply, Writing, File
  <2>8. FileInv(p)'
    BY <2>3, <2>7, <2>9 DEF FileInv, Writing
  <2> QED BY <2>3, <2>4, <2>6, <2>8 DEF LocalInv
<1> QED BY <1>1, <1>2

--------------------------------------------------------------------------------
(* One lemma per action                                                     *)

\* Looking for a journal keeps the invariant.
LEMMA StartStep == ASSUME IInv, Unlocked = {}, NEW p \in Proc, Start(p) PROVE IInv'
<1>0. TypeOK BY DEF IInv
<1>1. PICK l \in {"plan", "lock"} : Goto(p, l, 0)
  BY DEF Start
<1>2. Moved(p) /\ pc'[p] = l
  BY <1>0, <1>1, GotoStep, ConcurrencyAssumption DEF Start, Label
<1>3. TypeOK'
  BY <1>0, <1>2 DEF TypeOK, Start, disk, hist, Moved
<1>4. GlobalInv'
  BY <1>2, SameDisk DEF Start, disk, hist, Moved, Early
<1>5. l \notin Holding
  BY DEF Holding, Resting
<1> QED BY <1>2, <1>3, <1>4, <1>5, RestingStep DEF Start, disk, hist, Moved

\* Computing a change without the lock keeps the invariant: what is seen is nobody's who has yet to write.
LEMMA PlanStep == ASSUME IInv, NEW p \in Proc, Plan(p) PROVE IInv'
<1>0. TypeOK /\ GlobalInv /\ Early(p) BY DEF IInv, Plan, Early
<1>1. Moved(p) /\ pc'[p] = "lock"
  BY <1>0, GotoStep, ConcurrencyAssumption DEF Plan, Label
<1>2. TypeOK'
  BY <1>0, <1>1 DEF TypeOK, Plan, disk, hist, Moved
<1>3. /\ seen'[p] = dest /\ \A q \in Proc \ {p} : seen'[q] = seen[q]
      /\ UNCHANGED <<dest, jr, commits, subject, snap, want, failed>>
  BY <1>0 DEF TypeOK, Plan, disk, hist
<1>4. p \notin commits /\ jr.owner # p /\ \A f \in File : dest[f] # p
  BY <1>0 DEF GlobalInv, EarlyInv
<1>5. GlobalInv'
  <2>1. \A q \in Proc : Early(q)' => Early(q)
    BY <1>0, <1>1, <1>3 DEF Early, Moved
  <2>2. EarlyInv'
    <3>1. \A q \in Proc : Early(q) => \A f \in File : dest[f] # q
      BY <1>0 DEF GlobalInv, EarlyInv
    <3>2. ASSUME NEW q \in Proc, Early(q), NEW r \in Proc, NEW f \in File PROVE seen'[r][f] # q
      BY <1>0, <1>3, <3>1, <3>2 DEF GlobalInv, EarlyInv
    <3> QED BY <1>0, <1>3, <2>1, <3>2 DEF GlobalInv, EarlyInv
  <2>3. SeenInv'
    BY <1>0, <1>3, <1>4 DEF GlobalInv, SeenInv
  <2>4. jr # NoJournal => jr.owner \in Proc /\ seen'[jr.owner] = seen[jr.owner]
    BY <1>0, <1>3, <1>4, JournalOf
  <2>5. JournalInv'
    BY <1>0, <1>3, <2>4 DEF GlobalInv, JournalInv
  <2>6. commits \subseteq Proc \ {p}
    BY <1>0, <1>4 DEF TypeOK
  <2>7. HistoryInv'
    <3>1. Settled' = Settled /\ Origins' = Origins
      BY <1>3, <2>4 DEF Settled, Origins, NoJournal
    <3> QED BY <1>0, <1>3, <2>6, <3>1 DEF GlobalInv, HistoryInv
  <2>8. NoLostUpdate'
    BY <1>0, <1>3, <2>6 DEF GlobalInv, NoLostUpdate
  <2> QED BY <2>2, <2>3, <2>5, <2>7, <2>8 DEF GlobalInv
<1>6. jr # NoJournal => seen'[jr.owner] = seen[jr.owner]
  BY <1>0, <1>3, <1>4, JournalOf
<1>7. pc'[p] \notin Holding /\ lock' = lock
  BY <1>1 DEF Holding, Resting, Plan
<1> QED BY <1>1, <1>2, <1>3, <1>5, <1>6, <1>7, RestingStep DEF Moved

\* Taking the lock, or giving up, keeps the invariant.
LEMMA AcquireStep == ASSUME IInv, NEW p \in Proc, Acquire(p) PROVE IInv'
<1>0. TypeOK BY DEF IInv
<1>1. "read" \in Label /\ 0 \in 0..(N + 1)
  BY ConcurrencyAssumption DEF Label
<1>2. CASE lock = "free"
  <2>1. Goto(p, "read", 0) /\ lock' = p
    BY <1>2 DEF Acquire
  <2>2. /\ pc' \in [Proc -> Label] /\ cur' \in [Proc -> 0..(N + 1)] /\ pc'[p] = "read"
        /\ \A q \in Proc \ {p} : pc'[q] = pc[q] /\ cur'[q] = cur[q]
    BY <1>0, <1>1, <2>1 DEF Goto, TypeOK
  <2>3. TypeOK'
    BY <1>0, <2>1, <2>2 DEF TypeOK, Acquire, disk, hist
  <2>4. GlobalInv'
    BY <2>2, SameDisk DEF Acquire, disk, hist, Early
  <2> QED BY <1>2, <2>1, <2>2, <2>3, <2>4, RestingStep DEF Acquire, disk, hist
<1>3. CASE lock # "free"
  <2>1. Leave(p) /\ Moved(p) /\ pc'[p] = "done"
    BY <1>0, <1>3, LeaveStep DEF Acquire
  <2>2. TypeOK'
    BY <1>0, <2>1 DEF TypeOK, Acquire, disk, hist, Moved
  <2>3. GlobalInv'
    BY <2>1, SameDisk DEF Acquire, disk, hist, Early, Moved, Writing
  <2>4. pc'[p] \notin Holding /\ \A q \in Proc \ {p} : lock = q => lock' = q
    BY <2>1 DEF Moved, Holding, Resting, Leave, Release
  <2> QED BY <2>1, <2>2, <2>3, <2>4, RestingStep DEF Moved, Acquire, disk, hist
<1> QED BY <1>2, <1>3

\* After a recovery: the process computes its change again, or applies it.
LEMMA RecoveredStep ==
  ASSUME TypeOK, NEW p \in Proc, Recovered(p)
  PROVE  Moved(p) /\ pc'[p] \in {"plan", "check"}
<1>1. /\ "plan" \in Label /\ "check" \in Label /\ 0 \in 0..(N + 1)
      /\ "plan" \notin Holding
  BY ConcurrencyAssumption DEF Label, Holding, Resting
<1>2. CASE seen[p] = NoPlan
  BY <1>1, <1>2, GotoStep DEF Recovered
<1>3. CASE seen[p] # NoPlan
  BY <1>1, <1>3, GotoStep DEF Recovered
<1> QED BY <1>2, <1>3

\* Reading the journal keeps the invariant: its process becomes the one to undo or clean up.
LEMMA ReadJournalStep == ASSUME IInv, NEW p \in Proc, ReadJournal(p) PROVE IInv'
<1>0. TypeOK /\ pc[p] \in Holding /\ Early(p)
  BY DEF IInv, ReadJournal, Holding, Label, Resting, Early
<1>1. /\ Moved(p)
      /\ \/ pc'[p] \in {"plan", "check"} /\ jr = NoJournal
         \/ pc'[p] = "clean" /\ jr # NoJournal /\ jr.phase # "prepared"
         \/ pc'[p] = "restore" /\ jr.phase = "prepared" /\ cur'[p] = N
         \/ pc'[p] = "done"
  <2>1. CASE jr.phase = "none"
    <3>1. Recovered(p) BY <2>1 DEF ReadJournal
    <3>2. jr = NoJournal BY <1>0, <2>1, JournalOf
    <3> QED BY <1>0, <3>1, <3>2, RecoveredStep
  <2>2. CASE jr.phase \in {"preparing", "committed"}
    <3>1. (Goto(p, "clean", 1) /\ UNCHANGED lock) \/ Leave(p) BY <2>2 DEF ReadJournal
    <3>2. "clean" \in Label /\ 1 \in 0..(N + 1) BY ConcurrencyAssumption DEF Label
    <3>3. jr # NoJournal /\ jr.phase # "prepared" BY <1>0, <2>2, JournalOf
    <3> QED BY <1>0, <3>1, <3>2, <3>3, GotoStep, LeaveStep
  <2>3. CASE jr.phase = "prepared"
    <3>1. Goto(p, "restore", N) /\ UNCHANGED lock BY <2>3 DEF ReadJournal
    <3>2. "restore" \in Label /\ N \in 0..(N + 1) BY ConcurrencyAssumption DEF Label
    <3> QED BY <1>0, <2>3, <3>1, <3>2, GotoStep
  <2> QED BY <1>0, <2>1, <2>2, <2>3 DEF TypeOK, Journal, NoJournal
<1>2. snap'[p] = jr /\ snap' \in [Proc -> Journal \cup {NoJournal}]
      /\ \A q \in Proc \ {p} : snap'[q] = snap[q]
  BY <1>0 DEF ReadJournal, TypeOK
<1>3. TypeOK'
  BY <1>0, <1>1, <1>2 DEF TypeOK, ReadJournal, hist, Moved
<1>4. GlobalInv'
  BY <1>0, <1>1, <1>2, SameDisk DEF ReadJournal, hist, Moved
<1>5. OwnInv(p)'
  BY <1>1, <1>2 DEF OwnInv, ReadJournal, Target, Applying, Writing
<1>6. WriteInv(p)' BY <1>1 DEF WriteInv, Writing
<1>7. FileInv(p)'
  BY <1>1, ConcurrencyAssumption DEF FileInv, ReadJournal, File, Writing
<1> QED BY <1>0, <1>1, <1>3, <1>4, <1>5, <1>6, <1>7, HolderStep DEF LocalInv

\* Restoring one file of a prepared transaction, by its owner or by a recovery.
LEMMA RestoreFileStep ==
  ASSUME IInv, NEW p \in Proc, jr.phase = "prepared", NEW f \in File, RestoreFile(jr.owner, f),
         UNCHANGED <<jr, seen, subject, commits>>,
         \A q \in Proc \ {p} : pc'[q] = pc[q] /\ snap'[q] = snap[q] /\ want'[q] = want[q],
         Early(p)' => Early(p)
  PROVE  /\ dest' \in Contents /\ tomb' \in [Proc -> [File -> Version \cup {"none", "ph"}]]
         /\ dest'[f] = seen[jr.owner][f] /\ \A g \in File \ {f} : dest'[g] = dest[g]
         /\ GlobalInv'
<1>0. TypeOK /\ GlobalInv BY DEF IInv
<1>1. jr # NoJournal /\ jr.owner \in Proc
  BY <1>0, JournalOf
<1>2. seen[jr.owner] \in Contents
  BY <1>0, <1>1 DEF GlobalInv, JournalInv
<1>3. dest' \in Contents /\ dest'[f] = seen[jr.owner][f] /\ \A g \in File \ {f} : dest'[g] = dest[g]
  BY <1>0, <1>1, <1>2 DEF TypeOK, Contents, RestoreFile
<1>4. tomb' \in [Proc -> [File -> Version \cup {"none", "ph"}]]
  BY <1>0, <1>1 DEF TypeOK, RestoreFile
<1>5. \A q \in Proc : Early(q)' => Early(q)
  BY DEF Early
<1>6. EarlyInv'
  <2>1. ASSUME NEW q \in Proc, Early(q), NEW g \in File PROVE dest'[g] # q
    BY <1>0, <1>1, <1>3, <2>1 DEF GlobalInv, EarlyInv
  <2> QED BY <1>0, <1>5, <2>1 DEF GlobalInv, EarlyInv
<1>7. SeenInv' /\ NoLostUpdate'
  BY <1>0 DEF GlobalInv, SeenInv, NoLostUpdate
<1>8. JournalInv'
  BY <1>0 DEF GlobalInv, JournalInv
<1>9. HistoryInv'
  BY <1>0 DEF GlobalInv, HistoryInv, Settled, Origins
<1> QED BY <1>3, <1>4, <1>6, <1>7, <1>8, <1>9 DEF GlobalInv

\* When every file is as it was, the contents are.
LEMMA SameContents ==
  ASSUME TypeOK, NEW c \in Contents, \A f \in File : dest[f] = c[f]
  PROVE  dest = c
BY DEF TypeOK, Contents

\* Recovery of one file keeps the invariant; after the last, the originals are back.
LEMMA RestoreStep == ASSUME IInv, NEW p \in Proc, Restore(p) PROVE IInv'
<1>0. TypeOK /\ LocalInv(p) /\ GlobalInv /\ pc[p] \in Holding /\ Early(p)
  BY DEF IInv, Restore, Holding, Label, Resting, Early
<1>1. /\ snap[p] = jr /\ jr.phase = "prepared" /\ jr # NoJournal /\ Target(p) = jr.owner
      /\ jr.owner \in Proc /\ seen[jr.owner] \in Contents
      /\ \A f \in File : f > cur[p] => dest[f] = seen[jr.owner][f]
  <2>1. snap[p] = jr /\ jr.phase = "prepared"
    BY <1>0 DEF LocalInv, OwnInv, Restore
  <2>2. jr # NoJournal /\ jr.owner \in Proc
    BY <1>0, <2>1, JournalOf
  <2> QED BY <1>0, <2>1, <2>2 DEF LocalInv, FileInv, Restore, Target, GlobalInv, JournalInv
<1>2. /\ UNCHANGED <<new, jr, pending, want, seen, snap, failed, faults, subject, commits>>
  BY DEF Restore, hist
<1>3. CASE cur[p] = 0
  <2>1. Goto(p, "clean", 1) /\ UNCHANGED <<dest, tomb, lock>>
    BY <1>3 DEF Restore
  <2>2. Moved(p) /\ pc'[p] = "clean"
    BY <1>0, <2>1, GotoStep, ConcurrencyAssumption DEF Label
  <2>3. TypeOK'
    BY <1>0, <1>2, <2>1, <2>2 DEF TypeOK, Moved
  <2>4. GlobalInv'
    BY <1>0, <1>2, <2>1, <2>2, SameDisk DEF Moved
  <2>5. dest = seen[jr.owner]
    BY <1>0, <1>1, <1>3, SameContents, ConcurrencyAssumption DEF File
  <2>6. LocalInv(p)'
    BY <1>1, <1>2, <2>1, <2>2, <2>5
    DEF LocalInv, OwnInv, WriteInv, FileInv, Applying, Writing, Target
  <2> QED BY <1>0, <2>2, <2>3, <2>4, <2>6, HolderStep
<1>4. CASE cur[p] # 0 /\ Restorable(jr.owner, cur[p])
  <2>1. RestoreFile(jr.owner, cur[p]) /\ Goto(p, "restore", cur[p] - 1) /\ UNCHANGED lock
    BY <1>1, <1>4 DEF Restore
  <2>2. Moved(p) /\ pc'[p] = "restore" /\ cur'[p] = cur[p] - 1
    <3>1. cur[p] - 1 \in 0..(N + 1) /\ "restore" \in Label
      BY <1>0, <1>4, ConcurrencyAssumption DEF TypeOK, Label
    <3> QED BY <1>0, <2>1, <3>1, GotoStep
  <2>3. CASE cur[p] \in File
    <3>1. /\ dest' \in Contents /\ tomb' \in [Proc -> [File -> Version \cup {"none", "ph"}]]
          /\ dest'[cur[p]] = seen[jr.owner][cur[p]]
          /\ \A g \in File \ {cur[p]} : dest'[g] = dest[g]
          /\ GlobalInv'
      BY <1>0, <1>1, <1>2, <2>1, <2>2, <2>3, RestoreFileStep DEF Moved
    <3>2. TypeOK'
      BY <1>0, <1>2, <2>2, <3>1 DEF TypeOK, Moved
    <3>3. OwnInv(p)' /\ WriteInv(p)'
      BY <1>1, <1>2, <2>2 DEF OwnInv, WriteInv, Applying, Writing
    <3>4. \A f \in File : f > cur[p] - 1 => dest'[f] = seen[jr.owner][f]
      BY <1>0, <1>1, <3>1 DEF TypeOK, File
    <3>6. cur'[p] <= N
      BY <2>2, <2>3, ConcurrencyAssumption DEF File
    <3>5. FileInv(p)'
      BY <1>2, <2>2, <3>4, <3>6 DEF FileInv, Writing
    <3> QED BY <1>0, <2>2, <3>1, <3>2, <3>3, <3>5, HolderStep DEF LocalInv
  <2>4. cur[p] \in File
    BY <1>0, <1>4 DEF LocalInv, FileInv, Restore, TypeOK, File
  <2> QED BY <2>3, <2>4
<1>5. CASE cur[p] # 0 /\ ~Restorable(jr.owner, cur[p])
  <2>1. Leave(p) /\ UNCHANGED <<dest, tomb>>
    BY <1>1, <1>5 DEF Restore
  <2>2. Moved(p) /\ pc'[p] = "done"
    BY <1>0, <2>1, LeaveStep
  <2>3. TypeOK'
    BY <1>0, <1>2, <2>1, <2>2 DEF TypeOK, Moved
  <2>4. GlobalInv'
    BY <1>0, <1>2, <2>1, <2>2, SameDisk DEF Moved
  <2>5. LocalInv(p)' BY <2>2, Idle DEF Holding, Resting
  <2> QED BY <1>0, <2>2, <2>3, <2>4, <2>5, HolderStep
<1> QED BY <1>3, <1>4, <1>5

\* Removing temporaries keeps the invariant.
LEMMA CleanStep == ASSUME IInv, NEW p \in Proc, Clean(p) PROVE IInv'
<1>0. TypeOK /\ LocalInv(p) /\ pc[p] = "clean" /\ pc[p] \in Holding
  BY DEF IInv, Clean, Holding, Label, Resting
<1>1. /\ Moved(p) /\ pc'[p] \in {"clean", "drop"}
      /\ UNCHANGED <<dest, jr, pending, lock, want, seen, snap, failed, faults, subject, commits>>
  <2>1. CASE cur[p] \in File
    <3>1. "clean" \in Label /\ cur[p] + 1 \in 0..(N + 1)
      BY <2>1, ConcurrencyAssumption DEF File, Label
    <3> QED BY <1>0, <2>1, <3>1, GotoStep DEF Clean, hist
  <2>2. CASE cur[p] \notin File
    <3>1. "drop" \in Label /\ 0 \in 0..(N + 1)
      BY ConcurrencyAssumption DEF Label
    <3> QED BY <1>0, <2>2, <3>1, GotoStep DEF Clean, hist
  <2> QED BY <2>1, <2>2
<1>2. new' \in [Proc -> SUBSET File] /\ tomb' \in [Proc -> [File -> Version \cup {"none", "ph"}]]
  <2>1. CASE cur[p] \in File
    <3>1. new' = [new EXCEPT ![Target(p)] = @ \ {cur[p]}]
      BY <2>1 DEF Clean
    <3>2. tomb' = [tomb EXCEPT ![Target(p)][cur[p]] = "none"]
      BY <2>1 DEF Clean
    <3>3. new' \in [Proc -> SUBSET File] BY <1>0, <3>1 DEF TypeOK
    <3>4. tomb' \in [Proc -> [File -> Version \cup {"none", "ph"}]] BY <1>0, <3>2 DEF TypeOK
    <3> QED BY <3>3, <3>4
  <2>2. CASE cur[p] \notin File BY <1>0, <2>2 DEF Clean, TypeOK
  <2> QED BY <2>1, <2>2
<1>3. TypeOK'
  BY <1>0, <1>1, <1>2 DEF TypeOK, Moved
<1>4. GlobalInv'
  BY <1>0, <1>1, SameDisk DEF Moved, Early, Writing
<1>5. LocalInv(p)'
  BY <1>0, <1>1 DEF LocalInv, OwnInv, WriteInv, FileInv, Applying, Writing, Target
<1> QED BY <1>0, <1>1, <1>3, <1>4, <1>5, HolderStep

\* Removing the journal keeps the invariant: the files are what counts already.
LEMMA DropStep == ASSUME IInv, NEW p \in Proc, Drop(p) PROVE IInv'
<1>0. TypeOK /\ LocalInv(p) /\ GlobalInv /\ pc[p] = "drop" /\ pc[p] \in Holding
  BY DEF IInv, Drop, Holding, Label, Resting
<1>1. /\ Moved(p) /\ pc'[p] \in {"plan", "check", "done"}
      /\ snap[p] = NoJournal => pc'[p] = "done"
  <2>1. CASE snap[p] = NoJournal
    BY <1>0, <2>1, LeaveStep DEF Drop
  <2>2. CASE snap[p] # NoJournal
    BY <1>0, <2>2, RecoveredStep DEF Drop
  <2> QED BY <2>1, <2>2
<1>2. /\ jr' = NoJournal /\ snap'[p] = NoJournal /\ \A q \in Proc \ {p} : snap'[q] = snap[q]
      /\ UNCHANGED <<dest, new, tomb, want, seen, failed, faults, subject, commits>>
  BY <1>0 DEF Drop, hist, TypeOK
<1>3. TypeOK'
  BY <1>0, <1>1, <1>2 DEF TypeOK, Drop, Moved
<1>4. dest = Settled
  <2>1. jr.phase = "prepared" => dest = seen[jr.owner]
    BY <1>0 DEF LocalInv, OwnInv
  <2> QED BY <2>1 DEF Settled
<1>5. \A q \in Proc : Early(q)' => Early(q)
  <2>1. Early(p)' => Early(p)
    BY <1>0, <1>1 DEF Early, Writing
  <2>2. \A q \in Proc \ {p} : Early(q)' => Early(q)
    BY <1>1, <1>2 DEF Early, Moved
  <2> QED BY <2>1, <2>2
<1>6. EarlyInv'
  <2>1. \A q \in Proc : jr'.owner # q
    BY <1>2, ConcurrencyAssumption DEF NoJournal
  <2> QED BY <1>0, <1>2, <1>5, <2>1 DEF GlobalInv, EarlyInv
<1>7. SeenInv' /\ NoLostUpdate' /\ JournalInv'
  BY <1>0, <1>2 DEF GlobalInv, SeenInv, NoLostUpdate, JournalInv
<1>8. HistoryInv'
  <2>1. Settled' = Settled /\ Origins' = Origins
    BY <1>2, <1>4 DEF Settled, Origins, NoJournal
  <2> QED BY <1>0, <1>2, <2>1 DEF GlobalInv, HistoryInv
<1>9. LocalInv(p)'
  BY <1>1, <1>2 DEF LocalInv, OwnInv, WriteInv, FileInv, Applying, Writing
<1> QED BY <1>0, <1>1, <1>3, <1>6, <1>7, <1>8, <1>9, HolderStep DEF GlobalInv

\* Beginning to apply keeps the invariant: the files are those the change was computed from.
LEMMA CheckStep == ASSUME IInv, NEW p \in Proc, Check(p) PROVE IInv'
<1>0. TypeOK /\ LocalInv(p) /\ pc[p] = "check" /\ pc[p] \in Holding /\ Early(p)
  BY DEF IInv, Check, Holding, Label, Resting, Early
<1>1. jr = NoJournal /\ snap[p] = NoJournal
  BY <1>0 DEF LocalInv, OwnInv
<1>2. UNCHANGED <<dest, new, tomb, jr, pending, seen, snap, failed, faults, commits>>
  BY DEF Check, disk
<1>3. CASE \A f \in File : Same(p, f)
  <2>1. /\ want' = [want EXCEPT ![p] = "preparing"] /\ subject' = p
        /\ Goto(p, "jStage", 0) /\ UNCHANGED lock
    BY <1>3 DEF Check
  <2>2. Moved(p) /\ pc'[p] = "jStage" /\ cur'[p] = 0
    BY <1>0, <2>1, GotoStep, ConcurrencyAssumption DEF Label
  <2>3. want'[p] = "preparing" /\ \A q \in Proc \ {p} : want'[q] = want[q]
    BY <1>0, <2>1 DEF TypeOK
  <2>4. dest = seen[p]
    BY <1>0, <1>3, ConcurrencyAssumption DEF TypeOK, Contents, NoPlan, Same
  <2>5. TypeOK'
    BY <1>0, <1>2, <2>1, <2>2 DEF TypeOK, Moved
  <2>6. GlobalInv'
    BY <1>0, <1>1, <1>2, <2>2, <2>3, SameDisk DEF Moved
  <2>7. LocalInv(p)'
    BY <1>1, <1>2, <2>1, <2>2, <2>3, <2>4, ConcurrencyAssumption
    DEF LocalInv, OwnInv, WriteInv, FileInv, Applying, Writing
  <2> QED BY <1>0, <2>2, <2>5, <2>6, <2>7, HolderStep
<1>4. CASE ~ \A f \in File : Same(p, f)
  <2>1. Leave(p) /\ UNCHANGED <<want, subject>>
    BY <1>4 DEF Check
  <2>2. Moved(p) /\ pc'[p] = "done"
    BY <1>0, <2>1, LeaveStep
  <2>3. TypeOK'
    BY <1>0, <1>2, <2>1, <2>2 DEF TypeOK, Moved
  <2>4. GlobalInv'
    BY <1>0, <1>2, <2>1, <2>2, SameDisk DEF Moved
  <2>5. LocalInv(p)' BY <2>2, Idle DEF Holding, Resting
  <2> QED BY <1>0, <2>2, <2>3, <2>4, <2>5, HolderStep
<1> QED BY <1>3, <1>4

\* Staging a journal keeps the invariant.
LEMMA JournalStageStep == ASSUME IInv, NEW p \in Proc, JournalStage(p) PROVE IInv'
<1>0. /\ TypeOK /\ LocalInv(p) /\ pc[p] = "jStage" /\ pc[p] \in Holding
      /\ UNCHANGED <<dest, new, tomb, jr, want, seen, snap, failed, faults, subject, commits>>
      /\ pending' = TRUE
  BY DEF IInv, JournalStage, Holding, Label, Resting, hist
<1>1. CASE pending
  <2>1. Moved(p) /\ GlobalInv' /\ LocalInv(p)'
    BY <1>0, <1>1, RaiseStep DEF JournalStage, InApply
  <2>2. TypeOK'
    BY <1>0, <2>1 DEF TypeOK, Moved
  <2> QED BY <1>0, <2>1, <2>2, HolderStep
<1>2. CASE ~pending
  <2>1. "jSwap" \in Label /\ cur[p] \in 0..(N + 1)
    BY <1>0 DEF Label, TypeOK
  <2>2. Moved(p) /\ pc'[p] = "jSwap" /\ cur'[p] = cur[p]
    BY <1>0, <1>2, <2>1, GotoStep DEF JournalStage
  <2>3. TypeOK'
    BY <1>0, <2>2 DEF TypeOK, Moved
  <2>4. GlobalInv'
    BY <1>0, <2>2, SameDisk DEF Moved, Early, Writing
  <2>5. LocalInv(p)'
    BY <1>0, <2>2 DEF LocalInv, OwnInv, WriteInv, FileInv, Applying, Writing
  <2> QED BY <1>0, <2>2, <2>3, <2>4, <2>5, HolderStep
<1> QED BY <1>1, <1>2

\* Different writers leave different contents.
LEMMA AllDiffer == ASSUME NEW v, NEW w, All(v) = All(w) PROVE v = w
<1>1. 1 \in File
  BY ConcurrencyAssumption DEF File
<1>2. All(v)[1] = v /\ All(w)[1] = w
  BY <1>1 DEF All
<1> QED BY <1>2

\* The commit of p: its contents now count.
LEMMA CommitHistory ==
  ASSUME IInv, NEW p \in Proc, commits' = commits \cup {p}, UNCHANGED <<seen, dest>>,
         jr = [owner |-> p, phase |-> "prepared"], jr'.phase = "committed", dest = All(p)
  PROVE  HistoryInv' /\ NoLostUpdate'
<1>0. TypeOK /\ GlobalInv BY DEF IInv
<1>1. Settled = seen[p] /\ Settled' = All(p)
  BY DEF Settled
<1>2. seen[p] \in Origins /\ p \notin commits
  BY <1>0, <1>1 DEF GlobalInv, HistoryInv
<1>3. Origins \subseteq Origins' /\ All(p) \in Origins'
  BY DEF Origins
<1>4. p # "base"
  BY ConcurrencyAssumption
<1>5. All(p) \notin Origins
  BY <1>2, <1>4, AllDiffer DEF Origins
<1>6. \A c \in commits' : seen[c] \in Origins
  BY <1>0, <1>2 DEF GlobalInv, HistoryInv
<1>7. HistoryInv'
  BY <1>1, <1>3, <1>5, <1>6 DEF HistoryInv
<1>8. \A c \in commits : seen[c] # seen[p]
  BY <1>0, <1>1 DEF GlobalInv, HistoryInv
<1>9. NoLostUpdate'
  BY <1>0, <1>8 DEF GlobalInv, NoLostUpdate
<1> QED BY <1>7, <1>9

\* Publishing a journal keeps the invariant, for each of the three phases.
LEMMA JournalSwapStep == ASSUME IInv, NEW p \in Proc, JournalSwap(p) PROVE IInv'
<1>0. /\ TypeOK /\ LocalInv(p) /\ GlobalInv /\ pc[p] = "jSwap" /\ pc[p] \in Holding
      /\ UNCHANGED <<dest, new, tomb, want, seen, snap, failed, faults, subject>>
      /\ pending' = FALSE /\ snap[p] = NoJournal
  BY DEF IInv, JournalSwap, Holding, Label, Resting, LocalInv, OwnInv, Writing
<1>1. CASE ~pending
  <2>1. Raise(p) /\ UNCHANGED <<jr, commits>>
    BY <1>1 DEF JournalSwap
  <2>2. Moved(p) /\ GlobalInv' /\ LocalInv(p)'
    BY <1>0, <2>1, RaiseStep DEF InApply
  <2>3. TypeOK'
    BY <1>0, <2>1, <2>2 DEF TypeOK, Moved
  <2> QED BY <1>0, <2>2, <2>3, HolderStep
<1>2. CASE pending
  <2>1. /\ jr' = [owner |-> p, phase |-> want[p]] /\ UNCHANGED lock
        /\ commits' = IF want[p] = "committed" THEN commits \cup {p} ELSE commits
    BY <1>2 DEF JournalSwap
  <2>2. want[p] \in {"preparing", "prepared", "committed"}
    BY <1>0 DEF TypeOK, LocalInv, WriteInv, Writing
  <2>3. \/ want[p] = "preparing" /\ Goto(p, "stage", 0)
        \/ want[p] = "prepared" /\ Goto(p, "link", 1)
        \/ want[p] = "committed" /\ Goto(p, "tombs", N)
    BY <1>2, <2>2 DEF JournalSwap
  <2>4. /\ Moved(p)
        /\ \/ want[p] = "preparing" /\ pc'[p] = "stage" /\ cur'[p] = 0
           \/ want[p] = "prepared" /\ pc'[p] = "link" /\ cur'[p] = 1
           \/ want[p] = "committed" /\ pc'[p] = "tombs" /\ cur'[p] = N
    <3>1. {"stage", "link", "tombs"} \subseteq Label /\ {0, 1, N} \subseteq 0..(N + 1)
      BY ConcurrencyAssumption DEF Label
    <3> QED BY <1>0, <2>1, <2>3, <3>1, GotoStep
  <2>5. jr' \in Journal /\ jr' # NoJournal /\ jr'.owner = p /\ jr'.phase = want[p]
    BY <2>1, <2>2, ConcurrencyAssumption DEF Journal, NoJournal
  <2>6. TypeOK'
    <3>1. commits' \in SUBSET Proc BY <1>0, <2>1 DEF TypeOK
    <3> QED BY <1>0, <2>4, <2>5, <3>1 DEF TypeOK, Moved
  <2>7. /\ want[p] = "preparing" => jr = NoJournal /\ dest = seen[p] /\ subject = p
        /\ want[p] = "prepared" => jr = [owner |-> p, phase |-> "preparing"]
        /\ want[p] = "committed" => jr = [owner |-> p, phase |-> "prepared"] /\ dest = All(p)
    BY <1>0 DEF LocalInv, WriteInv, Writing
  <2>8. subject = p /\ seen[p] \in Contents /\ (want[p] # "committed" => dest = seen[p])
    <3>1. CASE want[p] = "preparing" BY <1>0, <2>7, <3>1 DEF TypeOK
    <3>2. CASE want[p] # "preparing"
      <4>1. jr.owner = p /\ jr # NoJournal /\ (want[p] = "prepared" => jr.phase = "preparing")
        BY <2>2, <2>7, <3>2, ConcurrencyAssumption DEF NoJournal
      <4>2. subject = p /\ seen[p] \in Contents /\ (jr.phase = "preparing" => dest = seen[p])
        BY <1>0, <4>1 DEF GlobalInv, JournalInv
      <4> QED BY <2>2, <3>2, <4>1, <4>2
    <3> QED BY <3>1, <3>2
  <2>9. EarlyInv'
    <3>1. ~Early(p)' BY <1>0, <2>4 DEF Early, Writing
    <3>2. \A q \in Proc \ {p} : Early(q)' => Early(q)
      BY <1>0, <2>4 DEF Early, Moved
    <3>3. \A q \in Proc \ {p} : q \notin commits => q \notin commits'
      BY <2>1
    <3> QED BY <1>0, <2>5, <3>1, <3>2, <3>3 DEF GlobalInv, EarlyInv
  <2>10. SeenInv' /\ JournalInv'
    <3>1. SeenInv' BY <1>0 DEF GlobalInv, SeenInv
    <3>2. JournalInv'
      BY <1>0, <2>5, <2>7, <2>8 DEF JournalInv
    <3> QED BY <3>1, <3>2
  <2>11. HistoryInv' /\ NoLostUpdate'
    <3>1. CASE want[p] = "committed"
      BY <1>0, <2>1, <2>5, <2>7, <3>1, CommitHistory
    <3>2. CASE want[p] # "committed"
      <4>1. Settled = dest
        BY <2>2, <2>7, <3>2 DEF Settled, NoJournal
      <4>2. Settled' = dest
        BY <1>0, <2>5, <2>8, <3>2 DEF Settled
      <4>3. commits' = commits /\ Origins' = Origins
        BY <2>1, <3>2 DEF Origins
      <4> QED BY <1>0, <4>1, <4>2, <4>3 DEF GlobalInv, HistoryInv, NoLostUpdate
    <3> QED BY <3>1, <3>2
  <2>12. LocalInv(p)'
    <3>1. OwnInv(p)' BY <1>0, <2>4, <2>5 DEF OwnInv, Applying, Writing
    <3>2. WriteInv(p)' BY <2>4 DEF WriteInv, Writing
    <3>3. FileInv(p)'
      BY <1>0, <2>4, <2>5, <2>8, ConcurrencyAssumption DEF FileInv, Writing, File
    <3> QED BY <3>1, <3>2, <3>3 DEF LocalInv
  <2> QED BY <1>0, <2>4, <2>6, <2>9, <2>10, <2>11, <2>12, HolderStep DEF GlobalInv
<1> QED BY <1>1, <1>2

\* Staging the files keeps the invariant.
LEMMA StageStep == ASSUME IInv, NEW p \in Proc, Stage(p) PROVE IInv'
<1>0. /\ TypeOK /\ LocalInv(p) /\ pc[p] = "stage" /\ pc[p] \in Holding
      /\ UNCHANGED <<dest, jr, pending, seen, snap, failed, faults, subject, commits>>
  BY DEF IInv, Stage, Holding, Label, Resting, hist
<1>1. new' \in [Proc -> SUBSET File] /\ tomb' \in [Proc -> [File -> Version \cup {"none", "ph"}]]
  <2>1. new' = [new EXCEPT ![p] = File] /\ tomb' = [tomb EXCEPT ![p] = [f \in File |-> "ph"]]
    BY DEF Stage
  <2>2. new' \in [Proc -> SUBSET File] BY <1>0, <2>1 DEF TypeOK
  <2>3. tomb' \in [Proc -> [File -> Version \cup {"none", "ph"}]] BY <1>0, <2>1 DEF TypeOK
  <2> QED BY <2>2, <2>3
<1>2. jr = [owner |-> p, phase |-> "preparing"] /\ snap[p] = NoJournal
  <2>1. jr.owner = p /\ jr.phase = "preparing" /\ snap[p] = NoJournal
    BY <1>0 DEF LocalInv, OwnInv, Applying
  <2> QED BY <1>0, <2>1, JournalOf
<1>3. CASE \A f \in File : Same(p, f)
  <2>1. want' = [want EXCEPT ![p] = "prepared"] /\ Goto(p, "jStage", 0) /\ UNCHANGED lock
    BY <1>3 DEF Stage
  <2>2. Moved(p) /\ pc'[p] = "jStage" /\ cur'[p] = 0
    BY <1>0, <2>1, GotoStep, ConcurrencyAssumption DEF Label
  <2>3. want'[p] = "prepared" /\ \A q \in Proc \ {p} : want'[q] = want[q]
    BY <1>0, <2>1 DEF TypeOK
  <2>4. TypeOK'
    BY <1>0, <1>1, <2>1, <2>2 DEF TypeOK, Moved
  <2>5. GlobalInv'
    BY <1>0, <2>2, <2>3, SameDisk DEF Moved, Early, Writing
  <2>6. LocalInv(p)'
    BY <1>0, <1>2, <2>2, <2>3, ConcurrencyAssumption
    DEF LocalInv, OwnInv, WriteInv, FileInv, Applying, Writing
  <2> QED BY <1>0, <2>2, <2>4, <2>5, <2>6, HolderStep
<1>4. CASE ~ \A f \in File : Same(p, f)
  <2>1. Raise(p) /\ UNCHANGED want
    BY <1>4 DEF Stage
  <2>2. Moved(p) /\ GlobalInv' /\ LocalInv(p)'
    BY <1>0, <2>1, RaiseStep DEF InApply
  <2>3. TypeOK'
    BY <1>0, <1>1, <2>1, <2>2 DEF TypeOK, Moved
  <2> QED BY <1>0, <2>2, <2>3, HolderStep
<1> QED BY <1>3, <1>4

\* Linking a tombstone keeps the invariant.
LEMMA LinkStep == ASSUME IInv, NEW p \in Proc, Link(p) PROVE IInv'
<1>0. /\ TypeOK /\ LocalInv(p) /\ pc[p] = "link" /\ pc[p] \in Holding /\ cur[p] \in File
      /\ UNCHANGED <<dest, new, jr, pending, want, seen, snap, failed, faults, subject, commits>>
  BY DEF IInv, Link, Holding, Label, Resting, hist, LocalInv, FileInv
<1>1. CASE Same(p, cur[p]) /\ tomb[p][cur[p]] = "ph"
  <2>1. /\ tomb' = [tomb EXCEPT ![p][cur[p]] = dest[cur[p]]]
        /\ Goto(p, "swap", cur[p]) /\ UNCHANGED lock
    BY <1>1 DEF Link
  <2>2. Moved(p) /\ pc'[p] = "swap" /\ cur'[p] = cur[p]
    <3>1. "swap" \in Label /\ cur[p] \in 0..(N + 1)
      BY <1>0 DEF Label, TypeOK
    <3> QED BY <1>0, <2>1, <3>1, GotoStep
  <2>3. tomb' \in [Proc -> [File -> Version \cup {"none", "ph"}]]
    BY <1>0, <2>1 DEF TypeOK, Contents
  <2>4. TypeOK'
    BY <1>0, <2>2, <2>3 DEF TypeOK, Moved
  <2>5. GlobalInv'
    BY <1>0, <2>2, SameDisk DEF Moved, Early, Writing
  <2>6. LocalInv(p)'
    BY <1>0, <2>2 DEF LocalInv, OwnInv, WriteInv, FileInv, Applying, Writing
  <2> QED BY <1>0, <2>2, <2>4, <2>5, <2>6, HolderStep
<1>2. CASE ~(Same(p, cur[p]) /\ tomb[p][cur[p]] = "ph")
  <2>1. Raise(p) /\ UNCHANGED tomb
    BY <1>2 DEF Link
  <2>2. Moved(p) /\ GlobalInv' /\ LocalInv(p)'
    BY <1>0, <2>1, RaiseStep DEF InApply
  <2>3. TypeOK'
    BY <1>0, <2>1, <2>2 DEF TypeOK, Moved
  <2> QED BY <1>0, <2>2, <2>3, HolderStep
<1> QED BY <1>1, <1>2

\* Replacing one file keeps the invariant: those after it are untouched.
LEMMA SwapStep == ASSUME IInv, NEW p \in Proc, Swap(p) PROVE IInv'
<1>0. /\ TypeOK /\ LocalInv(p) /\ GlobalInv /\ pc[p] = "swap" /\ pc[p] \in Holding
      /\ cur[p] \in File
      /\ UNCHANGED <<tomb, jr, pending, want, seen, snap, failed, faults, subject, commits>>
  BY DEF IInv, Swap, Holding, Label, Resting, hist, LocalInv, FileInv
<1>1. /\ jr.owner = p /\ jr.phase = "prepared" /\ snap[p] = NoJournal
      /\ \A f \in File : f > cur[p] => dest[f] = seen[p][f]
  <2>1. jr.owner = p /\ jr.phase = "prepared" /\ snap[p] = NoJournal
    BY <1>0 DEF LocalInv, OwnInv, Applying
  <2> QED BY <1>0, <2>1 DEF LocalInv, FileInv
<1>2. CASE cur[p] \in new[p] /\ Same(p, cur[p]) /\ tomb[p][cur[p]] = dest[cur[p]]
  <2>1. /\ dest' = [dest EXCEPT ![cur[p]] = p] /\ new' = [new EXCEPT ![p] = @ \ {cur[p]}]
        /\ UNCHANGED lock
        /\ \/ cur[p] < N /\ Goto(p, "link", cur[p] + 1)
           \/ ~(cur[p] < N) /\ Goto(p, "final", N)
    BY <1>2 DEF Swap
  <2>2. /\ Moved(p)
        /\ \/ cur[p] < N /\ pc'[p] = "link" /\ cur'[p] = cur[p] + 1
           \/ pc'[p] = "final" /\ cur'[p] = N
    <3>1. {"link", "final"} \subseteq Label /\ N \in 0..(N + 1)
      BY ConcurrencyAssumption DEF Label
    <3>2. cur[p] < N => cur[p] + 1 \in 0..(N + 1)
      BY <1>0, ConcurrencyAssumption DEF File
    <3> QED BY <1>0, <2>1, <3>1, <3>2, GotoStep
  <2>3. /\ dest' \in Contents /\ new' \in [Proc -> SUBSET File]
        /\ dest'[cur[p]] = p /\ \A f \in File \ {cur[p]} : dest'[f] = dest[f]
    <3>1. new' \in [Proc -> SUBSET File] BY <1>0, <2>1 DEF TypeOK
    <3>2. dest' \in Contents BY <1>0, <2>1 DEF TypeOK, Contents, Version
    <3>3. dest'[cur[p]] = p /\ \A f \in File \ {cur[p]} : dest'[f] = dest[f]
      BY <1>0, <2>1 DEF TypeOK, Contents
    <3> QED BY <3>1, <3>2, <3>3
  <2>4. TypeOK'
    BY <1>0, <2>2, <2>3 DEF TypeOK, Moved
  <2>5. EarlyInv'
    <3>1. ~Early(p)' BY <1>0, <2>2 DEF Early, Writing
    <3>2. \A q \in Proc \ {p} : Early(q)' => Early(q)
      BY <1>0, <2>2 DEF Early, Moved
    <3>3. ASSUME NEW q \in Proc \ {p}, Early(q), NEW f \in File PROVE dest'[f] # q
      BY <1>0, <2>3, <3>3 DEF GlobalInv, EarlyInv
    <3> QED BY <1>0, <3>1, <3>2, <3>3 DEF GlobalInv, EarlyInv
  <2>6. SeenInv' /\ NoLostUpdate'
    BY <1>0 DEF GlobalInv, SeenInv, NoLostUpdate
  <2>7. JournalInv'
    BY <1>0, <1>1 DEF GlobalInv, JournalInv
  <2>8. HistoryInv'
    BY <1>0, <1>1 DEF GlobalInv, HistoryInv, Settled, Origins
  <2>9. OwnInv(p)' /\ WriteInv(p)'
    BY <1>0, <1>1, <2>2 DEF OwnInv, WriteInv, Applying, Writing
  <2>10. FileInv(p)'
    <3>1. pc'[p] = "link" => cur'[p] \in File
      BY <1>0, <2>2, ConcurrencyAssumption DEF File
    <3>2. \A f \in File : f > cur[p] + 1 => dest'[f] = seen[p][f]
      <4> SUFFICES ASSUME NEW f \in File, f > cur[p] + 1 PROVE dest'[f] = seen[p][f]
        OBVIOUS
      <4>1. f > cur[p] /\ f # cur[p]
        BY <1>0, ConcurrencyAssumption DEF File
      <4> QED BY <1>1, <2>3, <4>1
    <3> QED BY <1>0, <1>1, <2>2, <3>1, <3>2 DEF FileInv, Writing
  <2> QED BY <1>0, <2>2, <2>4, <2>5, <2>6, <2>7, <2>8, <2>9, <2>10, HolderStep DEF GlobalInv, LocalInv
<1>3. CASE ~(cur[p] \in new[p] /\ Same(p, cur[p]) /\ tomb[p][cur[p]] = dest[cur[p]])
  <2>1. Raise(p) /\ UNCHANGED <<dest, new>>
    BY <1>3 DEF Swap
  <2>2. Moved(p) /\ GlobalInv' /\ LocalInv(p)'
    BY <1>0, <2>1, RaiseStep DEF InApply
  <2>3. TypeOK'
    BY <1>0, <2>1, <2>2 DEF TypeOK, Moved
  <2> QED BY <1>0, <2>2, <2>3, HolderStep
<1> QED BY <1>2, <1>3

\* The final check keeps the invariant: all files are new.
LEMMA FinalStep == ASSUME IInv, NEW p \in Proc, Final(p) PROVE IInv'
<1>0. /\ TypeOK /\ LocalInv(p) /\ pc[p] = "final" /\ pc[p] \in Holding
      /\ UNCHANGED <<dest, new, tomb, jr, pending, seen, snap, failed, faults, subject, commits>>
  BY DEF IInv, Final, Holding, Label, Resting, hist, disk
<1>1. jr = [owner |-> p, phase |-> "prepared"] /\ snap[p] = NoJournal
  <2>1. jr.owner = p /\ jr.phase = "prepared" /\ snap[p] = NoJournal
    BY <1>0 DEF LocalInv, OwnInv, Applying
  <2> QED BY <1>0, <2>1, JournalOf
<1>2. CASE \A f \in File : dest[f] = p
  <2>1. want' = [want EXCEPT ![p] = "committed"] /\ Goto(p, "jStage", N) /\ UNCHANGED lock
    BY <1>2 DEF Final
  <2>2. Moved(p) /\ pc'[p] = "jStage" /\ cur'[p] = N
    BY <1>0, <2>1, GotoStep, ConcurrencyAssumption DEF Label
  <2>3. want'[p] = "committed" /\ \A q \in Proc \ {p} : want'[q] = want[q]
    BY <1>0, <2>1 DEF TypeOK
  <2>4. TypeOK'
    BY <1>0, <2>1, <2>2 DEF TypeOK, Moved
  <2>5. GlobalInv'
    BY <1>0, <2>2, <2>3, SameDisk DEF Moved, Early, Writing
  <2>6. dest = All(p)
    BY <1>0, <1>2 DEF TypeOK, Contents, All
  <2>7. LocalInv(p)'
    BY <1>0, <1>1, <2>2, <2>3, <2>6, ConcurrencyAssumption
    DEF LocalInv, OwnInv, WriteInv, FileInv, Applying, Writing, All
  <2> QED BY <1>0, <2>2, <2>4, <2>5, <2>7, HolderStep
<1>3. CASE ~ \A f \in File : dest[f] = p
  <2>1. Raise(p) /\ UNCHANGED want
    BY <1>3 DEF Final
  <2>2. Moved(p) /\ GlobalInv' /\ LocalInv(p)'
    BY <1>0, <2>1, RaiseStep DEF InApply
  <2>3. TypeOK'
    BY <1>0, <2>1, <2>2 DEF TypeOK, Moved
  <2> QED BY <1>0, <2>2, <2>3, HolderStep
<1> QED BY <1>2, <1>3

\* Removing tombstones after the commit keeps the invariant.
LEMMA DoneTombstonesStep == ASSUME IInv, NEW p \in Proc, DoneTombstones(p) PROVE IInv'
<1>0. /\ TypeOK /\ LocalInv(p) /\ pc[p] = "tombs" /\ pc[p] \in Holding
      /\ UNCHANGED <<dest, new, jr, pending, want, seen, snap, failed, faults, subject, commits>>
  BY DEF IInv, DoneTombstones, Holding, Label, Resting, hist
<1>1. jr.owner = p /\ jr # NoJournal /\ jr.phase = "committed" /\ snap[p] = NoJournal
  BY <1>0, JournalOf DEF LocalInv, OwnInv, Applying
<1>2. tomb' \in [Proc -> [File -> Version \cup {"none", "ph"}]]
  <2>1. tomb' = [tomb EXCEPT ![p] = [f \in File |-> IF @[f] = seen[p][f] THEN "none" ELSE @[f]]]
    BY DEF DoneTombstones
  <2> QED BY <1>0, <2>1 DEF TypeOK
<1>3. Moved(p) /\ pc'[p] \in {"clean", "done"}
  <2>1. (Goto(p, "clean", 1) /\ UNCHANGED lock) \/ Leave(p)
    BY DEF DoneTombstones
  <2>2. "clean" \in Label /\ 1 \in 0..(N + 1)
    BY ConcurrencyAssumption DEF Label
  <2> QED BY <1>0, <2>1, <2>2, GotoStep, LeaveStep
<1>4. TypeOK'
  BY <1>0, <1>2, <1>3 DEF TypeOK, Moved
<1>5. GlobalInv'
  BY <1>0, <1>1, <1>3, SameDisk DEF Moved, Early, Writing
<1>6. LocalInv(p)'
  BY <1>0, <1>1, <1>3 DEF LocalInv, OwnInv, WriteInv, FileInv, Applying, Writing, Target
<1> QED BY <1>0, <1>3, <1>4, <1>5, <1>6, HolderStep

\* The except clause keeps the invariant.
LEMMA HandlerStep == ASSUME IInv, NEW p \in Proc, Handler(p) PROVE IInv'
<1>0. /\ TypeOK /\ LocalInv(p) /\ pc[p] = "handler" /\ pc[p] \in Holding
      /\ UNCHANGED <<dest, new, tomb, jr, pending, want, seen, snap, failed, faults, subject, commits>>
  BY DEF IInv, Handler, Holding, Label, Resting, hist, disk
<1>1. jr.owner = p /\ jr # NoJournal /\ snap[p] = NoJournal
  BY <1>0, JournalOf DEF LocalInv, OwnInv, Applying
<1>2. /\ Moved(p)
      /\ \/ pc'[p] = "rollback" /\ cur'[p] = cur[p] /\ jr.phase = "prepared"
         \/ pc'[p] = "clean" /\ jr.phase = "preparing"
         \/ pc'[p] = "done"
  <2>1. \/ Goto(p, "rollback", cur[p]) /\ UNCHANGED lock /\ jr.phase = "prepared"
        \/ Goto(p, "clean", 1) /\ UNCHANGED lock /\ jr.phase = "preparing"
        \/ Leave(p)
    BY DEF Handler
  <2>2. {"rollback", "clean"} \subseteq Label /\ {1, cur[p]} \subseteq 0..(N + 1)
    BY <1>0, ConcurrencyAssumption DEF Label, TypeOK
  <2> QED BY <1>0, <2>1, <2>2, GotoStep, LeaveStep
<1>3. TypeOK'
  BY <1>0, <1>2 DEF TypeOK, Moved
<1>4. GlobalInv'
  BY <1>0, <1>1, <1>2, SameDisk DEF Moved, Early, Writing
<1>5. LocalInv(p)'
  BY <1>0, <1>1, <1>2 DEF LocalInv, OwnInv, WriteInv, FileInv, Applying, Writing, Target
<1> QED BY <1>0, <1>2, <1>3, <1>4, <1>5, HolderStep

\* Rolling one file back keeps the invariant; one that cannot be is remembered.
LEMMA RollbackStep == ASSUME IInv, NEW p \in Proc, Rollback(p) PROVE IInv'
<1>0. /\ TypeOK /\ LocalInv(p) /\ GlobalInv /\ pc[p] = "rollback" /\ pc[p] \in Holding
      /\ UNCHANGED <<new, jr, pending, want, seen, snap, faults, subject, commits>>
  BY DEF IInv, Rollback, Holding, Label, Resting, hist
<1>1. /\ jr.owner = p /\ jr # NoJournal /\ jr.phase = "prepared" /\ snap[p] = NoJournal
      /\ seen[p] \in Contents /\ cur[p] <= N
      /\ ~failed[p] => \A f \in File : f > cur[p] => dest[f] = seen[p][f]
  <2>1. jr.owner = p /\ jr.phase = "prepared" /\ snap[p] = NoJournal
    BY <1>0 DEF LocalInv, OwnInv, Applying
  <2>2. jr # NoJournal
    BY <1>0, <2>1, JournalOf
  <2>3. seen[p] \in Contents
    BY <1>0, <2>1, <2>2 DEF GlobalInv, JournalInv
  <2> QED BY <1>0, <2>1, <2>2, <2>3 DEF LocalInv, FileInv
<1>2. CASE cur[p] = 0
  <2>1. /\ UNCHANGED <<dest, tomb, failed>>
        /\ \/ failed[p] /\ Leave(p)
           \/ ~failed[p] /\ Goto(p, "clean", 1) /\ UNCHANGED lock
    BY <1>2 DEF Rollback
  <2>2. Moved(p) /\ (pc'[p] = "done" \/ (~failed[p] /\ pc'[p] = "clean"))
    BY <1>0, <2>1, GotoStep, LeaveStep, ConcurrencyAssumption DEF Label
  <2>3. TypeOK'
    BY <1>0, <2>1, <2>2 DEF TypeOK, Moved
  <2>4. GlobalInv'
    BY <1>0, <1>1, <2>1, <2>2, SameDisk DEF Moved, Early, Writing
  <2>5. ~failed[p] => dest = seen[p]
    BY <1>0, <1>1, <1>2, SameContents, ConcurrencyAssumption DEF File
  <2>6. LocalInv(p)'
    BY <1>0, <1>1, <2>1, <2>2, <2>5 DEF LocalInv, OwnInv, WriteInv, FileInv, Applying, Writing, Target
  <2> QED BY <1>0, <2>2, <2>3, <2>4, <2>6, HolderStep
<1>3. CASE cur[p] # 0
  <2>1. cur[p] \in File
    BY <1>0, <1>1, <1>3, ConcurrencyAssumption DEF TypeOK, File
  <2>2. Goto(p, "rollback", cur[p] - 1) /\ UNCHANGED lock
    BY <1>3 DEF Rollback
  <2>3. Moved(p) /\ pc'[p] = "rollback" /\ cur'[p] = cur[p] - 1 /\ cur[p] - 1 <= N
    <3>1. cur[p] - 1 \in 0..(N + 1) /\ "rollback" \in Label /\ cur[p] - 1 <= N
      BY <2>1, ConcurrencyAssumption DEF Label, File
    <3> QED BY <1>0, <2>2, <3>1, GotoStep
  <2>4. OwnInv(p)' /\ WriteInv(p)'
    BY <1>0, <1>1, <2>3 DEF OwnInv, WriteInv, Applying, Writing
  <2>5. CASE Restorable(p, cur[p])
    <3>1. RestoreFile(p, cur[p]) /\ UNCHANGED failed
      BY <1>3, <2>5 DEF Rollback
    <3>2. Early(p)' => Early(p)
      BY <2>3 DEF Early, Writing
    <3>3. /\ dest' \in Contents /\ tomb' \in [Proc -> [File -> Version \cup {"none", "ph"}]]
          /\ dest'[cur[p]] = seen[p][cur[p]]
          /\ \A g \in File \ {cur[p]} : dest'[g] = dest[g]
          /\ GlobalInv'
      BY <1>0, <1>1, <2>1, <2>3, <3>1, <3>2, RestoreFileStep DEF Moved
    <3>4. TypeOK'
      BY <1>0, <2>3, <3>1, <3>3 DEF TypeOK, Moved
    <3>5. ~failed[p] => \A f \in File : f > cur[p] - 1 => dest'[f] = seen[p][f]
      BY <1>1, <2>1, <3>3 DEF File
    <3>6. FileInv(p)'
      BY <1>0, <1>1, <2>3, <3>1, <3>5 DEF FileInv, Writing
    <3> QED BY <1>0, <2>3, <2>4, <3>3, <3>4, <3>6, HolderStep DEF LocalInv
  <2>6. CASE ~Restorable(p, cur[p])
    <3>1. failed' = [failed EXCEPT ![p] = TRUE] /\ UNCHANGED <<dest, tomb>>
      BY <1>3, <2>6 DEF Rollback
    <3>2. failed'[p] /\ failed' \in [Proc -> BOOLEAN]
      BY <1>0, <3>1 DEF TypeOK
    <3>3. TypeOK'
      BY <1>0, <2>3, <3>1, <3>2 DEF TypeOK, Moved
    <3>4. GlobalInv'
      BY <1>0, <2>3, <3>1, SameDisk DEF Moved, Early, Writing
    <3>5. FileInv(p)'
      BY <2>3, <3>2 DEF FileInv, Writing
    <3> QED BY <1>0, <2>3, <2>4, <3>3, <3>4, <3>5, HolderStep DEF LocalInv
  <2> QED BY <2>5, <2>6
<1> QED BY <1>2, <1>3

\* A raising call keeps the invariant.
LEMMA FailStep == ASSUME IInv, NEW p \in Proc, Fail(p) PROVE IInv'
<1>0. /\ TypeOK /\ pc[p] \in InApply /\ pc[p] \in Holding /\ Raise(p) /\ pending' \in BOOLEAN
      /\ UNCHANGED <<dest, new, tomb, jr, want, seen, snap, failed, subject, commits>>
  BY DEF IInv, Fail, InApply, Holding, Label, Resting, hist
<1>1. faults' \in 0..MaxFaults
  BY <1>0, ConcurrencyAssumption DEF Fail, TypeOK
<1>2. Moved(p) /\ GlobalInv' /\ LocalInv(p)'
  BY <1>0, RaiseStep
<1>3. TypeOK'
  BY <1>0, <1>1, <1>2 DEF TypeOK, Moved
<1> QED BY <1>0, <1>2, <1>3, HolderStep

\* The death of a process keeps the invariant.
LEMMA CrashStep == ASSUME IInv, NEW p \in Proc, Crash(p) PROVE IInv'
<1>0. /\ TypeOK /\ Leave(p)
      /\ UNCHANGED <<dest, new, tomb, jr, pending, want, seen, snap, failed, subject, commits>>
  BY DEF IInv, Crash, hist, disk
<1>1. faults' \in 0..MaxFaults
  BY <1>0, ConcurrencyAssumption DEF Crash, TypeOK
<1>2. Moved(p) /\ pc'[p] = "done"
  BY <1>0, LeaveStep
<1>3. TypeOK'
  BY <1>0, <1>1, <1>2 DEF TypeOK, Moved
<1>4. GlobalInv'
  BY <1>0, <1>2, SameDisk DEF Moved, Early, Writing
<1>5. pc'[p] \notin Holding /\ \A q \in Proc \ {p} : lock = q => lock' = q
  BY <1>0, <1>2 DEF Holding, Resting, Leave, Release
<1> QED BY <1>0, <1>2, <1>3, <1>4, <1>5, RestingStep DEF Moved

--------------------------------------------------------------------------------
(* The theorems                                                             *)

\* The invariant holds at first.
LEMMA InitInv == Init => IInv
<1> SUFFICES ASSUME Init PROVE IInv
  OBVIOUS
<1>1. /\ 0 \in 0..(N + 1) /\ 0 \in 0..MaxFaults /\ "base" \in Version /\ 1 \in File
      /\ "nobody" \notin Proc /\ "free" \notin Proc /\ "base" \notin Proc /\ "none" \notin Proc
  BY ConcurrencyAssumption DEF Version, File
<1>2. TypeOK
  BY <1>1 DEF Init, TypeOK, Contents, Label
<1>3. LockInv
  BY DEF Init, LockInv, Holding, Resting
<1>4. EarlyInv
  <2>1. \A p \in Proc : p \notin commits /\ jr.owner # p
    BY <1>1 DEF Init, NoJournal
  <2>2. \A p \in Proc : \A f \in File : dest[f] # p
    BY <1>1 DEF Init
  <2>3. \A p, q \in Proc : \A f \in File : seen[q][f] # p
    BY <1>1 DEF Init, NoPlan
  <2> QED BY <2>1, <2>2, <2>3 DEF EarlyInv
<1>5. SeenInv
  BY <1>1 DEF Init, SeenInv, NoPlan
<1>6. JournalInv /\ NoLostUpdate
  BY DEF Init, JournalInv, NoLostUpdate
<1>7. HistoryInv
  BY DEF Init, HistoryInv, Settled, NoJournal, Origins, All
<1>8. \A p \in Proc : LocalInv(p)
  BY DEF Init, LocalInv, OwnInv, WriteInv, FileInv, Applying, Writing
<1> QED BY <1>2, <1>3, <1>4, <1>5, <1>6, <1>7, <1>8 DEF IInv, GlobalInv

\* Every step keeps the invariant.
LEMMA NextInv == ASSUME Unlocked = {}, IInv, [Next]_vars PROVE IInv'
<1>1. ASSUME NEW p \in Proc, Step(p) PROVE IInv'
  BY <1>1, StartStep, PlanStep, AcquireStep, ReadJournalStep, RestoreStep, CleanStep, DropStep,
     CheckStep, JournalStageStep, JournalSwapStep, StageStep, LinkStep, SwapStep, FinalStep,
     DoneTombstonesStep, HandlerStep, RollbackStep DEF Step
<1>2. CASE UNCHANGED vars
  BY <1>2 DEF vars, disk, mem, hist, IInv, TypeOK, LockInv, GlobalInv, EarlyInv, Early, SeenInv,
     JournalInv, HistoryInv, Settled, Origins, NoLostUpdate, LocalInv, OwnInv, Target, WriteInv, FileInv
<1> QED BY <1>1, <1>2, FailStep, CrashStep DEF Next

\* If every process takes the lock, the inductive invariant holds, and with it TypeOK.
THEOREM Invariant == ASSUME Unlocked = {} PROVE Spec => []IInv
<1>1. Init => IInv BY InitInv
<1>2. IInv /\ [Next]_vars => IInv' BY NextInv
<1> QED BY <1>1, <1>2, PTL DEF Spec

\* If every process takes the lock, every variable keeps its type.
THEOREM Typed == ASSUME Unlocked = {} PROVE Spec => []TypeOK
<1>1. IInv => TypeOK BY DEF IInv
<1> QED BY <1>1, Invariant, PTL

\* If every process takes the lock, who publishes or rolls back holds it and finds
\* his own journal (configure_orchestration.py:2051).
THEOREM Exclusive == ASSUME Unlocked = {} PROVE Spec => []OwnJournal
<1>1. IInv => OwnJournal
  <2> SUFFICES ASSUME IInv, NEW p \in Proc, pc[p] \in {"link", "swap", "final", "rollback"}
               PROVE  lock = p /\ jr = [owner |-> p, phase |-> "prepared"]
    BY DEF OwnJournal
  <2>1. lock = p
    BY DEF IInv, LockInv, Holding, Label, Resting
  <2>2. jr.owner = p /\ jr.phase = "prepared"
    BY DEF IInv, LocalInv, OwnInv, Applying
  <2> QED BY <2>1, <2>2, JournalOf DEF IInv
<1> QED BY <1>1, Invariant, PTL

\* If every process takes the lock, the files are of one version whenever no journal
\* is left, whoever crashed (configure_orchestration.py:2507).
THEOREM Agreement == ASSUME Unlocked = {} PROVE Spec => []FilesAgree
<1>1. IInv => FilesAgree
  <2> SUFFICES ASSUME IInv, jr = NoJournal, NEW f \in File, NEW g \in File
               PROVE  dest[f] = dest[g]
    BY DEF FilesAgree
  <2>1. dest \in Origins
    BY DEF IInv, GlobalInv, HistoryInv, Settled, NoJournal
  <2> QED BY <2>1 DEF Origins, All
<1> QED BY <1>1, Invariant, PTL

\* If every process takes the lock, no committed update is computed from contents
\* another committed update was computed from (configure_orchestration.py:2796).
THEOREM NoneLost == ASSUME Unlocked = {} PROVE Spec => []NoLostUpdate
<1>1. IInv => NoLostUpdate BY DEF IInv, GlobalInv
<1> QED BY <1>1, Invariant, PTL

--------------------------------------------------------------------------------
(* Refinement                                                               *)

\* Contents without a file of the process in hand are old.
LEMMA OldView ==
  ASSUME \A f \in File : dest[f] # subject PROVE View = Abstract!All("old")
BY DEF View, Abstract!All

\* Contents all of the process in hand are new.
LEMMA NewView ==
  ASSUME \A f \in File : dest[f] = subject PROVE View = Abstract!All("new")
BY DEF View, Abstract!All

\* Publishing a journal opens or decides the abstract update, or is a stutter.
LEMMA SwapRefines ==
  ASSUME IInv, NEW p \in Proc, JournalSwap(p)
  PROVE  Abstract!Next \/ UNCHANGED <<Status, View>>
<1>0. TypeOK /\ GlobalInv /\ LocalInv(p) /\ pc[p] = "jSwap" /\ UNCHANGED <<dest, subject, want>>
  BY DEF IInv, JournalSwap
<1>1. View' = View
  BY <1>0 DEF View
<1>2. CASE ~pending
  BY <1>1, <1>2 DEF JournalSwap, Status
<1>3. CASE pending
  <2>1. jr' = [owner |-> p, phase |-> want[p]]
    BY <1>3 DEF JournalSwap
  <2>2. \A f \in File : seen[p][f] # p
    BY <1>0 DEF GlobalInv, SeenInv
  <2>3. CASE want[p] = "preparing"
    <3>1. jr = NoJournal /\ dest = seen[p] /\ subject = p
      BY <1>0, <2>3 DEF LocalInv, WriteInv, Writing
    <3>2. Status = "rest" /\ Status' = "open" /\ View = Abstract!All("old")
      BY <2>1, <2>2, <2>3, <3>1, OldView DEF Status, NoJournal
    <3> QED BY <1>1, <3>2 DEF Abstract!Next, Abstract!Open
  <2>4. CASE want[p] = "prepared"
    <3>1. jr.phase = "preparing"
      BY <1>0, <2>4 DEF LocalInv, WriteInv, Writing
    <3> QED BY <1>1, <2>1, <2>4, <3>1 DEF Status
  <2>5. CASE want[p] = "committed"
    <3>1. jr = [owner |-> p, phase |-> "prepared"] /\ dest = All(p)
      BY <1>0, <2>5 DEF LocalInv, WriteInv, Writing
    <3>2. subject = p
      BY <1>0, <3>1, ConcurrencyAssumption DEF GlobalInv, JournalInv, NoJournal
    <3>3. Status = "open" /\ Status' = "decided" /\ View = Abstract!All("new")
      BY <2>1, <2>5, <3>1, <3>2, NewView DEF Status, All
    <3> QED BY <1>1, <3>3 DEF Abstract!Next, Abstract!Decide
  <2> QED BY <1>0, <2>3, <2>4, <2>5 DEF TypeOK, LocalInv, WriteInv, Writing
<1> QED BY <1>2, <1>3

\* Removing the journal closes the abstract update.
LEMMA DropRefines ==
  ASSUME IInv, NEW p \in Proc, Drop(p) PROVE Abstract!Next
<1>0. TypeOK /\ GlobalInv /\ LocalInv(p) /\ pc[p] = "drop" /\ UNCHANGED <<dest, subject>>
  BY DEF IInv, Drop, hist
<1>1. View' = View /\ Status' = "rest"
  BY <1>0 DEF View, Drop, Status, NoJournal
<1>2. jr # NoJournal /\ (jr.phase = "prepared" => dest = seen[jr.owner])
  BY <1>0 DEF LocalInv, OwnInv
<1>3. /\ jr.owner \in Proc /\ subject = jr.owner
      /\ jr.phase \in {"preparing", "prepared"} => dest = seen[jr.owner]
      /\ jr.phase = "committed" => dest = All(jr.owner)
      /\ jr.phase \in {"preparing", "prepared", "committed"}
  BY <1>0, <1>2, JournalOf DEF GlobalInv, JournalInv
<1>4. CASE jr.phase \in {"preparing", "prepared"}
  <2>1. Status = "open" /\ View = Abstract!All("old")
    BY <1>0, <1>3, <1>4, OldView DEF Status, GlobalInv, SeenInv
  <2> QED BY <1>1, <2>1 DEF Abstract!Next, Abstract!Close
<1>5. CASE jr.phase = "committed"
  <2>1. Status = "decided" /\ View = Abstract!All("new")
    BY <1>3, <1>5, NewView DEF Status, All
  <2> QED BY <1>1, <2>1 DEF Abstract!Next, Abstract!Close
<1> QED BY <1>3, <1>4, <1>5

\* A new process in hand is a new abstract proposal.
LEMMA CheckRefines ==
  ASSUME IInv, NEW p \in Proc, Check(p)
  PROVE  Abstract!Next \/ UNCHANGED <<Status, View>>
<1>1. UNCHANGED <<dest, jr>> /\ jr = NoJournal /\ (subject' = p \/ UNCHANGED subject)
  BY DEF Check, disk, IInv, LocalInv, OwnInv
<1>2. Status = "rest" /\ Status' = Status
  BY <1>1 DEF Status, NoJournal
<1>3. CASE subject' = p
  <2>1. \A f \in File : dest[f] # p
    BY DEF Check, IInv, GlobalInv, EarlyInv, Early
  <2>2. View' = Abstract!All("old")
    BY <1>1, <1>3, <2>1 DEF View, Abstract!All
  <2> QED BY <1>2, <2>2 DEF Abstract!Next, Abstract!Propose
<1>4. CASE UNCHANGED subject
  BY <1>1, <1>2, <1>4 DEF View
<1> QED BY <1>1, <1>3, <1>4

\* While the journal says prepared, the files may change.
LEMMA WriteRefines ==
  ASSUME jr.phase = "prepared", UNCHANGED jr PROVE Abstract!Next
<1>1. Status = "open" /\ Status' = Status
  BY DEF Status
<1>2. View' \in [File -> {"old", "new"}]
  BY DEF View
<1> QED BY <1>1, <1>2 DEF Abstract!Next, Abstract!Write

\* Every step is one of the abstract specification, or a stutter.
LEMMA NextRefines ==
  ASSUME IInv, [Next]_vars PROVE Abstract!Next \/ UNCHANGED <<Status, View>>
<1>1. ASSUME UNCHANGED <<dest, jr, subject>> PROVE UNCHANGED <<Status, View>>
  BY <1>1 DEF Status, View
<1>2. ASSUME NEW p \in Proc, Step(p) PROVE Abstract!Next \/ UNCHANGED <<Status, View>>
  <2>0. LocalInv(p) BY DEF IInv
  <2>1. CASE JournalSwap(p) BY <2>1, SwapRefines
  <2>2. CASE Drop(p) BY <2>2, DropRefines
  <2>3. CASE Check(p) BY <2>3, CheckRefines
  <2>4. CASE Restore(p)
    BY <2>0, <2>4, WriteRefines DEF Restore, LocalInv, OwnInv
  <2>5. CASE Swap(p)
    BY <2>0, <2>5, WriteRefines DEF Swap, LocalInv, OwnInv
  <2>6. CASE Rollback(p)
    BY <2>0, <2>6, WriteRefines DEF Rollback, LocalInv, OwnInv
  <2>7. CASE Start(p) \/ Plan(p) \/ Acquire(p) \/ ReadJournal(p) \/ Clean(p)
    BY <1>1, <2>7 DEF Start, Plan, Acquire, ReadJournal, Clean, disk, hist
  <2>8. CASE JournalStage(p) \/ Stage(p) \/ Link(p) \/ Final(p) \/ DoneTombstones(p) \/ Handler(p)
    BY <1>1, <2>8 DEF JournalStage, Stage, Link, Final, DoneTombstones, Handler, disk, hist
  <2> QED BY <1>2, <2>1, <2>2, <2>3, <2>4, <2>5, <2>6, <2>7, <2>8 DEF Step
<1>3. ASSUME NEW p \in Proc, Fail(p) \/ Crash(p) PROVE UNCHANGED <<Status, View>>
  BY <1>1, <1>3 DEF Fail, Crash, disk, hist
<1>4. CASE UNCHANGED vars
  BY <1>1, <1>4 DEF vars, disk, hist
<1> QED BY <1>2, <1>3, <1>4 DEF Next

\* If every process takes the lock, all of them together behave like one atomic
\* update after another (configure_orchestration.py:2051, 2507).
THEOREM Refinement == ASSUME Unlocked = {} PROVE Spec => ImplementsAtomicUpdate
<1>1. Init => Abstract!Init
  <2> SUFFICES ASSUME Init PROVE Abstract!Init
    OBVIOUS
  <2>1. \A f \in File : dest[f] # subject
    BY DEF Init
  <2>2. View = Abstract!All("old")
    BY <2>1, OldView
  <2>3. Status = "rest"
    BY DEF Init, Status, NoJournal
  <2> QED BY <2>2, <2>3 DEF Abstract!Init
<1>2. IInv /\ [Next]_vars => [Abstract!Next]_<<Status, View>>
  BY NextRefines
<1> QED BY <1>1, <1>2, Invariant, PTL DEF Spec, ImplementsAtomicUpdate, Abstract!Spec

================================================================================
