------------------------- MODULE FileTransactionProofs -------------------------
(***************************************************************************)
(* Proofs about FileTransaction for any number of files, any interleaving  *)
(* with the user, and any number of crashes, power losses and errors: the  *)
(* types and the control, the commit point, and what the configurator      *)
(* knows it staged.                                                        *)
(***************************************************************************)
EXTENDS FileTransaction, TLAPS

\* The labels at which cur indexes an entry.
EntryLabel == {"recAct", "stage", "register", "source", "pubCheck", "pubDrop",
               "pubLink", "pubLinked", "pubReady", "pubSwap", "pubVerify",
               "pubUnlink", "pubUnlinked", "doneSync", "rbAct", "rbSync"}

IndexInv == pc \in EntryLabel => cur \in Entry

\* Where control is decides which phase the journal on disk is in, and the finally
\* clause removes anything only after an error escaped the except clause.
PreparingLabel == {"stage", "register", "source", "stageSync"}
PreparedLabel  == {"recEntry", "recAct", "pubCheck", "pubDrop", "pubLink", "pubLinked",
                   "pubReady", "pubSwap", "pubVerify", "pubUnlink", "pubUnlinked",
                   "final", "rbEntry", "rbAct", "rbSync"}

Precedes(p, q) == \/ p = "none" /\ q = "preparing"
                  \/ p = "preparing" /\ q = "prepared"
                  \/ p = "prepared" /\ q = "committed"

PhaseInv ==
  /\ pc \in {"plan", "dropSync"} => jr.phase = "none"
  /\ pc \in PreparingLabel => jr.phase = "preparing"
  /\ pc \in PreparedLabel => jr.phase = "prepared"
  /\ pc \in {"jStage", "jSwap"} => Precedes(jr.phase, want)
  /\ pc = "jSync" => jr.phase = want /\ want # "none"
  /\ pc \in {"doneTomb", "doneSync"} => jr.phase = "committed"
  /\ pc = "finally" => Escapes /\ faults > 0

\* The inductive invariant.
IInv == TypeOK /\ IndexInv /\ PhaseInv

\* Rebinding a temporary name leaves the destination alone.
LEMMA NamesUpdate ==
  ASSUME NEW f \in Names, NEW t \in Temp, NEW i \in Inode
  PROVE  [f EXCEPT ![t] = i] \in Names /\ [f EXCEPT ![t] = i].dest = f.dest
<1>1. CASE t = "new" BY <1>1 DEF Names
<1>2. CASE t = "old" BY <1>2 DEF Names
<1>3. CASE t = "tomb" BY <1>3 DEF Names
<1> QED BY <1>1, <1>2, <1>3 DEF Temp

\* Rebinding the names of an entry keeps the types of the directories.
LEMMA SetNamesType ==
  ASSUME DiskTypeOK, NEW e \in Entry, NEW f \in Names, SetNames(e, f)
  PROVE  fs' \in [Entry -> Names] /\ surv' \in [Entry -> SUBSET Names]
BY DEF DiskTypeOK, SetNames

\* When the configurator returns or dies, what is left in memory satisfies the invariant.
LEMMA ExitInv ==
  ASSUME Exit
  PROVE  MemTypeOK' /\ IndexInv' /\ PhaseInv'
<1>1. MemTypeOK'
  <2>1. pc' \in Label /\ mode' \in {"recover", "apply"} /\ op' \in Op /\ want' \in Phase
    BY DEF Exit, Label, Op, Phase
  <2>2. cur' \in 0..(N + 1) /\ tried' \in 0..N
    BY ConstantsAssumption DEF Exit
  <2>3. active' \in BOOLEAN /\ failed' \in BOOLEAN
    BY DEF Exit
  <2>4. owned' \in [Entry -> SUBSET (Temp \cup {"orig"})] /\ resync' \in SUBSET Entry
    BY DEF Exit
  <2> QED BY <2>1, <2>2, <2>3, <2>4 DEF MemTypeOK
<1>2. IndexInv' /\ PhaseInv'
  BY DEF Exit, IndexInv, PhaseInv, EntryLabel, PreparingLabel, PreparedLabel
<1> QED BY <1>1, <1>2

\* So it does when a call raises, wherever that happens.
LEMMA RaiseInv ==
  ASSUME MemTypeOK, Raise
  PROVE  MemTypeOK' /\ IndexInv' /\ PhaseInv'
<1>1. CASE mode = "apply" /\ active
  BY <1>1 DEF Raise, KeepMemory, MemTypeOK, IndexInv, PhaseInv, Label, 
  EntryLabel, PreparingLabel, PreparedLabel
<1>2. CASE ~(mode = "apply" /\ active)
  BY <1>2, ExitInv DEF Raise
<1> QED BY <1>1, <1>2

\* Writing a journal keeps the types of the journal states.
LEMMA SetJournalType ==
  ASSUME DiskTypeOK, NEW j \in Journal, SetJournal(j)
  PROVE  jr' = j /\ jr' \in Journal /\ jsurv' \in SUBSET Journal
BY DEF DiskTypeOK, SetJournal

\* Arithmetic of loop indices, cited wherever a loop moves on.
LEMMA EntryFacts ==
  /\ 1 \in Entry /\ N \in Entry /\ Entry \subseteq 0..N /\ 0..N \subseteq 0..(N + 1)
  /\ \A e \in Entry : e - 1 \in 0..N /\ e + 1 \in 0..(N + 1) /\ (e < N => e + 1 \in Entry)
BY ConstantsAssumption DEF Entry

\* A step that only moves control to label l, entry i.
LEMMA GotoInv ==
  ASSUME MemTypeOK, NEW l \in Label, NEW i \in 0..(N + 1), l \in EntryLabel => i \in Entry,
         Goto(l, i), KeepMemory
  PROVE  MemTypeOK' /\ IndexInv'
BY DEF MemTypeOK, IndexInv, Goto, KeepMemory

\* A step that leaves the disk and the environment alone.
LEMMA QuietTypes ==
  ASSUME IInv, UNCHANGED <<disk, env>>
  PROVE  DiskTypeOK' /\ EnvTypeOK' /\ jr' = jr
BY DEF IInv, TypeOK, DiskTypeOK, EnvTypeOK, disk, env

\* The parts of the invariant, put together.
LEMMA Assemble ==
  ASSUME DiskTypeOK', MemTypeOK', EnvTypeOK', IndexInv', PhaseInv'
  PROVE  IInv'
BY DEF IInv, TypeOK

\* Start keeps the invariant.
LEMMA StartInv == ASSUME IInv, Start PROVE IInv'
BY ConstantsAssumption DEF IInv, TypeOK, DiskTypeOK, MemTypeOK, EnvTypeOK, IndexInv,
  PhaseInv, Label, EntryLabel, PreparingLabel, PreparedLabel, Start, Goto, KeepMemory,
  disk, env

\* RecoverPendingSync keeps the invariant.
LEMMA RecoverPendingSyncInv == ASSUME IInv, RecoverPendingSync PROVE IInv'
BY ConstantsAssumption DEF IInv, TypeOK, DiskTypeOK, MemTypeOK, EnvTypeOK, IndexInv,
  PhaseInv, Label, EntryLabel, PreparingLabel, PreparedLabel, RecoverPendingSync, SyncRoot,
  Goto, KeepMemory, env

\* RecoverSync keeps the invariant.
LEMMA RecoverSyncInv == ASSUME IInv, RecoverSync PROVE IInv'
BY ConstantsAssumption DEF IInv, TypeOK, DiskTypeOK, MemTypeOK, EnvTypeOK, IndexInv,
  PhaseInv, Label, EntryLabel, PreparingLabel, PreparedLabel, RecoverSync, Sync, Goto, env

\* CleanSync keeps the invariant.
LEMMA CleanSyncInv == ASSUME IInv, CleanSync PROVE IInv'
BY ConstantsAssumption DEF IInv, TypeOK, DiskTypeOK, MemTypeOK, EnvTypeOK, IndexInv,
  PhaseInv, Label, EntryLabel, PreparingLabel, PreparedLabel, CleanSync, Sync, Goto, env

\* DropJournalSync keeps the invariant.
LEMMA DropJournalSyncInv == ASSUME IInv, DropJournalSync PROVE IInv'
BY ConstantsAssumption, ExitInv DEF IInv, TypeOK, DiskTypeOK, MemTypeOK, EnvTypeOK,
  IndexInv, PhaseInv, Label, EntryLabel, PreparingLabel, PreparedLabel, DropJournalSync,
  SyncRoot, Goto, KeepMemory, env

\* PlanNothing keeps the invariant.
LEMMA PlanNothingInv == ASSUME IInv, PlanNothing PROVE IInv'
BY ConstantsAssumption, ExitInv DEF IInv, TypeOK, DiskTypeOK, MemTypeOK, EnvTypeOK,
  IndexInv, PhaseInv, Label, EntryLabel, PreparingLabel, PreparedLabel, PlanNothing, disk,
  env

\* JournalSync keeps the invariant.
LEMMA JournalSyncInv == ASSUME IInv, JournalSync PROVE IInv'
BY ConstantsAssumption DEF IInv, TypeOK, DiskTypeOK, MemTypeOK, EnvTypeOK, IndexInv,
  PhaseInv, Label, EntryLabel, PreparingLabel, PreparedLabel, JournalSync, SyncRoot, Goto,
  env, Phase, Entry

\* StageSync keeps the invariant.
LEMMA StageSyncInv == ASSUME IInv, StageSync PROVE IInv'
BY ConstantsAssumption DEF IInv, TypeOK, DiskTypeOK, MemTypeOK, EnvTypeOK, IndexInv,
  PhaseInv, Label, EntryLabel, PreparingLabel, PreparedLabel, StageSync, Sync, Goto, env,
  Phase, Precedes

\* PublishReady keeps the invariant.
LEMMA PublishReadyInv == ASSUME IInv, PublishReady PROVE IInv'
BY ConstantsAssumption, RaiseInv DEF IInv, TypeOK, DiskTypeOK, MemTypeOK, EnvTypeOK,
  IndexInv, PhaseInv, Label, EntryLabel, PreparingLabel, PreparedLabel, PublishReady, Goto,
  KeepMemory, disk, env, Entry

\* FinalCheck keeps the invariant.
LEMMA FinalCheckInv == ASSUME IInv, FinalCheck PROVE IInv'
BY ConstantsAssumption, RaiseInv DEF IInv, TypeOK, DiskTypeOK, MemTypeOK, EnvTypeOK,
  IndexInv, PhaseInv, Label, EntryLabel, PreparingLabel, PreparedLabel, FinalCheck, Sync,
  Goto, env, Phase, Precedes

\* DoneSync keeps the invariant.
LEMMA DoneSyncInv == ASSUME IInv, DoneSync PROVE IInv'
BY ConstantsAssumption DEF IInv, TypeOK, DiskTypeOK, MemTypeOK, EnvTypeOK, IndexInv,
  PhaseInv, Label, EntryLabel, PreparingLabel, PreparedLabel, DoneSync, Sync, Goto, env,
  Entry

\* DropOwnedSync keeps the invariant.
LEMMA DropOwnedSyncInv == ASSUME IInv, DropOwnedSync PROVE IInv'
BY ConstantsAssumption DEF IInv, TypeOK, DiskTypeOK, MemTypeOK, EnvTypeOK, IndexInv,
  PhaseInv, Label, EntryLabel, PreparingLabel, PreparedLabel, DropOwnedSync, Sync, Goto,
  env, Entry

\* Handler keeps the invariant.
LEMMA HandlerInv == ASSUME IInv, Handler PROVE IInv'
BY ConstantsAssumption, ExitInv DEF IInv, TypeOK, DiskTypeOK, MemTypeOK, EnvTypeOK,
  IndexInv, PhaseInv, Label, EntryLabel, PreparingLabel, PreparedLabel, Handler, Goto,
  KeepMemory, disk, env, Entry

\* RollbackSync keeps the invariant.
LEMMA RollbackSyncInv == ASSUME IInv, RollbackSync PROVE IInv'
BY ConstantsAssumption DEF IInv, TypeOK, DiskTypeOK, MemTypeOK, EnvTypeOK, IndexInv,
  PhaseInv, Label, EntryLabel, PreparingLabel, PreparedLabel, RollbackSync, Sync, Goto,
  KeepMemory, env, Entry

\* PublishCheck keeps the invariant.
LEMMA PublishCheckInv == ASSUME IInv, PublishCheck PROVE IInv'
BY ConstantsAssumption DEF IInv, TypeOK, DiskTypeOK, MemTypeOK, EnvTypeOK, IndexInv,
  PhaseInv, Label, EntryLabel, PreparingLabel, PreparedLabel, PublishCheck, Goto, disk,
  env, Entry

\* CleanNext keeps the invariant.
LEMMA CleanNextInv == ASSUME IInv, CleanNext PROVE IInv'
<1>1. DiskTypeOK' /\ EnvTypeOK' /\ jr' = jr
  BY QuietTypes DEF CleanNext
<1>2. Goto("clean", cur + 1) /\ KeepMemory
  BY DEF CleanNext
<1>3. "clean" \in Label /\ cur + 1 \in 0..(N + 1) /\ "clean" \notin EntryLabel
  BY EntryFacts DEF Label, EntryLabel, CleanNext
<1>4. MemTypeOK' /\ IndexInv'
  BY <1>2, <1>3, GotoInv DEF IInv, TypeOK
<1>5. PhaseInv'
  BY <1>2 DEF Goto, PhaseInv, PreparingLabel, PreparedLabel
<1> QED BY <1>1, <1>4, <1>5, Assemble

\* RecoverDispatch keeps the invariant.
LEMMA RecoverDispatchInv == ASSUME IInv, RecoverDispatch PROVE IInv'
<1>1. DiskTypeOK' /\ EnvTypeOK' /\ jr' = jr
  BY QuietTypes DEF RecoverDispatch
<1>2. CASE jr.phase = "none"
  <2>1. Goto("plan", 0) /\ KeepMemory
    BY <1>2 DEF RecoverDispatch
  <2>2. "plan" \in Label /\ 0 \in 0..(N + 1) /\ ("plan" \in EntryLabel => 0 \in Entry)
    BY <1>2, EntryFacts DEF Label, EntryLabel, RecoverDispatch, IInv, IndexInv
  <2>3. MemTypeOK' /\ IndexInv'
    BY <2>1, <2>2, GotoInv DEF IInv, TypeOK
  <2>4. PhaseInv'
    BY <1>1, <1>2, <2>1 DEF RecoverDispatch, Goto, KeepMemory, IInv, PhaseInv, PreparingLabel, PreparedLabel
  <2> QED BY <1>1, <2>3, <2>4, Assemble
<1>3. CASE jr.phase = "preparing" /\ (\A e \in Entry : Intact(e))
  <2>1. Goto("clean", 1) /\ KeepMemory
    BY <1>3 DEF RecoverDispatch
  <2>2. "clean" \in Label /\ 1 \in 0..(N + 1) /\ ("clean" \in EntryLabel => 1 \in Entry)
    BY <1>3, EntryFacts DEF Label, EntryLabel, RecoverDispatch, IInv, IndexInv
  <2>3. MemTypeOK' /\ IndexInv'
    BY <2>1, <2>2, GotoInv DEF IInv, TypeOK
  <2>4. PhaseInv'
    BY <1>1, <1>3, <2>1 DEF RecoverDispatch, Goto, KeepMemory, IInv, PhaseInv, PreparingLabel, PreparedLabel
  <2> QED BY <1>1, <2>3, <2>4, Assemble
<1>4. CASE jr.phase = "preparing" /\ ~(\A e \in Entry : Intact(e))
  <2>1. Goto("idle", 0) /\ KeepMemory
    BY <1>4 DEF RecoverDispatch
  <2>2. "idle" \in Label /\ 0 \in 0..(N + 1) /\ ("idle" \in EntryLabel => 0 \in Entry)
    BY <1>4, EntryFacts DEF Label, EntryLabel, RecoverDispatch, IInv, IndexInv
  <2>3. MemTypeOK' /\ IndexInv'
    BY <2>1, <2>2, GotoInv DEF IInv, TypeOK
  <2>4. PhaseInv'
    BY <1>1, <1>4, <2>1 DEF RecoverDispatch, Goto, KeepMemory, IInv, PhaseInv, PreparingLabel, PreparedLabel
  <2> QED BY <1>1, <2>3, <2>4, Assemble
<1>5. CASE jr.phase = "prepared"
  <2>1. Goto("recEntry", N) /\ KeepMemory
    BY <1>5 DEF RecoverDispatch
  <2>2. "recEntry" \in Label /\ N \in 0..(N + 1) /\ ("recEntry" \in EntryLabel => N \in Entry)
    BY <1>5, EntryFacts DEF Label, EntryLabel, RecoverDispatch, IInv, IndexInv
  <2>3. MemTypeOK' /\ IndexInv'
    BY <2>1, <2>2, GotoInv DEF IInv, TypeOK
  <2>4. PhaseInv'
    BY <1>1, <1>5, <2>1 DEF RecoverDispatch, Goto, KeepMemory, IInv, PhaseInv, PreparingLabel, PreparedLabel
  <2> QED BY <1>1, <2>3, <2>4, Assemble
<1>6. CASE jr.phase = "committed"
  <2>1. Goto("clean", 1) /\ KeepMemory
    BY <1>6 DEF RecoverDispatch
  <2>2. "clean" \in Label /\ 1 \in 0..(N + 1) /\ ("clean" \in EntryLabel => 1 \in Entry)
    BY <1>6, EntryFacts DEF Label, EntryLabel, RecoverDispatch, IInv, IndexInv
  <2>3. MemTypeOK' /\ IndexInv'
    BY <2>1, <2>2, GotoInv DEF IInv, TypeOK
  <2>4. PhaseInv'
    BY <1>1, <1>6, <2>1 DEF RecoverDispatch, Goto, KeepMemory, IInv, PhaseInv, PreparingLabel, PreparedLabel
  <2> QED BY <1>1, <2>3, <2>4, Assemble
<1> QED BY <1>2, <1>3, <1>4, <1>5, <1>6 DEF RecoverDispatch, IInv, TypeOK, DiskTypeOK, Journal, Phase

\* CheckSource keeps the invariant.
LEMMA CheckSourceInv == ASSUME IInv, CheckSource PROVE IInv'
<1>1. DiskTypeOK' /\ EnvTypeOK' /\ jr' = jr
  BY QuietTypes DEF CheckSource
<1>2. CASE Existed(cur) /\ ~Intact(cur)
  BY <1>1, <1>2, RaiseInv, Assemble DEF CheckSource, IInv, TypeOK
<1>3. CASE ~(Existed(cur) /\ ~Intact(cur)) /\ cur < N
  <2>1. Goto("stage", cur + 1) /\ KeepMemory
    BY <1>3 DEF CheckSource
  <2>2. "stage" \in Label /\ cur + 1 \in 0..(N + 1) /\ ("stage" \in EntryLabel => cur + 1 \in Entry)
    BY <1>3, EntryFacts DEF Label, EntryLabel, CheckSource, IInv, IndexInv
  <2>3. MemTypeOK' /\ IndexInv'
    BY <2>1, <2>2, GotoInv DEF IInv, TypeOK
  <2>4. PhaseInv'
    BY <1>1, <1>3, <2>1 DEF CheckSource, Goto, KeepMemory, IInv, PhaseInv, PreparingLabel, PreparedLabel
  <2> QED BY <1>1, <2>3, <2>4, Assemble
<1>4. CASE ~(Existed(cur) /\ ~Intact(cur)) /\ ~(cur < N)
  <2>1. Goto("stageSync", 0) /\ KeepMemory
    BY <1>4 DEF CheckSource
  <2>2. "stageSync" \in Label /\ 0 \in 0..(N + 1) /\ ("stageSync" \in EntryLabel => 0 \in Entry)
    BY <1>4, EntryFacts DEF Label, EntryLabel, CheckSource, IInv, IndexInv
  <2>3. MemTypeOK' /\ IndexInv'
    BY <2>1, <2>2, GotoInv DEF IInv, TypeOK
  <2>4. PhaseInv'
    BY <1>1, <1>4, <2>1 DEF CheckSource, Goto, KeepMemory, IInv, PhaseInv, PreparingLabel, PreparedLabel
  <2> QED BY <1>1, <2>3, <2>4, Assemble
<1> QED BY <1>2, <1>3, <1>4 DEF CheckSource, IInv, TypeOK, DiskTypeOK, Journal, Phase

\* DoneTombstones keeps the invariant.
LEMMA DoneTombstonesInv == ASSUME IInv, DoneTombstones PROVE IInv'
<1>1. DiskTypeOK' /\ EnvTypeOK' /\ jr' = jr
  BY QuietTypes DEF DoneTombstones
<1>2. CASE failed
  BY <1>1, <1>2, ExitInv, Assemble DEF DoneTombstones, IInv, TypeOK
<1>3. CASE ~failed
  <2>1. Goto("dropOwned", 1) /\ KeepMemory
    BY <1>3 DEF DoneTombstones
  <2>2. "dropOwned" \in Label /\ 1 \in 0..(N + 1) /\ ("dropOwned" \in EntryLabel => 1 \in Entry)
    BY <1>3, EntryFacts DEF Label, EntryLabel, DoneTombstones, IInv, IndexInv
  <2>3. MemTypeOK' /\ IndexInv'
    BY <2>1, <2>2, GotoInv DEF IInv, TypeOK
  <2>4. PhaseInv'
    BY <1>1, <1>3, <2>1 DEF DoneTombstones, Goto, KeepMemory, IInv, PhaseInv, PreparingLabel, PreparedLabel
  <2> QED BY <1>1, <2>3, <2>4, Assemble
<1> QED BY <1>2, <1>3 DEF DoneTombstones, IInv, TypeOK, DiskTypeOK, Journal, Phase

\* RollbackDone keeps the invariant.
LEMMA RollbackDoneInv == ASSUME IInv, RollbackDone PROVE IInv'
<1>1. DiskTypeOK' /\ EnvTypeOK' /\ jr' = jr
  BY QuietTypes DEF RollbackDone
<1>2. CASE failed
  BY <1>1, <1>2, ExitInv, Assemble DEF RollbackDone, IInv, TypeOK
<1>3. CASE ~failed
  <2>1. Goto("dropOwned", 1) /\ KeepMemory
    BY <1>3 DEF RollbackDone
  <2>2. "dropOwned" \in Label /\ 1 \in 0..(N + 1) /\ ("dropOwned" \in EntryLabel => 1 \in Entry)
    BY <1>3, EntryFacts DEF Label, EntryLabel, RollbackDone, IInv, IndexInv
  <2>3. MemTypeOK' /\ IndexInv'
    BY <2>1, <2>2, GotoInv DEF IInv, TypeOK
  <2>4. PhaseInv'
    BY <1>1, <1>3, <2>1 DEF RollbackDone, Goto, KeepMemory, IInv, PhaseInv, PreparingLabel, PreparedLabel
  <2> QED BY <1>1, <2>3, <2>4, Assemble
<1> QED BY <1>2, <1>3 DEF RollbackDone, IInv, TypeOK, DiskTypeOK, Journal, Phase

\* RecoverPending keeps the invariant.
LEMMA RecoverPendingInv == ASSUME IInv, RecoverPending PROVE IInv'
<1>1. [jr EXCEPT !.pending = FALSE] \in Journal
  BY DEF RecoverPending, IInv, TypeOK, DiskTypeOK, MemTypeOK, Journal, Phase, NoEntry
<1>2. jr' = [jr EXCEPT !.pending = FALSE] /\ DiskTypeOK'
  BY <1>1, SetJournalType DEF RecoverPending, IInv, TypeOK, DiskTypeOK
<1>3. MemTypeOK' /\ IndexInv'
  BY GotoInv, EntryFacts, ConstantsAssumption DEF RecoverPending, IInv, TypeOK, Label, EntryLabel
<1>4. EnvTypeOK'
  BY DEF RecoverPending, env, IInv, TypeOK, EnvTypeOK
<1>5. PhaseInv'
  BY <1>2 DEF RecoverPending, Goto, KeepMemory, IInv, PhaseInv, PreparingLabel, PreparedLabel
<1> QED BY <1>2, <1>3, <1>4, <1>5, Assemble

\* DropJournal keeps the invariant.
LEMMA DropJournalInv == ASSUME IInv, DropJournal PROVE IInv'
<1>1. NoEntry \in Journal
  BY DEF DropJournal, IInv, TypeOK, DiskTypeOK, MemTypeOK, Journal, Phase, NoEntry
<1>2. jr' = NoEntry /\ DiskTypeOK'
  BY <1>1, SetJournalType DEF DropJournal, IInv, TypeOK, DiskTypeOK
<1>3. MemTypeOK' /\ IndexInv'
  BY GotoInv, EntryFacts, ConstantsAssumption DEF DropJournal, IInv, TypeOK, Label, EntryLabel
<1>4. EnvTypeOK'
  BY DEF DropJournal, env, IInv, TypeOK, EnvTypeOK
<1>5. PhaseInv'
  BY <1>2 DEF DropJournal, Goto, KeepMemory, IInv, PhaseInv, PreparingLabel, PreparedLabel, NoEntry
<1> QED BY <1>2, <1>3, <1>4, <1>5, Assemble

\* JournalStage keeps the invariant.
LEMMA JournalStageInv == ASSUME IInv, JournalStage PROVE IInv'
<1>1. [jr EXCEPT !.pending = TRUE] \in Journal
  BY DEF JournalStage, IInv, TypeOK, DiskTypeOK, MemTypeOK, Journal, Phase, NoEntry
<1>2. jr' = [jr EXCEPT !.pending = TRUE] /\ DiskTypeOK'
  BY <1>1, SetJournalType DEF JournalStage, IInv, TypeOK, DiskTypeOK
<1>3. MemTypeOK' /\ IndexInv'
  BY GotoInv, EntryFacts, ConstantsAssumption DEF JournalStage, IInv, TypeOK, Label, EntryLabel
<1>4. EnvTypeOK'
  BY DEF JournalStage, env, IInv, TypeOK, EnvTypeOK
<1>5. PhaseInv'
  BY <1>2 DEF JournalStage, Goto, KeepMemory, IInv, PhaseInv, PreparingLabel, PreparedLabel, TypeOK, DiskTypeOK, Journal
<1> QED BY <1>2, <1>3, <1>4, <1>5, Assemble

\* JournalSwap keeps the invariant.
LEMMA JournalSwapInv == ASSUME IInv, JournalSwap PROVE IInv'
<1>1. [phase |-> want, pending |-> FALSE] \in Journal
  BY DEF JournalSwap, IInv, TypeOK, DiskTypeOK, MemTypeOK, Journal, Phase, NoEntry
<1>2. jr' = [phase |-> want, pending |-> FALSE] /\ DiskTypeOK'
  BY <1>1, SetJournalType DEF JournalSwap, IInv, TypeOK, DiskTypeOK
<1>3. MemTypeOK' /\ IndexInv'
  BY GotoInv, EntryFacts, ConstantsAssumption DEF JournalSwap, IInv, TypeOK, Label, EntryLabel
<1>4. EnvTypeOK'
  BY DEF JournalSwap, env, IInv, TypeOK, EnvTypeOK
<1>5. PhaseInv'
  BY <1>2 DEF JournalSwap, Goto, KeepMemory, IInv, PhaseInv, PreparingLabel, PreparedLabel, Precedes
<1> QED BY <1>2, <1>3, <1>4, <1>5, Assemble

\* RecoverEntry keeps the invariant.
LEMMA RecoverEntryInv == ASSUME IInv, RecoverEntry PROVE IInv'
<1>1. DiskTypeOK' /\ EnvTypeOK' /\ jr' = jr
  BY QuietTypes DEF RecoverEntry
<1>2. CASE ~RecoverAccepts(cur)
  BY <1>1, <1>2, ExitInv, Assemble DEF RecoverEntry
<1>3. CASE RecoverAccepts(cur)
  <2>1. RecoverOp(cur) \in Op
    BY DEF RecoverOp, RestoreOp, Op
  <2>2. op' \in Op /\ resync' \in SUBSET Entry /\ cur' \in 0..(N + 1)
    BY <1>3, <2>1, EntryFacts DEF RecoverEntry, Goto, Op, IInv, TypeOK, MemTypeOK
  <2>3. MemTypeOK'
    BY <1>3, <2>2 DEF RecoverEntry, Goto, IInv, TypeOK, MemTypeOK, Label
  <2>4. IndexInv' /\ PhaseInv'
    BY <1>1, <1>3 DEF RecoverEntry, Goto, IInv, IndexInv, PhaseInv, EntryLabel,
      PreparingLabel, PreparedLabel
  <2> QED BY <1>1, <2>3, <2>4, Assemble
<1> QED BY <1>2, <1>3

\* RollbackEntry keeps the invariant.
LEMMA RollbackEntryInv == ASSUME IInv, RollbackEntry PROVE IInv'
<1>1. DiskTypeOK' /\ EnvTypeOK' /\ jr' = jr
  BY QuietTypes DEF RollbackEntry, disk, env
<1>2. RollbackOp(cur) \in Op /\ "keep" \in Op
  BY DEF RollbackOp, RestoreOp, Op
<1>3. op' \in Op /\ cur' \in 0..(N + 1) /\ failed' \in BOOLEAN
  BY <1>2, EntryFacts DEF RollbackEntry, RollbackError, Goto, IInv, TypeOK, MemTypeOK
<1>4. MemTypeOK'
  BY <1>3 DEF RollbackEntry, RollbackError, Goto, IInv, TypeOK, MemTypeOK, Label
<1>5. IndexInv' /\ PhaseInv'
  BY <1>1 DEF RollbackEntry, RollbackError, Goto, IInv, IndexInv, PhaseInv, EntryLabel,
    PreparingLabel, PreparedLabel
<1> QED BY <1>1, <1>4, <1>5, Assemble

--------------------------------------------------------------------------------
(* Steps that rebind the names of an entry.                                 *)

\* A step that rebinds the names of one entry and nothing else on disk.
LEMMA FileTypes ==
  ASSUME IInv, NEW e \in Entry, NEW f \in Names, SetNames(e, f),
         UNCHANGED <<jr, jsurv, dirty, env>>
  PROVE  DiskTypeOK' /\ EnvTypeOK' /\ jr' = jr
BY SetNamesType DEF IInv, TypeOK, DiskTypeOK, EnvTypeOK, env

\* A step that raised before it rebound a name.
LEMMA SameFileTypes ==
  ASSUME IInv, UNCHANGED <<fs, surv>>, UNCHANGED <<jr, jsurv, dirty, env>>
  PROVE  DiskTypeOK' /\ EnvTypeOK' /\ jr' = jr
BY DEF IInv, TypeOK, DiskTypeOK, EnvTypeOK, env

\* A step that syncs directories.
LEMMA SyncTypes ==
  ASSUME IInv, NEW E, Sync(E), UNCHANGED <<fs, jr, jsurv, dirty, env>>
  PROVE  DiskTypeOK' /\ EnvTypeOK' /\ jr' = jr
BY DEF Sync, IInv, TypeOK, DiskTypeOK, EnvTypeOK, env

\* Each rename, link and unlink of the program binds names to inodes.
LEMMA NamesMove ==
  ASSUME NEW f \in Names
  PROVE  /\ [f EXCEPT !.tomb = "none"] \in Names /\ [f EXCEPT !.dest = "none"] \in Names
         /\ [f EXCEPT !.new = "none"] \in Names
         /\ [f EXCEPT !.tomb = f.dest] \in Names
         /\ [f EXCEPT !.dest = f.tomb, !.tomb = "none"] \in Names
         /\ [f EXCEPT !.dest = f.old, !.old = "none"] \in Names
         /\ [f EXCEPT !.dest = f.new, !.new = "none"] \in Names
         /\ [f EXCEPT !.tomb = f.dest, !.dest = "none"] \in Names
         /\ [f EXCEPT !.dest = "new"] \in Names
         /\ [f EXCEPT !.dest = "user"] \in Names
BY DEF Names, Inode

\* So does each system call that restores an original.
LEMMA PerformedType == ASSUME DiskTypeOK, NEW e \in Entry PROVE Performed(e) \in Names
<1>1. fs[e] \in Names
  BY DEF DiskTypeOK
<1> QED BY <1>1, NamesMove DEF Performed

\* TombstoneDrop keeps the invariant.
LEMMA TombstoneDropInv == ASSUME IInv, TombstoneDrop PROVE IInv'
<1>1. cur \in Entry /\ fs[cur] \in Names
  BY DEF TombstoneDrop, IInv, TypeOK, DiskTypeOK, IndexInv, EntryLabel
<1>2. CASE fs[cur].tomb = "ph"
  <2>1. DiskTypeOK' /\ EnvTypeOK' /\ jr' = jr
    BY <1>1, <1>2, NamesMove, FileTypes DEF TombstoneDrop
  <2>2. Goto("pubLink", cur) /\ KeepMemory
    BY <1>2 DEF TombstoneDrop
  <2>3. MemTypeOK' /\ IndexInv'
    BY <1>1, <2>2, GotoInv, EntryFacts DEF IInv, TypeOK, Label
  <2>4. PhaseInv'
    BY <1>2, <2>1, <2>2 DEF TombstoneDrop, Goto, KeepMemory, IInv, PhaseInv, PreparingLabel, PreparedLabel
  <2> QED BY <2>1, <2>3, <2>4, Assemble
<1>3. CASE fs[cur].tomb # "ph"
  <2>1. DiskTypeOK' /\ EnvTypeOK' /\ jr' = jr
    BY <1>3, SameFileTypes DEF TombstoneDrop
  <2> QED BY <1>3, <2>1, RaiseInv, Assemble DEF TombstoneDrop, IInv, TypeOK
<1> QED BY <1>2, <1>3

\* TombstoneLink keeps the invariant.
LEMMA TombstoneLinkInv == ASSUME IInv, TombstoneLink PROVE IInv'
<1>1. cur \in Entry /\ fs[cur] \in Names
  BY DEF TombstoneLink, IInv, TypeOK, DiskTypeOK, IndexInv, EntryLabel
<1>2. CASE fs[cur].dest # "none"
  <2>1. DiskTypeOK' /\ EnvTypeOK' /\ jr' = jr
    BY <1>1, <1>2, NamesMove, FileTypes DEF TombstoneLink
  <2>2. Goto("pubLinked", cur) /\ KeepMemory
    BY <1>2 DEF TombstoneLink
  <2>3. MemTypeOK' /\ IndexInv'
    BY <1>1, <2>2, GotoInv, EntryFacts DEF IInv, TypeOK, Label
  <2>4. PhaseInv'
    BY <1>2, <2>1, <2>2 DEF TombstoneLink, Goto, KeepMemory, IInv, PhaseInv, PreparingLabel, PreparedLabel
  <2> QED BY <2>1, <2>3, <2>4, Assemble
<1>3. CASE fs[cur].dest = "none"
  <2>1. DiskTypeOK' /\ EnvTypeOK' /\ jr' = jr
    BY <1>3, SameFileTypes DEF TombstoneLink
  <2> QED BY <1>3, <2>1, RaiseInv, Assemble DEF TombstoneLink, IInv, TypeOK
<1> QED BY <1>2, <1>3

\* TombstoneLinked keeps the invariant.
LEMMA TombstoneLinkedInv == ASSUME IInv, TombstoneLinked PROVE IInv'
<1>1. cur \in Entry /\ fs[cur] \in Names
  BY DEF TombstoneLinked, IInv, TypeOK, DiskTypeOK, IndexInv, EntryLabel
<1>2. CASE fs[cur].dest = "orig" /\ fs[cur].tomb = "orig"
  <2>1. DiskTypeOK' /\ EnvTypeOK' /\ jr' = jr
    BY <1>2, SyncTypes DEF TombstoneLinked
  <2>2. Goto("pubReady", cur) /\ UNCHANGED <<mode, op, want, active, tried, failed, resync>>
    BY <1>2 DEF TombstoneLinked
  <2>3. owned' \in [Entry -> SUBSET (Temp \cup {"orig"})] /\ cur \in 0..(N + 1)
    BY <1>1, <1>2, EntryFacts DEF TombstoneLinked, IInv, TypeOK, MemTypeOK
  <2>4. MemTypeOK' /\ IndexInv'
    BY <1>1, <2>2, <2>3 DEF Goto, IInv, TypeOK, MemTypeOK, IndexInv, Label
  <2>5. PhaseInv'
    BY <1>2, <2>1, <2>2 DEF TombstoneLinked, Goto, IInv, PhaseInv, PreparingLabel, PreparedLabel
  <2> QED BY <2>1, <2>4, <2>5, Assemble
<1>3. CASE ~(fs[cur].dest = "orig" /\ fs[cur].tomb = "orig")
  <2>1. DiskTypeOK' /\ EnvTypeOK' /\ jr' = jr
    BY <1>3, SameFileTypes DEF TombstoneLinked
  <2> QED BY <1>3, <2>1, RaiseInv, Assemble DEF TombstoneLinked, IInv, TypeOK
<1> QED BY <1>2, <1>3

\* PublishUnlink keeps the invariant.
LEMMA PublishUnlinkInv == ASSUME IInv, PublishUnlink PROVE IInv'
<1>1. cur \in Entry /\ fs[cur] \in Names
  BY DEF PublishUnlink, IInv, TypeOK, DiskTypeOK, IndexInv, EntryLabel
<1>2. CASE TRUE
  <2>1. DiskTypeOK' /\ EnvTypeOK' /\ jr' = jr
    BY <1>1, <1>2, NamesMove, FileTypes DEF PublishUnlink
  <2>2. Goto("pubUnlinked", cur) /\ KeepMemory
    BY <1>2 DEF PublishUnlink
  <2>3. MemTypeOK' /\ IndexInv'
    BY <1>1, <2>2, GotoInv, EntryFacts DEF IInv, TypeOK, Label
  <2>4. PhaseInv'
    BY <1>2, <2>1, <2>2 DEF PublishUnlink, Goto, KeepMemory, IInv, PhaseInv, PreparingLabel, PreparedLabel
  <2> QED BY <2>1, <2>3, <2>4, Assemble
<1> QED BY <1>2

\* StageFile keeps the invariant.
LEMMA StageFileInv ==
  ASSUME IInv, StageFile
  PROVE  IInv'
<1> DEFINE t == First(Needs(cur) \ owned[cur])
<1>1. cur \in Entry /\ t \in Temp /\ Staged(t) \in Inode
  BY DEF IInv, IndexInv, EntryLabel, StageFile, First, Temp, Staged, Inode
<1>2. CASE t # "tomb" /\ Existed(cur) /\ fs[cur].dest = "none"
  BY <1>2, RaiseInv DEF StageFile, IInv, TypeOK, DiskTypeOK, EnvTypeOK, env
<1>3. CASE ~(t # "tomb" /\ Existed(cur) /\ fs[cur].dest = "none")
  <2>1. SetNames(cur, [fs[cur] EXCEPT ![t] = Staged(t)]) /\ Goto("register", cur) /\ KeepMemory
    BY <1>3 DEF StageFile
  <2>2. fs' \in [Entry -> Names] /\ surv' \in [Entry -> SUBSET Names]
    BY <1>1, <2>1, SetNamesType, NamesUpdate DEF IInv, TypeOK, DiskTypeOK
  <2> QED BY <1>1, <2>1, <2>2 DEF IInv, TypeOK, DiskTypeOK, MemTypeOK, EnvTypeOK, StageFile, env, Goto,
        KeepMemory, Label, IndexInv, PhaseInv, EntryLabel, PreparingLabel, PreparedLabel
<1> QED BY <1>2, <1>3

\* RegisterFile keeps the invariant.
LEMMA RegisterFileInv == ASSUME IInv, RegisterFile PROVE IInv'
<1>1. DiskTypeOK' /\ EnvTypeOK' /\ jr' = jr
  BY QuietTypes DEF RegisterFile, disk, env
<1>2. owned' \in [Entry -> SUBSET (Temp \cup {"orig"})]
  BY DEF RegisterFile, First, Temp, IInv, TypeOK, MemTypeOK
<1>3. MemTypeOK' /\ IndexInv'
  BY <1>2 DEF RegisterFile, Goto, IInv, TypeOK, MemTypeOK, IndexInv, Label, EntryLabel
<1>4. PhaseInv'
  BY <1>1 DEF RegisterFile, Goto, IInv, PhaseInv, PreparingLabel, PreparedLabel
<1> QED BY <1>1, <1>3, <1>4, Assemble

\* Going on to the next entry of the publication loop.
LEMMA PublishNextInv ==
  ASSUME IInv, cur \in Entry, PublishNext
  PROVE  /\ pc' \in {"pubCheck", "final"} /\ cur' \in 0..(N + 1)
         /\ pc' = "pubCheck" => cur' \in Entry
BY EntryFacts DEF PublishNext, Goto

\* PublishVerify keeps the invariant.
LEMMA PublishVerifyInv == ASSUME IInv, PublishVerify PROVE IInv'
<1>1. DiskTypeOK' /\ EnvTypeOK' /\ jr' = jr
  BY SyncTypes DEF PublishVerify
<1>2. cur \in Entry /\ cur \in 0..(N + 1)
  BY EntryFacts DEF PublishVerify, IInv, IndexInv, EntryLabel
<1> DEFINE Verified == /\ kind[cur] # "delete" => fs[cur].dest = "new"
                       /\ Existed(cur) => fs[cur].tomb = "orig" /\ "orig" \notin dirty[cur]
<1>3. CASE ~Verified
  BY <1>1, <1>3, RaiseInv, Assemble DEF PublishVerify, IInv, TypeOK
<1>4. CASE Verified
  <2>1. /\ pc' \in {"pubUnlink", "pubCheck", "final"} /\ cur' \in 0..(N + 1)
        /\ pc' \in EntryLabel => cur' \in Entry
    BY <1>2, <1>4, PublishNextInv DEF PublishVerify, Goto, EntryLabel
  <2>2. owned' \in [Entry -> SUBSET (Temp \cup {"orig"})]
    BY <1>4 DEF PublishVerify, IInv, TypeOK, MemTypeOK
  <2>3. MemTypeOK' /\ IndexInv'
    BY <1>4, <2>1, <2>2 DEF PublishVerify, IInv, TypeOK, MemTypeOK, IndexInv, Label
  <2>4. PhaseInv'
    BY <1>1, <1>4, <2>1 DEF PublishVerify, IInv, PhaseInv, PreparingLabel, PreparedLabel
  <2> QED BY <1>1, <2>3, <2>4, Assemble
<1> QED BY <1>3, <1>4

\* PublishUnlinked keeps the invariant.
LEMMA PublishUnlinkedInv == ASSUME IInv, PublishUnlinked PROVE IInv'
<1>1. DiskTypeOK' /\ EnvTypeOK' /\ jr' = jr
  BY SyncTypes DEF PublishUnlinked, env
<1>2. cur \in Entry
  BY DEF PublishUnlinked, IInv, IndexInv, EntryLabel
<1>3. owned' \in [Entry -> SUBSET (Temp \cup {"orig"})]
  BY DEF PublishUnlinked, IInv, TypeOK, MemTypeOK
<1>4. MemTypeOK' /\ IndexInv'
  BY <1>2, <1>3, PublishNextInv DEF PublishUnlinked, IInv, TypeOK, MemTypeOK, IndexInv,
    Label, EntryLabel
<1>5. PhaseInv'
  BY <1>1, <1>2, PublishNextInv DEF PublishUnlinked, IInv, PhaseInv, PreparingLabel, PreparedLabel
<1> QED BY <1>1, <1>4, <1>5, Assemble

\* PublishSwap keeps the invariant.
LEMMA PublishSwapInv == ASSUME IInv, PublishSwap PROVE IInv'
<1>1. cur \in Entry /\ fs[cur] \in Names /\ cur \in 0..(N + 1)
  BY EntryFacts DEF PublishSwap, IInv, TypeOK, DiskTypeOK, IndexInv, EntryLabel
<1> DEFINE f == fs[cur]
           g == CASE kind[cur] = "update" -> [f EXCEPT !.dest = f.new, !.new = "none"]
                  [] kind[cur] = "delete" -> [f EXCEPT !.tomb = f.dest, !.dest = "none"]
                  [] OTHER -> [f EXCEPT !.dest = "new"]
           Possible == /\ kind[cur] = "delete" => f.dest # "none"
                       /\ kind[cur] = "create" => f.dest = "none"
<1>2. g \in Names
  BY <1>1, NamesMove
<1>3. CASE ~Possible
  <2>1. DiskTypeOK' /\ EnvTypeOK' /\ jr' = jr
    BY <1>3, SameFileTypes DEF PublishSwap
  <2> QED BY <1>3, <2>1, RaiseInv, Assemble DEF PublishSwap, IInv, TypeOK
<1>4. CASE Possible
  <2>1. SetNames(cur, g) /\ Goto("pubVerify", cur) /\ KeepMemory
    BY <1>4 DEF PublishSwap
  <2>2. DiskTypeOK' /\ EnvTypeOK' /\ jr' = jr
    BY <1>1, <1>2, <2>1, FileTypes DEF PublishSwap
  <2>3. MemTypeOK' /\ IndexInv'
    BY <1>1, <2>1, GotoInv DEF IInv, TypeOK, Label
  <2>4. PhaseInv'
    BY <2>1, <2>2 DEF PublishSwap, Goto, KeepMemory, IInv, PhaseInv, PreparingLabel, PreparedLabel
  <2> QED BY <2>2, <2>3, <2>4, Assemble
<1> QED BY <1>3, <1>4

\* DoneTombstone keeps the invariant.
LEMMA DoneTombstoneInv == ASSUME IInv, DoneTombstone PROVE IInv'
<1>1. cur \in Entry /\ fs[cur] \in Names /\ [fs[cur] EXCEPT !.tomb = "none"] \in Names
  BY NamesMove DEF DoneTombstone, IInv, TypeOK, DiskTypeOK
<1>2. DiskTypeOK' /\ EnvTypeOK' /\ jr' = jr
  <2>1. CASE Existed(cur) /\ fs[cur].tomb = "orig"
    BY <1>1, <2>1, FileTypes DEF DoneTombstone, env
  <2>2. CASE ~(Existed(cur) /\ fs[cur].tomb = "orig")
    BY <2>2, SameFileTypes DEF DoneTombstone, env
  <2> QED BY <2>1, <2>2
<1>3. cur' \in 0..(N + 1) /\ failed' \in BOOLEAN /\ (pc' = "doneSync" => cur' \in Entry)
  <2>1. cur' \in 0..(N + 1) /\ (pc' = "doneSync" => cur' \in Entry)
    BY <1>1, EntryFacts DEF DoneTombstone, Goto
  <2>2. failed' \in BOOLEAN
    BY DEF DoneTombstone, IInv, TypeOK, MemTypeOK
  <2> QED BY <2>1, <2>2
<1>4. MemTypeOK' /\ IndexInv'
  BY <1>3 DEF DoneTombstone, Goto, IInv, TypeOK, MemTypeOK, IndexInv, Label, EntryLabel
<1>5. PhaseInv'
  BY <1>2 DEF DoneTombstone, Goto, IInv, PhaseInv, PreparingLabel, PreparedLabel
<1> QED BY <1>2, <1>4, <1>5, Assemble

\* RecoverAct keeps the invariant.
LEMMA RecoverActInv == ASSUME IInv, RecoverAct PROVE IInv'
<1>1. cur \in Entry /\ Performed(cur) \in Names
  BY PerformedType DEF RecoverAct, IInv, TypeOK, IndexInv, EntryLabel
<1>2. DiskTypeOK' /\ EnvTypeOK' /\ jr' = jr
  <2>1. CASE CanPerform(cur)
    BY <1>1, <2>1, FileTypes DEF RecoverAct
  <2>2. CASE ~CanPerform(cur)
    BY <2>2, SameFileTypes DEF RecoverAct
  <2> QED BY <2>1, <2>2
<1>3. CASE CanPerform(cur) /\ Restored(cur, Performed(cur))
  <2>1. cur' \in 0..(N + 1) /\ pc' = "recEntry" /\ op' = "keep" /\ resync' \in SUBSET Entry
    BY <1>1, <1>3, EntryFacts DEF RecoverAct, Goto, IInv, TypeOK, MemTypeOK
  <2>2. MemTypeOK' /\ IndexInv'
    BY <1>3, <2>1 DEF RecoverAct, IInv, TypeOK, MemTypeOK, IndexInv, Label, Op, EntryLabel
  <2>3. PhaseInv'
    BY <1>2, <2>1 DEF RecoverAct, IInv, PhaseInv, PreparingLabel, PreparedLabel
  <2> QED BY <1>2, <2>2, <2>3, Assemble
<1>4. CASE ~(CanPerform(cur) /\ Restored(cur, Performed(cur)))
  BY <1>2, <1>4, ExitInv, Assemble DEF RecoverAct
<1> QED BY <1>3, <1>4

\* The temporary a loop handles next is one.
LEMMA FirstType == ASSUME NEW S PROVE First(S) \in Temp
BY DEF First, Temp

\* CleanTemporary keeps the invariant.
LEMMA CleanTemporaryInv == ASSUME IInv, CleanTemporary PROVE IInv'
<1> DEFINE t == First(Present(cur))
           Ok == jr.phase = "preparing" \/ fs[cur][t] \in Allowed(t)
<1>1. cur \in Entry /\ [fs[cur] EXCEPT ![t] = "none"] \in Names
  <2>1. cur \in Entry /\ fs[cur] \in Names /\ t \in Temp /\ "none" \in Inode
    BY FirstType DEF CleanTemporary, IInv, TypeOK, DiskTypeOK, Inode
  <2> QED BY <2>1, NamesUpdate
<1>2. CASE Ok
  <2>1. DiskTypeOK' /\ EnvTypeOK' /\ jr' = jr
    BY <1>1, <1>2, FileTypes DEF CleanTemporary
  <2>2. MemTypeOK' /\ IndexInv'
    BY <1>1, <1>2 DEF CleanTemporary, IInv, TypeOK, MemTypeOK, IndexInv
  <2>3. PhaseInv'
    BY <1>2, <2>1 DEF CleanTemporary, IInv, PhaseInv
  <2> QED BY <2>1, <2>2, <2>3, Assemble
<1>3. CASE ~Ok
  <2>1. DiskTypeOK' /\ EnvTypeOK' /\ jr' = jr
    BY <1>3, SameFileTypes DEF CleanTemporary
  <2> QED BY <1>3, <2>1, ExitInv, Assemble DEF CleanTemporary
<1> QED BY <1>2, <1>3

\* DropOwned keeps the invariant.
LEMMA DropOwnedInv == ASSUME IInv, DropOwned PROVE IInv'
<1> DEFINE t == First(owned[cur] \cap Present(cur))
<1>1. cur \in Entry /\ [fs[cur] EXCEPT ![t] = "none"] \in Names
  <2>1. cur \in Entry /\ fs[cur] \in Names /\ t \in Temp /\ "none" \in Inode
    BY FirstType DEF DropOwned, IInv, TypeOK, DiskTypeOK, Inode
  <2> QED BY <2>1, NamesUpdate
<1>2. CASE fs[cur][t] = Recorded(cur, t)
  <2>1. DiskTypeOK' /\ EnvTypeOK' /\ jr' = jr
    BY <1>1, <1>2, FileTypes DEF DropOwned
  <2>2. MemTypeOK' /\ IndexInv' /\ PhaseInv'
    BY <1>2, <2>1 DEF DropOwned, mem, env, IInv, TypeOK, MemTypeOK, IndexInv, PhaseInv
  <2> QED BY <2>1, <2>2, Assemble
<1>3. CASE fs[cur][t] # Recorded(cur, t)
  <2>1. DiskTypeOK' /\ EnvTypeOK' /\ jr' = jr
    BY <1>3, SameFileTypes DEF DropOwned
  <2> QED BY <1>3, <2>1, ExitInv, Assemble DEF DropOwned
<1> QED BY <1>2, <1>3

\* Leaving the except clause for the finally clause keeps the invariant.
LEMMA EscapeInv ==
  ASSUME IInv, Escape, jr' = jr, faults' > 0
  PROVE  MemTypeOK' /\ IndexInv' /\ PhaseInv'
<1>1. 1 \in 0..(N + 1) /\ "finally" \in Label /\ "finally" \notin EntryLabel
  BY ConstantsAssumption DEF Label, EntryLabel
<1>2. MemTypeOK' /\ IndexInv'
  BY <1>1, GotoInv DEF Escape, IInv, TypeOK
<1>3. PhaseInv'
  BY DEF Escape, Goto, KeepMemory, IInv, PhaseInv, PreparingLabel, PreparedLabel
<1> QED BY <1>2, <1>3

\* FinallyNext keeps the invariant.
LEMMA FinallyNextInv == ASSUME IInv, FinallyNext PROVE IInv'
<1>1. DiskTypeOK' /\ EnvTypeOK' /\ jr' = jr
  BY QuietTypes DEF FinallyNext
<1>2. CASE cur < N
  <2>1. Goto("finally", cur + 1) /\ KeepMemory /\ cur \in Entry
    BY <1>2 DEF FinallyNext
  <2>2. cur + 1 \in 0..(N + 1) /\ "finally" \in Label /\ "finally" \notin EntryLabel
    BY <2>1, EntryFacts DEF Label, EntryLabel
  <2>3. MemTypeOK' /\ IndexInv'
    BY <2>1, <2>2, GotoInv DEF IInv, TypeOK
  <2>4. PhaseInv'
    BY <1>1, <2>1 DEF FinallyNext, env, Goto, IInv, PhaseInv, PreparingLabel, PreparedLabel
  <2> QED BY <1>1, <2>3, <2>4, Assemble
<1>3. CASE ~(cur < N)
  BY <1>1, <1>3, ExitInv, Assemble DEF FinallyNext
<1> QED BY <1>2, <1>3

\* Plan keeps the invariant.
LEMMA PlanInv == ASSUME IInv, Plan PROVE IInv'
<1>1. kind' \in [Entry -> Kind] /\ fs' \in [Entry -> Names]
  BY DEF Plan, NoFile, Names, Inode
<1>2. surv' \in [Entry -> SUBSET Names] /\ dirty' \in [Entry -> SUBSET Inode]
  BY <1>1 DEF Plan
<1>3. DiskTypeOK' /\ jr' = jr
  BY <1>1, <1>2 DEF Plan, IInv, TypeOK, DiskTypeOK
<1>4. EnvTypeOK'
  BY <1>1 DEF Plan, IInv, TypeOK, EnvTypeOK
<1>5. MemTypeOK' /\ IndexInv'
  BY ConstantsAssumption DEF Plan, Goto, IInv, TypeOK, MemTypeOK, IndexInv, Label, EntryLabel, Phase
<1>6. PhaseInv'
  BY <1>3 DEF Plan, Goto, IInv, PhaseInv, PreparingLabel, PreparedLabel, Precedes
<1> QED BY <1>3, <1>4, <1>5, <1>6, Assemble

\* Recording a rollback error and going on to the previous entry.
LEMMA RollbackErrorInv ==
  ASSUME IInv, cur \in Entry, RollbackError, jr' = jr, jr.phase = "prepared",
         UNCHANGED <<mode, want, active, owned, tried, resync>>
  PROVE  MemTypeOK' /\ IndexInv' /\ PhaseInv'
<1>1. cur' \in 0..(N + 1)
  BY EntryFacts DEF RollbackError, Goto
<1> QED BY <1>1 DEF RollbackError, Goto, IInv, TypeOK, MemTypeOK, IndexInv, PhaseInv,
      Label, EntryLabel, PreparingLabel, PreparedLabel, Op

\* RollbackAct keeps the invariant.
LEMMA RollbackActInv == ASSUME IInv, RollbackAct PROVE IInv'
<1>1. cur \in Entry /\ Performed(cur) \in Names /\ jr.phase = "prepared"
  BY PerformedType DEF RollbackAct, IInv, TypeOK, IndexInv, EntryLabel, PhaseInv, PreparedLabel
<1>2. DiskTypeOK' /\ EnvTypeOK' /\ jr' = jr
  <2>1. CASE CanPerform(cur)
    BY <1>1, <2>1, FileTypes DEF RollbackAct
  <2>2. CASE ~CanPerform(cur)
    BY <2>2, SameFileTypes DEF RollbackAct
  <2> QED BY <2>1, <2>2
<1> DEFINE Good == CanPerform(cur) /\ (Existed(cur) => Performed(cur).dest = "orig")
<1>3. CASE Good
  <2>1. Goto("rbSync", cur) /\ op' = "keep"
    BY <1>3 DEF RollbackAct
  <2>2. MemTypeOK' /\ IndexInv'
    BY <1>1, <1>3, <2>1, EntryFacts DEF RollbackAct, Goto, IInv, TypeOK, MemTypeOK, IndexInv,
      Label, Op
  <2>3. PhaseInv'
    BY <1>1, <1>2, <2>1 DEF Goto, PhaseInv, PreparingLabel, PreparedLabel
  <2> QED BY <1>2, <2>2, <2>3, Assemble
<1>4. CASE ~Good
  BY <1>1, <1>2, <1>4, RollbackErrorInv, Assemble DEF RollbackAct
<1> QED BY <1>3, <1>4

--------------------------------------------------------------------------------
(* Faults and the user                                                      *)

\* A raising system call keeps the invariant.
LEMMA FailInv == ASSUME IInv, Fail PROVE IInv'
<1>1. EnvTypeOK'
  BY ConstantsAssumption DEF Fail, IInv, TypeOK, EnvTypeOK
<1>2. CASE pc \in {"jStage", "jSwap", "jSync"}
  <2>1. [jr EXCEPT !.pending = FALSE] \in Journal
    BY DEF IInv, TypeOK, DiskTypeOK, Journal
  <2>2. DiskTypeOK' /\ Raise
    BY <1>2, <2>1, SetJournalType DEF Fail, IInv, TypeOK, DiskTypeOK
  <2> QED BY <1>1, <2>2, RaiseInv, Assemble DEF IInv, TypeOK
<1>3. CASE pc \notin {"jStage", "jSwap", "jSync"}
  <2>1. jr' = jr /\ jsurv' = jsurv
    BY <1>3 DEF Fail
  <2>2. DiskTypeOK'
    BY <2>1 DEF Fail, IInv, TypeOK, DiskTypeOK
  <2>3. CASE pc \in {"rbAct", "rbSync", "rbEntry"} /\ ~Escape
    <3>1. /\ cur \in Entry /\ RollbackError /\ jr.phase = "prepared"
          /\ UNCHANGED <<mode, want, active, owned, tried, resync>>
      BY <2>3 DEF Fail, IInv, IndexInv, EntryLabel, PhaseInv, PreparedLabel
    <3> QED BY <1>1, <2>1, <2>2, <3>1, RollbackErrorInv, Assemble
  <2>4. CASE pc \in {"doneTomb", "doneSync"}
    <3>1. /\ cur \in Entry /\ failed' = TRUE /\ Goto("doneTomb", cur + 1)
          /\ UNCHANGED <<mode, op, want, active, owned, tried, resync>>
      BY <2>4 DEF Fail
    <3>2. cur' \in 0..(N + 1) /\ pc' = "doneTomb"
      BY <3>1, EntryFacts DEF Goto
    <3>3. MemTypeOK' /\ IndexInv'
      BY <3>1, <3>2 DEF IInv, TypeOK, MemTypeOK, IndexInv, Label, EntryLabel
    <3>4. PhaseInv'
      BY <2>1, <2>4, <3>2 DEF IInv, PhaseInv, PreparingLabel, PreparedLabel
    <3> QED BY <1>1, <2>2, <3>3, <3>4, Assemble
  <2>5. CASE Escape
    <3>1. faults' > 0
      BY ConstantsAssumption DEF Fail, IInv, TypeOK, EnvTypeOK
    <3> QED BY <1>1, <2>1, <2>2, <2>5, <3>1, EscapeInv, Assemble
  <2>6. CASE pc \in {"dropOwned", "dropJournal", "dropSync", "finally"}
    <3>1. Exit
      BY <2>6 DEF Fail
    <3> QED BY <1>1, <2>2, <3>1, ExitInv, Assemble
  <2>7. CASE pc \notin {"jStage", "jSwap", "jSync", "rbAct", "rbSync", "rbEntry", "doneTomb",
                       "doneSync", "handler", "dropOwned", "dropJournal", "dropSync", "finally"}
    <3>1. Raise
      BY <2>7 DEF Fail
    <3> QED BY <1>1, <2>2, <3>1, RaiseInv, Assemble DEF IInv, TypeOK
  <2>8. CASE pc = "handler"
    BY <2>5, <2>8 DEF Fail
  <2> QED BY <1>3, <2>3, <2>4, <2>5, <2>6, <2>7, <2>8
<1> QED BY <1>2, <1>3

\* Killing the configurator keeps the invariant.
LEMMA CrashInv == ASSUME IInv, Crash PROVE IInv'
<1>1. EnvTypeOK'
  BY ConstantsAssumption DEF Crash, IInv, TypeOK, EnvTypeOK
<1>2. DiskTypeOK'
  BY DEF Crash, disk, IInv, TypeOK, DiskTypeOK
<1> QED BY <1>1, <1>2, ExitInv, Assemble DEF Crash

\* Losing power keeps the invariant.
LEMMA PowerLossInv == ASSUME IInv, PowerLoss PROVE IInv'
<1>1. EnvTypeOK'
  BY ConstantsAssumption DEF PowerLoss, IInv, TypeOK, EnvTypeOK
<1>2. fs' \in [Entry -> Names] /\ jr' \in Journal
  BY DEF PowerLoss, IInv, TypeOK, DiskTypeOK
<1>3. DiskTypeOK'
  BY <1>2 DEF PowerLoss, IInv, TypeOK, DiskTypeOK
<1> QED BY <1>1, <1>3, ExitInv, Assemble DEF PowerLoss

\* A step of the user keeps the invariant.
LEMMA UserInv == ASSUME IInv, User PROVE IInv'
<1>1. PICK e \in Entry : UserEdit(e) \/ UserReplace(e) \/ UserDelete(e) \/ UserSweep(e)
  BY DEF User
<1>2. moves' \in 0..MaxMoves /\ UNCHANGED <<mem, jr, jsurv, kind, faults>>
  BY <1>1, ConstantsAssumption DEF UserEdit, UserReplace, UserDelete, UserSweep, UserStep,
    IInv, TypeOK, EnvTypeOK
<1>3. MemTypeOK' /\ IndexInv' /\ PhaseInv'
  BY <1>2 DEF mem, IInv, TypeOK, MemTypeOK, IndexInv, PhaseInv
<1>4. fs[e] \in Names
  BY DEF IInv, TypeOK, DiskTypeOK
<1>5. CASE UserEdit(e)
  <2>1. fs[e].dest \in Inode
    BY <1>4 DEF Names
  <2> QED BY <1>2, <1>3, <1>5, <2>1, Assemble DEF UserEdit, IInv, TypeOK, DiskTypeOK, EnvTypeOK
<1>6. CASE UserReplace(e) \/ UserDelete(e) \/ UserSweep(e)
  <2>1. touched' \in SUBSET Entry /\ dirty' = dirty
    BY <1>6 DEF UserReplace, UserDelete, UserSweep, IInv, TypeOK, EnvTypeOK
  <2>2. fs' \in [Entry -> Names] /\ surv' \in [Entry -> SUBSET Names]
    BY <1>4, <1>6, SetNamesType, NamesMove
    DEF UserReplace, UserDelete, UserSweep, IInv, TypeOK
  <2> QED BY <1>2, <1>3, <2>1, <2>2, Assemble DEF IInv, TypeOK, DiskTypeOK, EnvTypeOK
<1> QED BY <1>1, <1>5, <1>6

--------------------------------------------------------------------------------
(* The invariant                                                            *)

\* Every step of recovery keeps the invariant.
LEMMA RecoverInv == ASSUME IInv, Recover PROVE IInv'
BY StartInv, RecoverPendingInv, RecoverPendingSyncInv, RecoverDispatchInv,
   RecoverEntryInv, RecoverActInv, RecoverSyncInv, CleanTemporaryInv, CleanNextInv,
   CleanSyncInv, DropJournalInv, DropJournalSyncInv DEF Recover

\* Every step of staging, publication and cleanup keeps the invariant.
LEMMA ApplyInv == ASSUME IInv, Apply PROVE IInv'
BY PlanInv, PlanNothingInv, JournalStageInv, JournalSwapInv, JournalSyncInv,
   StageFileInv, RegisterFileInv, CheckSourceInv, StageSyncInv, PublishCheckInv,
   TombstoneDropInv, TombstoneLinkInv, TombstoneLinkedInv, PublishReadyInv,
   PublishSwapInv, PublishVerifyInv, PublishUnlinkInv, PublishUnlinkedInv,
   FinalCheckInv, DoneTombstoneInv, DoneSyncInv, DoneTombstonesInv, DropOwnedInv,
   DropOwnedSyncInv DEF Apply

\* Every step of the except clause keeps the invariant.
LEMMA RollbackInv == ASSUME IInv, Rollback PROVE IInv'
BY HandlerInv, RollbackEntryInv, RollbackActInv, RollbackSyncInv, RollbackDoneInv,
   FinallyNextInv DEF Rollback

\* A stuttering step keeps the invariant.
LEMMA StutterInv == ASSUME IInv, UNCHANGED vars PROVE IInv'
BY DEF IInv, TypeOK, DiskTypeOK, MemTypeOK, EnvTypeOK, IndexInv, PhaseInv, vars, disk, mem, env

\* The invariant holds initially.
LEMMA InitInv == Init => IInv
<1> SUFFICES ASSUME Init PROVE IInv
  OBVIOUS
<1>1. fs \in [Entry -> Names] /\ kind \in [Entry -> Kind]
  BY DEF Init, NoFile, Names, Inode
<1>2. DiskTypeOK
  BY <1>1 DEF Init, DiskTypeOK, NoEntry, Journal, Phase
<1>3. pc = "idle" /\ cur = 0 /\ tried = 0 /\ op \in Op /\ want \in Phase
      /\ mode \in {"recover", "apply"} /\ resync = {}
  BY DEF Init, Op, Phase
<1>4. owned \in [Entry -> SUBSET (Temp \cup {"orig"})] /\ active \in BOOLEAN /\ failed \in BOOLEAN
  BY DEF Init
<1>5. MemTypeOK
  BY <1>3, <1>4, ConstantsAssumption DEF MemTypeOK, Label
<1>6. EnvTypeOK
  BY <1>1, ConstantsAssumption DEF Init, EnvTypeOK
<1>7. IndexInv /\ PhaseInv
  BY <1>3 DEF IndexInv, PhaseInv, EntryLabel, PreparingLabel, PreparedLabel
<1> QED BY <1>2, <1>5, <1>6, <1>7 DEF IInv, TypeOK

\* The invariant is inductive.
LEMMA NextInv == IInv /\ [Next]_vars => IInv'
BY RecoverInv, ApplyInv, RollbackInv, FailInv, CrashInv, PowerLossInv, UserInv, StutterInv
DEF Next, Step

\* Every variable keeps its type, in every behaviour with any number of files.
THEOREM TypeCorrect == Spec => []TypeOK
<1>1. Init => IInv
  BY InitInv
<1>2. IInv /\ [Next]_vars => IInv'
  BY NextInv
<1>3. IInv => TypeOK
  BY DEF IInv
<1> QED BY <1>1, <1>2, <1>3, PTL DEF Spec

--------------------------------------------------------------------------------
(* A committed transaction stays committed                                  *)

\* The destinations, as a predicate of a step.
SameDestinations == \A e \in Entry : fs'[e].dest = fs[e].dest

\* Rebinding a temporary name changes no destination.
LEMMA TempUpdate ==
  ASSUME DiskTypeOK, NEW e \in Entry, NEW t \in Temp, NEW i \in Inode,
         SetNames(e, [fs[e] EXCEPT ![t] = i])
  PROVE  SameDestinations
<1>1. [fs[e] EXCEPT ![t] = i].dest = fs[e].dest
  BY NamesUpdate DEF DiskTypeOK
<1> QED BY <1>1 DEF SetNames, SameDestinations, DiskTypeOK

\* After the commit, recovery changes no destination.
LEMMA CommittedRecover ==
  ASSUME IInv, Recover, jr.phase = "committed"
  PROVE  SameDestinations
<1>1. CASE CleanTemporary
  <2>1. cur \in Entry /\ First(Present(cur)) \in Temp /\ "none" \in Inode
    BY <1>1, FirstType DEF CleanTemporary, Inode
  <2> QED BY <1>1, <2>1, TempUpdate DEF CleanTemporary, IInv, TypeOK, SameDestinations
<1>2. CASE RecoverAct
  BY <1>2 DEF RecoverAct, IInv, PhaseInv, PreparedLabel
<1>3. CASE ~CleanTemporary /\ ~RecoverAct
  BY <1>3 DEF Recover, Start, RecoverPending, RecoverPendingSync, RecoverDispatch, RecoverEntry,
    RecoverSync, CleanNext, CleanSync, DropJournal, DropJournalSync, disk, SameDestinations
<1> QED BY <1>1, <1>2, <1>3

\* After the commit, the rest of the transaction changes no destination.
LEMMA CommittedApply ==
  ASSUME IInv, Apply, jr.phase = "committed"
  PROVE  SameDestinations
<1>1. CASE DropOwned
  <2>1. cur \in Entry /\ First(owned[cur] \cap Present(cur)) \in Temp /\ "none" \in Inode
    BY <1>1, FirstType DEF DropOwned, Inode
  <2> QED BY <1>1, <2>1, TempUpdate DEF DropOwned, IInv, TypeOK, SameDestinations
<1>2. CASE DoneTombstone
  BY <1>2 DEF DoneTombstone, SetNames, IInv, TypeOK, DiskTypeOK, Names, SameDestinations
<1>3. CASE Plan \/ StageFile \/ TombstoneDrop \/ TombstoneLink \/ PublishSwap \/ PublishUnlink
  BY <1>3 DEF Plan, StageFile, TombstoneDrop, TombstoneLink, PublishSwap, PublishUnlink,
    IInv, PhaseInv, PreparingLabel, PreparedLabel
<1>4. CASE /\ ~DropOwned /\ ~DoneTombstone
           /\ ~(Plan \/ StageFile \/ TombstoneDrop \/ TombstoneLink \/ PublishSwap \/ PublishUnlink)
  BY <1>4 DEF Apply, PlanNothing, JournalStage, JournalSwap, JournalSync, RegisterFile,
    CheckSource, StageSync, PublishCheck, TombstoneLinked, PublishReady, PublishVerify,
    PublishUnlinked, FinalCheck, DoneSync, DoneTombstones, DropOwnedSync, disk, SameDestinations
<1> QED BY <1>1, <1>2, <1>3, <1>4

\* After the commit, the except clause changes no destination.
LEMMA CommittedRollback ==
  ASSUME IInv, Rollback, jr.phase = "committed"
  PROVE  SameDestinations
<1>1. CASE RollbackAct
  BY <1>1 DEF RollbackAct, IInv, PhaseInv, PreparedLabel
<1>2. CASE ~RollbackAct
  BY <1>2 DEF Rollback, Handler, RollbackEntry, RollbackSync, RollbackDone, FinallyNext, disk,
    SameDestinations
<1> QED BY <1>1, <1>2

\* Once the journal says "committed" no step of the program, and no error in one,
\* changes a destination, however often cleanup is interrupted and recovered.
THEOREM CommitFinal == Spec => CommitIsFinal
<1>1. Init => IInv
  BY InitInv
<1>2. IInv /\ [Next]_vars => IInv'
  BY NextInv
<1>3. IInv => ((Step \/ Fail) /\ jr.phase = "committed" => SameDestinations)
  <2>1. Fail => SameDestinations
    BY DEF Fail, SameDestinations
  <2> QED BY <2>1, CommittedRecover, CommittedApply, CommittedRollback DEF Step
<1>4. IInv /\ [Next]_vars
        => [(Step \/ Fail) /\ jr.phase = "committed"
              => \A e \in Entry : fs'[e].dest = fs[e].dest]_vars
  BY <1>3 DEF SameDestinations
<1> QED BY <1>1, <1>2, <1>4, PTL DEF Spec, CommitIsFinal

--------------------------------------------------------------------------------
(* The commit point                                                         *)

\* Control points of the transaction proper.
JournalLabel == {"jStage", "jSwap", "jSync"}
PublishLabel == {"pubCheck", "pubDrop", "pubLink", "pubLinked", "pubReady", "pubSwap",
                 "pubVerify", "pubUnlink", "pubUnlinked"}

\* The files only the program wrote.
Ours == Entry \ touched

\* Their new contents come back whatever happens.
SurelyNew == \A e \in Ours : \A f \in surv[e] : NewIn(e, f)

DurabilityInv ==
  /\ jr \in jsurv /\ \A e \in Entry : fs[e] \in surv[e]
  /\ (\E j \in jsurv : j.phase = "committed") =>
       /\ SurelyNew
       /\ jr.phase \in {"committed", "none"}
       /\ ~(pc \in {"jStage", "jSwap"} /\ want = "preparing")
  /\ pc \in {"jStage", "jSwap"} /\ want = "committed" => SurelyNew

\* A step that changes no destination: what a power loss may bring back of a file
\* either was there before or has the destination the file has now.
Steady ==
  /\ UNCHANGED <<kind, touched>>
  /\ \A e \in Entry : /\ fs'[e] \in surv'[e]
                      /\ \A f \in surv'[e] : f \in surv[e] \/ f.dest = fs[e].dest

\* Such is a step that leaves the directories alone.
LEMMA SameSteady ==
  ASSUME DurabilityInv, UNCHANGED <<fs, surv, kind, touched>>
  PROVE  Steady
BY DEF Steady, DurabilityInv

\* So is a step that syncs some of them.
LEMMA SyncSteady ==
  ASSUME DurabilityInv, NEW E, Sync(E), UNCHANGED <<fs, kind, touched>>
  PROVE  Steady
BY DEF Steady, DurabilityInv, Sync

\* So is a step that rebinds a temporary name.
LEMMA RebindSteady ==
  ASSUME DurabilityInv, DiskTypeOK, NEW e \in Entry, NEW f, f.dest = fs[e].dest,
         SetNames(e, f), UNCHANGED <<kind, touched>>
  PROVE  Steady
BY DEF Steady, DurabilityInv, SetNames, DiskTypeOK

\* New contents that are sure to come back stay so in such a step.
LEMMA SteadyNew ==
  ASSUME DurabilityInv, Steady, SurelyNew
  PROVE  SurelyNew'
BY DEF Steady, DurabilityInv, SurelyNew, NewIn, Ours

\* The destination is not among the names a loop over temporaries unbinds.
LEMMA UnbindFirst ==
  ASSUME DiskTypeOK, NEW e \in Entry, NEW S
  PROVE  [fs[e] EXCEPT ![First(S)] = "none"].dest = fs[e].dest
<1>1. fs[e] \in Names /\ First(S) \in Temp /\ "none" \in Inode
  BY FirstType DEF DiskTypeOK, Inode
<1> QED BY <1>1, NamesUpdate

\* A step that neither writes the journal nor is about to.
Silent == UNCHANGED <<jr, jsurv>> /\ pc' \notin {"jStage", "jSwap"}

\* Such a step, changing no destination, keeps the commit point.
LEMMA SilentDurability ==
  ASSUME DurabilityInv, Steady, Silent
  PROVE  DurabilityInv'
<1>1. (\E j \in jsurv : j.phase = "committed") => SurelyNew'
  BY SteadyNew DEF DurabilityInv
<1>2. \A e \in Entry : fs'[e] \in surv'[e]
  BY DEF Steady
<1> QED BY <1>1, <1>2 DEF DurabilityInv, Silent

\* When the configurator returns or dies it is not writing the journal.
LEMMA RaiseLabel == ASSUME Raise PROVE pc' \in {"handler", "idle"}
BY DEF Raise, Exit

\* Most steps of recovery are silent and change no destination.
LEMMA SilentRecover ==
  ASSUME IInv, DurabilityInv,
         \/ Start \/ RecoverDispatch \/ RecoverEntry \/ RecoverSync
         \/ CleanTemporary \/ CleanNext \/ CleanSync
  PROVE  Silent /\ Steady
<1>1. CASE CleanTemporary
  <2>1. Steady
    <3>1. CASE jr.phase = "preparing" \/ fs[cur][First(Present(cur))] \in Allowed(First(Present(cur)))
      BY <1>1, <3>1, UnbindFirst, RebindSteady DEF CleanTemporary, env, IInv, TypeOK
    <3>2. CASE ~(jr.phase = "preparing" \/ fs[cur][First(Present(cur))] \in Allowed(First(Present(cur))))
      BY <1>1, <3>2, SameSteady DEF CleanTemporary, env
    <3> QED BY <3>1, <3>2
  <2> QED BY <1>1, <2>1 DEF CleanTemporary, Silent, Exit
<1>2. CASE RecoverSync
  BY <1>2, SyncSteady DEF RecoverSync, Silent, Goto, env
<1>3. CASE CleanSync
  BY <1>3, SyncSteady DEF CleanSync, Silent, Goto, env
<1>4. CASE Start \/ RecoverDispatch \/ RecoverEntry \/ CleanNext
  <2>1. UNCHANGED <<disk, env>>
    BY <1>4 DEF Start, RecoverDispatch, RecoverEntry, CleanNext
  <2>2. Steady
    BY <2>1, SameSteady DEF disk, env
  <2>3. jr.phase \in Phase
    BY DEF IInv, TypeOK, DiskTypeOK, Journal
  <2>4. pc' \notin {"jStage", "jSwap"}
    BY <1>4, <2>3 DEF Start, RecoverDispatch, RecoverEntry, CleanNext, Goto, Exit, Phase
  <2> QED BY <2>1, <2>2, <2>4 DEF disk, Silent
<1> QED BY <1>1, <1>2, <1>3, <1>4

\* So are most steps of staging and publication.
LEMMA SilentApply ==
  ASSUME IInv, DurabilityInv,
         \/ StageFile \/ TombstoneDrop \/ TombstoneLink \/ PublishUnlink
         \/ DoneTombstone \/ DropOwned
  PROVE  Silent /\ Steady
<1> USE DEF IInv, TypeOK
<1>1. CASE StageFile
  <2> DEFINE t == First(Needs(cur) \ owned[cur])
  <2>1. cur \in Entry /\ t \in Temp /\ Staged(t) \in Inode /\ fs[cur] \in Names
    BY <1>1, FirstType DEF StageFile, IndexInv, EntryLabel, DiskTypeOK, Staged, Temp, Inode
  <2>2. [fs[cur] EXCEPT ![t] = Staged(t)].dest = fs[cur].dest
    BY <2>1, NamesUpdate
  <2>3. CASE t # "tomb" /\ Existed(cur) /\ fs[cur].dest = "none"
    BY <1>1, <2>3, SameSteady, RaiseLabel DEF StageFile, env, Silent
  <2>4. CASE ~(t # "tomb" /\ Existed(cur) /\ fs[cur].dest = "none")
    BY <1>1, <2>1, <2>2, <2>4, RebindSteady DEF StageFile, env, Silent, Goto
  <2> QED BY <2>3, <2>4
<1>2. CASE DropOwned
  <2>1. Steady
    <3>1. CASE fs[cur][First(owned[cur] \cap Present(cur))]
                 = Recorded(cur, First(owned[cur] \cap Present(cur)))
      BY <1>2, <3>1, UnbindFirst, RebindSteady DEF DropOwned, env
    <3>2. CASE fs[cur][First(owned[cur] \cap Present(cur))]
                 # Recorded(cur, First(owned[cur] \cap Present(cur)))
      BY <1>2, <3>2, SameSteady DEF DropOwned, env
    <3> QED BY <3>1, <3>2
  <2> QED BY <1>2, <2>1 DEF DropOwned, Silent, Exit, mem
<1>3. CASE TombstoneDrop
  <2>1. cur \in Entry /\ [fs[cur] EXCEPT !.tomb = "none"].dest = fs[cur].dest
    BY <1>3 DEF TombstoneDrop, IndexInv, EntryLabel, DiskTypeOK, Names
  <2> QED BY <1>3, <2>1, RebindSteady, SameSteady, RaiseLabel DEF TombstoneDrop, env, Silent, Goto
<1>4. CASE TombstoneLink
  <2>1. cur \in Entry /\ [fs[cur] EXCEPT !.tomb = fs[cur].dest].dest = fs[cur].dest
    BY <1>4 DEF TombstoneLink, IndexInv, EntryLabel, DiskTypeOK, Names
  <2> QED BY <1>4, <2>1, RebindSteady, SameSteady, RaiseLabel DEF TombstoneLink, env, Silent, Goto
<1>5. CASE PublishUnlink
  <2>1. cur \in Entry /\ [fs[cur] EXCEPT !.new = "none"].dest = fs[cur].dest
    BY <1>5 DEF PublishUnlink, IndexInv, EntryLabel, DiskTypeOK, Names
  <2> QED BY <1>5, <2>1, RebindSteady DEF PublishUnlink, env, Silent, Goto
<1>6. CASE DoneTombstone
  <2>1. cur \in Entry /\ [fs[cur] EXCEPT !.tomb = "none"].dest = fs[cur].dest
    BY <1>6 DEF DoneTombstone, DiskTypeOK, Names
  <2> QED BY <1>6, <2>1, RebindSteady, SameSteady DEF DoneTombstone, env, Silent, Goto
<1> QED BY <1>1, <1>2, <1>3, <1>4, <1>5, <1>6

\* So are the steps of a transaction that only check, count or sync.
LEMMA SilentCheck ==
  ASSUME IInv, DurabilityInv,
         \/ PlanNothing \/ RegisterFile \/ CheckSource \/ PublishCheck \/ TombstoneLinked
         \/ PublishReady \/ PublishVerify \/ PublishUnlinked \/ DoneSync \/ DoneTombstones
         \/ DropOwnedSync
  PROVE  Silent /\ Steady
<1>1. CASE TombstoneLinked \/ PublishVerify \/ PublishUnlinked \/ DoneSync \/ DropOwnedSync
  <2>1. Steady
    BY <1>1, SyncSteady, SameSteady DEF TombstoneLinked, PublishVerify, PublishUnlinked, DoneSync,
      DropOwnedSync, env
  <2>2. pc' \notin {"jStage", "jSwap"}
    BY <1>1, RaiseLabel DEF TombstoneLinked, PublishVerify, PublishUnlinked, DoneSync,
      DropOwnedSync, PublishNext, Goto
  <2> QED BY <1>1, <2>1, <2>2 DEF TombstoneLinked, PublishVerify, PublishUnlinked, DoneSync,
        DropOwnedSync, Silent
<1>2. CASE \/ PlanNothing \/ RegisterFile \/ CheckSource \/ PublishCheck \/ PublishReady
           \/ DoneTombstones
  <2>1. UNCHANGED <<disk, env>>
    BY <1>2 DEF PlanNothing, RegisterFile, CheckSource, PublishCheck, PublishReady,
      DoneTombstones, disk, env
  <2>2. Steady
    BY <2>1, SameSteady DEF disk, env
  <2>3. pc' \notin {"jStage", "jSwap"}
    BY <1>2, RaiseLabel DEF PlanNothing, RegisterFile, CheckSource, PublishCheck, PublishReady,
      DoneTombstones, Goto, Exit
  <2> QED BY <2>1, <2>2, <2>3 DEF disk, Silent
<1> QED BY <1>1, <1>2

\* So are the steps of the except clause but the restoring call.
LEMMA SilentRollback ==
  ASSUME IInv, DurabilityInv, Handler \/ RollbackEntry \/ RollbackSync \/ RollbackDone \/ FinallyNext
  PROVE  Silent /\ Steady
<1>1. CASE RollbackSync
  BY <1>1, SyncSteady DEF RollbackSync, env, Silent, Goto
<1>2. CASE Handler \/ RollbackEntry \/ RollbackDone \/ FinallyNext
  <2>1. UNCHANGED <<disk, env>>
    BY <1>2 DEF Handler, RollbackEntry, RollbackDone, FinallyNext, disk, env
  <2>2. Steady
    BY <2>1, SameSteady DEF disk, env
  <2>3. pc' \notin {"jStage", "jSwap"}
    BY <1>2 DEF Handler, RollbackEntry, RollbackDone, FinallyNext, RollbackError, Goto, Exit
  <2> QED BY <2>1, <2>2, <2>3 DEF disk, Silent
<1> QED BY <1>1, <1>2

\* Writing the journal in a phase other than "committed" keeps the commit point.
LEMMA JournalDurability ==
  ASSUME IInv, DurabilityInv,
         \/ RecoverPending \/ RecoverPendingSync \/ DropJournal \/ DropJournalSync
         \/ JournalStage \/ JournalSync
  PROVE  DurabilityInv'
<1> DEFINE Committed == \E j \in jsurv : j.phase = "committed"
<1>1. jr \in jsurv /\ Steady
  BY SameSteady DEF DurabilityInv, RecoverPending, RecoverPendingSync, DropJournal,
    DropJournalSync, JournalStage, JournalSync, env
<1>2. Committed => SurelyNew'
  BY <1>1, SteadyNew DEF DurabilityInv
<1>3. \A e \in Entry : fs'[e] \in surv'[e]
  BY <1>1 DEF Steady
<1>4. jr \in Journal
  BY DEF IInv, TypeOK, DiskTypeOK
<1>5. CASE RecoverPending
  <2>1. jr'.phase = jr.phase /\ jsurv' = jsurv \cup {jr'} /\ pc' = "recSync"
    BY <1>4, <1>5 DEF RecoverPending, SetJournal, Goto, Journal
  <2> QED BY <1>1, <1>2, <1>3, <2>1 DEF DurabilityInv
<1>6. CASE DropJournal
  <2>1. jr'.phase = "none" /\ jsurv' = jsurv \cup {jr'} /\ pc' = "dropSync"
    BY <1>6 DEF DropJournal, SetJournal, Goto, NoEntry
  <2> QED BY <1>1, <1>2, <1>3, <2>1 DEF DurabilityInv
<1>7. CASE JournalStage
  <2>1. jr'.phase = jr.phase /\ jsurv' = jsurv \cup {jr'} /\ pc' = "jSwap" /\ want' = want
    BY <1>4, <1>7 DEF JournalStage, SetJournal, Goto, Journal, KeepMemory
  <2>2. want = "committed" => SurelyNew
    BY <1>7 DEF JournalStage, DurabilityInv
  <2>3. want = "committed" => SurelyNew'
    BY <1>1, <2>2, SteadyNew
  <2>4. Committed => jr.phase \in {"committed", "none"} /\ want # "preparing"
    BY <1>7 DEF JournalStage, DurabilityInv
  <2>5. Precedes(jr.phase, want)
    BY <1>7 DEF JournalStage, IInv, PhaseInv
  <2>6. jr.phase # "committed"
    BY <2>5 DEF Precedes
  <2>7. ~Committed
    BY <2>4, <2>5, <2>6 DEF Precedes
  <2>8. ~Committed'
    BY <2>1, <2>6, <2>7
  <2> QED BY <1>1, <1>3, <2>1, <2>3, <2>8 DEF DurabilityInv
<1>8. CASE RecoverPendingSync \/ DropJournalSync \/ JournalSync
  <2>1. jsurv' = {jr} /\ jr' = jr
    BY <1>8 DEF RecoverPendingSync, DropJournalSync, JournalSync, SyncRoot
  <2>2. pc' \notin {"jStage", "jSwap"}
    BY <1>8 DEF RecoverPendingSync, DropJournalSync, JournalSync, Goto, Exit
  <2> QED BY <1>1, <1>2, <1>3, <2>1, <2>2 DEF DurabilityInv
<1> QED BY <1>5, <1>6, <1>7, <1>8

\* The commit itself: the journal may come back committed only over new contents
\* that are sure to come back.
LEMMA SwapDurability == ASSUME IInv, DurabilityInv, JournalSwap PROVE DurabilityInv'
<1>1. Steady
  BY SameSteady DEF JournalSwap, env
<1>2. jr'.phase = want /\ jsurv' = jsurv \cup {jr'} /\ pc' = "jSync"
  BY DEF JournalSwap, SetJournal, Goto
<1>3. Precedes(jr.phase, want)
  BY DEF JournalSwap, IInv, PhaseInv
<1>4. ~(\E j \in jsurv : j.phase = "committed")
  BY <1>3 DEF DurabilityInv, JournalSwap, Precedes
<1>5. want = "committed" => SurelyNew'
  BY <1>1, SteadyNew DEF DurabilityInv, JournalSwap
<1>6. (\E j \in jsurv' : j.phase = "committed") => want = "committed"
  BY <1>2, <1>4
<1> QED BY <1>1, <1>2, <1>5, <1>6 DEF Steady, DurabilityInv

\* Before the commit all published contents are synced.
LEMMA SyncDurability == ASSUME IInv, DurabilityInv, StageSync \/ FinalCheck PROVE DurabilityInv'
<1>1. Steady
  BY SyncSteady, SameSteady DEF StageSync, FinalCheck, env
<1>2. UNCHANGED <<jr, jsurv>> /\ jr.phase \in {"preparing", "prepared"}
  BY DEF StageSync, FinalCheck, IInv, PhaseInv, PreparingLabel, PreparedLabel
<1>3. ~(\E j \in jsurv : j.phase = "committed")
  BY <1>2 DEF DurabilityInv
<1>4. pc' \in {"jStage", "jSwap"} /\ want' = "committed" => SurelyNew'
  <2>1. CASE StageSync
    BY <2>1 DEF StageSync
  <2>2. CASE FinalCheck /\ \A e \in Entry : Published(e)
    <3>1. \A e \in Entry : surv'[e] = {fs[e]} /\ NewIn(e, fs[e])
      BY <2>2 DEF FinalCheck, Sync, Published, NewIn
    <3>2. UNCHANGED <<kind, touched>>
      BY <1>1 DEF Steady
    <3> QED BY <3>1, <3>2 DEF SurelyNew, Ours, NewIn
  <2>3. CASE FinalCheck /\ ~(\A e \in Entry : Published(e))
    BY <2>3, RaiseLabel DEF FinalCheck
  <2> QED BY <2>1, <2>2, <2>3
<1> QED BY <1>1, <1>2, <1>3, <1>4 DEF Steady, DurabilityInv

\* Planning and publishing happen while no committed journal may come back.
LEMMA WriteDurability ==
  ASSUME IInv, IInv', DurabilityInv, RecoverAct \/ RollbackAct \/ PublishSwap
  PROVE  DurabilityInv'
<1>1. cur \in Entry /\ UNCHANGED <<jr, jsurv>> /\ jr.phase = "prepared"
  BY DEF RecoverAct, RollbackAct, PublishSwap, IInv, IndexInv, EntryLabel, PhaseInv, PreparedLabel
<1>2. ~(\E j \in jsurv : j.phase = "committed")
  BY <1>1 DEF DurabilityInv
<1>3. pc' \notin {"jStage", "jSwap"}
  BY RaiseLabel DEF RecoverAct, RollbackAct, RollbackError, PublishSwap, Goto, Exit
<1>4. UNCHANGED <<fs, surv>> \/ \E f : SetNames(cur, f)
  BY DEF RecoverAct, RollbackAct, PublishSwap
<1>5. \A e \in Entry : fs'[e] \in surv'[e]
  <2>1. fs \in [Entry -> Names] /\ surv \in [Entry -> SUBSET Names]
    BY DEF IInv, TypeOK, DiskTypeOK
  <2> QED BY <1>1, <1>4, <2>1 DEF SetNames, DurabilityInv
<1> QED BY <1>1, <1>2, <1>3, <1>5 DEF DurabilityInv

\* A new plan starts from a durable state.
LEMMA PlanDurability == ASSUME IInv, DurabilityInv, Plan PROVE DurabilityInv'
<1>1. jr' = jr /\ jsurv' = {jr} /\ jr.phase = "none" /\ want' = "preparing"
  BY DEF Plan, IInv, PhaseInv
<1>2. \A e \in Entry : surv'[e] = {fs'[e]}
  BY DEF Plan
<1> QED BY <1>1, <1>2 DEF DurabilityInv

\* Errors and kills change nothing on disk but the pending journal.
LEMMA FaultDurability == ASSUME IInv, DurabilityInv, Fail \/ Crash PROVE DurabilityInv'
<1>1. Steady
  BY SameSteady DEF Fail, Crash, disk
<1>2. jr'.phase = jr.phase /\ jsurv' \in {jsurv, jsurv \cup {jr'}} /\ jr' \in jsurv'
  <2>1. CASE Crash
    BY <2>1 DEF Crash, disk, DurabilityInv
  <2>2. CASE Fail /\ pc \in JournalLabel
    <3>1. SetJournal([jr EXCEPT !.pending = FALSE])
      BY <2>2 DEF Fail, JournalLabel
    <3>2. jr \in [phase : Phase, pending : BOOLEAN]
      BY DEF IInv, TypeOK, DiskTypeOK, Journal
    <3>3. [jr EXCEPT !.pending = FALSE].phase = jr.phase
      BY <3>2
    <3>4. jr' = [jr EXCEPT !.pending = FALSE] /\ jsurv' = jsurv \cup {jr'}
      BY <3>1 DEF SetJournal
    <3> QED BY <3>3, <3>4
  <2>3. CASE Fail /\ pc \notin JournalLabel
    BY <2>3 DEF Fail, JournalLabel, DurabilityInv
  <2> QED BY <2>1, <2>2, <2>3
<1>3. pc' \notin {"jStage", "jSwap"}
  BY RaiseLabel DEF Fail, Crash, Exit, RollbackError, Escape, Goto
<1>4. (\E j \in jsurv : j.phase = "committed") => SurelyNew'
  BY <1>1, SteadyNew DEF DurabilityInv
<1> QED BY <1>1, <1>2, <1>3, <1>4 DEF Steady, DurabilityInv

\* Whatever a power loss brings back, a committed journal comes with new contents.
LEMMA PowerLossDurability == ASSUME IInv, DurabilityInv, PowerLoss PROVE DurabilityInv'
<1>1. jr' \in jsurv /\ jsurv' = {jr'} /\ UNCHANGED <<kind, touched>>
  BY DEF PowerLoss
<1>2. \A e \in Entry : surv'[e] = {fs'[e]} /\ fs'[e] \in surv[e]
  BY DEF PowerLoss
<1>3. pc' = "idle"
  BY DEF PowerLoss, Exit
<1>4. SurelyNew => SurelyNew'
  BY <1>1, <1>2 DEF SurelyNew, NewIn, Ours
<1> QED BY <1>1, <1>2, <1>3, <1>4 DEF DurabilityInv

\* What the user does to a file makes it a touched one, but for a swept tombstone.
LEMMA UserDurability == ASSUME IInv, DurabilityInv, User PROVE DurabilityInv'
<1>1. PICK e \in Entry : UserEdit(e) \/ UserReplace(e) \/ UserDelete(e) \/ UserSweep(e)
  BY DEF User
<1>2. UNCHANGED <<mem, jr, jsurv, kind>>
  BY <1>1 DEF UserEdit, UserReplace, UserDelete, UserSweep, UserStep
<1>3. fs \in [Entry -> Names] /\ surv \in [Entry -> SUBSET Names]
  BY DEF IInv, TypeOK, DiskTypeOK
<1>4. (\A d \in Entry : fs'[d] \in surv'[d]) /\ (SurelyNew => SurelyNew')
  <2>1. CASE UserEdit(e)
    BY <1>2, <2>1 DEF UserEdit, DurabilityInv, SurelyNew, NewIn, Ours
  <2>2. CASE UserReplace(e) \/ UserDelete(e)
    <3>1. PICK f : SetNames(e, f) /\ touched' = touched \cup {e}
      BY <2>2 DEF UserReplace, UserDelete
    <3> QED BY <1>2, <1>3, <3>1 DEF SetNames, DurabilityInv, SurelyNew, NewIn, Ours
  <2>3. CASE UserSweep(e)
    <3>1. [fs[e] EXCEPT !.tomb = "none"].dest = fs[e].dest
      BY <1>3 DEF Names
    <3>2. Steady
      BY <1>2, <2>3, <3>1, RebindSteady DEF UserSweep, IInv, TypeOK
    <3> QED BY <3>2, SteadyNew DEF Steady
  <2> QED BY <1>1, <2>1, <2>2, <2>3
<1> QED BY <1>2, <1>4 DEF DurabilityInv, mem

\* The commit point is inductive.
LEMMA DurabilityNext == IInv /\ DurabilityInv /\ [Next]_vars => DurabilityInv'
<1> SUFFICES ASSUME IInv, DurabilityInv, [Next]_vars PROVE DurabilityInv'
  OBVIOUS
<1>1. CASE Recover
  BY <1>1, SilentRecover, SilentDurability, JournalDurability, WriteDurability, NextInv DEF Recover
<1>2. CASE Apply
  BY <1>2, SilentApply, SilentCheck, SilentDurability, JournalDurability, SwapDurability,
     SyncDurability, WriteDurability, PlanDurability, NextInv DEF Apply
<1>3. CASE Rollback
  BY <1>3, SilentRollback, SilentDurability, WriteDurability, NextInv DEF Rollback
<1>4. CASE Fail \/ Crash \/ PowerLoss \/ User
  BY <1>4, FaultDurability, PowerLossDurability, UserDurability
<1>5. CASE UNCHANGED vars
  BY <1>5 DEF vars, disk, mem, env, DurabilityInv, SurelyNew, NewIn, Ours
<1> QED BY <1>1, <1>2, <1>3, <1>4, <1>5 DEF Next, Step

\* The commit point holds for any number of files, kills, errors and power losses, and
\* whatever the user does: no journal that may come back says "committed" before the
\* new contents of every untouched file are sure to come back.
THEOREM CommitDurable == Spec => []CommitIsDurable
<1>1. Init => IInv /\ DurabilityInv
  <2>1. Init => DurabilityInv
    BY DEF Init, DurabilityInv, NoEntry
  <2> QED BY <2>1, InitInv
<1>2. IInv /\ DurabilityInv /\ [Next]_vars => (IInv /\ DurabilityInv)'
  BY NextInv, DurabilityNext
<1>3. DurabilityInv => CommitIsDurable
  BY DEF DurabilityInv, SurelyNew, CommitIsDurable, Ours
<1> QED BY <1>1, <1>2, <1>3, PTL DEF Spec

--------------------------------------------------------------------------------
(* What the configurator knows it staged                                    *)

\* Labels at which nothing was staged in this run, and labels of either way to end.
IdleLabel == {"idle", "recStart", "recSync", "recEntry", "recAct", "clean", "plan"}
DropLabel == {"dropJournal", "dropSync"}

MemoryInv ==
  /\ pc \in IdleLabel => ~active
  /\ pc \in JournalLabel => mode = "apply" /\ (active <=> want # "preparing")
  /\ pc \notin IdleLabel \cup JournalLabel \cup DropLabel => active
  /\ mode = "recover" => ~active
  /\ ~active => \A e \in Entry : owned[e] = {}

\* Backups that were registered are there until the last cleanup.
BackupsInv ==
  /\ pc \notin {"dropOwned", "finally"} => \A e \in Entry : "old" \in owned[e] => fs[e].old = "old"
  /\ pc = "dropOwned" => \A e \in Entry : e < cur => owned[e] = {}
  /\ pc = "register" /\ First(Needs(cur) \ owned[cur]) = "old" => fs[cur].old = "old"
  /\ pc = "rbAct" => op # "oldBack"

\* Staging goes through the entries in order, and publication finds all of it.
StagedInv ==
  /\ pc \in {"stage", "register", "source"} =>
       \A e \in Entry : e < cur => Needs(e) \subseteq owned[e]
  /\ pc = "source" => Needs(cur) \subseteq owned[cur]
  /\ pc = "stageSync" \/ (pc \in JournalLabel /\ want = "prepared") =>
       \A e \in Entry : Needs(e) \subseteq owned[e]
  /\ pc \in PublishLabel => \A e \in Entry : e > cur => Needs(e) \subseteq owned[e]
  /\ pc \in PublishLabel \ {"pubUnlink", "pubUnlinked"} => Needs(cur) \subseteq owned[cur]
  /\ pc = "pubSwap" /\ kind[cur] = "update" => fs[cur].new = "new"

StagingInv == MemoryInv /\ BackupsInv /\ StagedInv

\* Memory that is gone claims nothing.
LEMMA ExitStaging == ASSUME Exit PROVE StagingInv'
BY DEF Exit, StagingInv, MemoryInv, BackupsInv, StagedInv, IdleLabel, DropLabel, JournalLabel,
  PublishLabel

\* A raise in a transaction keeps what is staged.
LEMMA RaiseStaging ==
  ASSUME StagingInv, Raise, pc \notin {"dropOwned", "finally"}, \A e \in Entry : fs'[e].old = fs[e].old
  PROVE  StagingInv'
<1>1. CASE mode = "apply" /\ active
  BY <1>1 DEF Raise, KeepMemory, StagingInv, MemoryInv, BackupsInv, StagedInv, IdleLabel,
    DropLabel, JournalLabel, PublishLabel
<1>2. CASE ~(mode = "apply" /\ active)
  BY <1>2, ExitStaging DEF Raise
<1> QED BY <1>1, <1>2

\* Steps that only check or sync, on the way through a recovery.
LEMMA RecoverStaging ==
  ASSUME IInv, StagingInv,
         \/ Start \/ RecoverPending \/ RecoverPendingSync \/ RecoverDispatch \/ RecoverEntry
         \/ RecoverSync \/ CleanNext \/ CleanSync \/ DropJournal \/ DropJournalSync
  PROVE  StagingInv'
<1> USE DEF StagingInv, MemoryInv, BackupsInv, StagedInv, IdleLabel, DropLabel, JournalLabel,
      PublishLabel, disk, env, Goto, KeepMemory
<1>1. CASE Start
  BY <1>1 DEF Start
<1>2. CASE RecoverPending
  BY <1>2 DEF RecoverPending
<1>3. CASE RecoverPendingSync
  BY <1>3 DEF RecoverPendingSync
<1>4. CASE RecoverDispatch
  BY <1>4 DEF RecoverDispatch, IInv, TypeOK, DiskTypeOK, Journal, Phase
<1>5. CASE RecoverEntry
  BY <1>5, ExitStaging DEF RecoverEntry
<1>6. CASE RecoverSync
  BY <1>6 DEF RecoverSync
<1>7. CASE CleanNext
  BY <1>7 DEF CleanNext
<1>8. CASE CleanSync
  BY <1>8 DEF CleanSync
<1>9. CASE DropJournal
  BY <1>9 DEF DropJournal
<1>10. CASE DropJournalSync
  BY <1>10, ExitStaging DEF DropJournalSync
<1> QED BY <1>1, <1>2, <1>3, <1>4, <1>5, <1>6, <1>7, <1>8, <1>9, <1>10

\* In a recovery nothing is known to be staged, so removing and restoring is free to.
LEMMA RestoreStaging ==
  ASSUME IInv, StagingInv, RecoverAct \/ CleanTemporary
  PROVE  StagingInv'
<1>1. pc \in {"recAct", "clean"} /\ UNCHANGED kind
  BY DEF RecoverAct, CleanTemporary, env
<1>2. ~active /\ \A e \in Entry : owned[e] = {}
  BY <1>1 DEF StagingInv, MemoryInv, IdleLabel
<1>3. Exit \/ (pc' \in {"recEntry", "clean"} /\ UNCHANGED <<mode, want, active, owned>>)
  BY DEF RecoverAct, CleanTemporary, Goto
<1> QED BY <1>1, <1>2, <1>3, ExitStaging DEF StagingInv, MemoryInv, BackupsInv, StagedInv,
      IdleLabel, DropLabel, JournalLabel, PublishLabel

\* Planning and writing the journal.
LEMMA JournalStaging ==
  ASSUME IInv, StagingInv, Plan \/ PlanNothing \/ JournalStage \/ JournalSwap \/ JournalSync
  PROVE  StagingInv'
<1> USE DEF IdleLabel, DropLabel, JournalLabel, PublishLabel
<1>1. CASE Plan
  BY <1>1 DEF Plan, Goto, StagingInv, MemoryInv, BackupsInv, StagedInv
<1>2. CASE PlanNothing
  BY <1>2, ExitStaging DEF PlanNothing
<1>3. CASE JournalStage \/ JournalSwap
  <2>1. /\ pc \in {"jStage", "jSwap"} /\ pc' \in {"jSwap", "jSync"}
        /\ UNCHANGED <<fs, kind, mode, want, active, owned>>
    BY <1>3 DEF JournalStage, JournalSwap, Goto, KeepMemory, env
  <2>2. MemoryInv'
    BY <2>1 DEF StagingInv, MemoryInv
  <2>3. BackupsInv'
    BY <2>1 DEF StagingInv, BackupsInv
  <2>4. StagedInv'
    BY <2>1 DEF StagingInv, StagedInv, Needs
  <2> QED BY <2>2, <2>3, <2>4 DEF StagingInv
<1>4. CASE JournalSync
  <2>1. /\ pc = "jSync" /\ active' = TRUE /\ cur' = 1 /\ UNCHANGED <<fs, kind, mode, want, owned>>
        /\ pc' = (IF want = "preparing" THEN "stage"
                  ELSE IF want = "prepared" THEN "pubCheck" ELSE "doneTomb")
    BY <1>4 DEF JournalSync, Goto, env
  <2>2. MemoryInv'
    BY <2>1 DEF StagingInv, MemoryInv
  <2>3. BackupsInv'
    BY <2>1 DEF StagingInv, BackupsInv
  <2>4. 1 \in Entry /\ \A e \in Entry : ~(e < 1)
    BY EntryFacts, ConstantsAssumption DEF Entry
  <2>5. StagedInv'
    BY <2>1, <2>4 DEF StagingInv, StagedInv, Needs
  <2> QED BY <2>2, <2>3, <2>5 DEF StagingInv
<1> QED BY <1>1, <1>2, <1>3, <1>4

\* Staging: every file of an entry is staged and registered before the next entry.
LEMMA StageStaging ==
  ASSUME IInv, StagingInv, StageFile \/ RegisterFile \/ CheckSource \/ StageSync
  PROVE  StagingInv'
<1> USE DEF IdleLabel, DropLabel, JournalLabel, PublishLabel
<1>1. cur \in Entry \/ pc = "stageSync"
  BY DEF StageFile, RegisterFile, CheckSource, StageSync, IInv, IndexInv, EntryLabel
<1>2. fs \in [Entry -> Names] /\ owned \in [Entry -> SUBSET (Temp \cup {"orig"})]
  BY DEF IInv, TypeOK, DiskTypeOK, MemTypeOK
<1>3. CASE StageFile
  <2> DEFINE t == First(Needs(cur) \ owned[cur])
             Refused == t # "tomb" /\ Existed(cur) /\ fs[cur].dest = "none"
  <2>1. CASE Refused
    BY <1>3, <2>1, RaiseStaging DEF StageFile
  <2>2. CASE ~Refused
    <3>1. /\ pc = "stage" /\ pc' = "register" /\ UNCHANGED <<kind, cur, mode, want, active, owned>>
          /\ fs' = [fs EXCEPT ![cur] = [fs[cur] EXCEPT ![t] = Staged(t)]]
      BY <1>3, <2>2 DEF StageFile, Goto, KeepMemory, SetNames, env
    <3>2. \A e \in Entry : fs'[e].old = IF e = cur /\ t = "old" THEN "old" ELSE fs[e].old
      <4>1. t \in Temp /\ fs[cur] \in Names /\ cur \in Entry
        BY <1>1, <1>2, <3>1, FirstType
      <4>2. [fs[cur] EXCEPT ![t] = Staged(t)].old = IF t = "old" THEN "old" ELSE fs[cur].old
        BY <4>1 DEF Names, Staged, Temp
      <4> QED BY <1>2, <3>1, <4>1, <4>2
    <3>3. MemoryInv'
      BY <3>1 DEF StagingInv, MemoryInv
    <3>4. BackupsInv'
      BY <1>1, <3>1, <3>2 DEF StagingInv, BackupsInv, Needs
    <3>5. StagedInv'
      BY <3>1 DEF StagingInv, StagedInv, Needs
    <3> QED BY <3>3, <3>4, <3>5 DEF StagingInv
  <2> QED BY <2>1, <2>2
<1>4. CASE RegisterFile
  <2> DEFINE t == First(Needs(cur) \ owned[cur])
  <2>1. /\ pc = "register" /\ UNCHANGED <<kind, fs, cur, mode, want, active>>
        /\ owned' = [owned EXCEPT ![cur] = @ \cup {t}]
        /\ pc' = (IF owned'[cur] = Needs(cur) THEN "source" ELSE "stage")
    BY <1>4 DEF RegisterFile, Goto, disk, env
  <2>2. MemoryInv'
    BY <2>1 DEF StagingInv, MemoryInv
  <2>3. BackupsInv'
    BY <1>1, <1>2, <2>1 DEF StagingInv, BackupsInv
  <2>4. StagedInv'
    BY <1>1, <1>2, <2>1 DEF StagingInv, StagedInv, Needs, Entry
  <2> QED BY <2>2, <2>3, <2>4 DEF StagingInv
<1>5. CASE CheckSource
  <2>1. CASE Existed(cur) /\ ~Intact(cur)
    BY <1>5, <2>1, RaiseStaging DEF CheckSource, disk
  <2>2. CASE ~(Existed(cur) /\ ~Intact(cur))
    <3>1. /\ pc = "source" /\ UNCHANGED <<kind, fs, mode, want, active, owned>>
          /\ \/ pc' = "stage" /\ cur' = cur + 1
             \/ pc' = "stageSync" /\ ~(cur < N)
      BY <1>5, <2>2 DEF CheckSource, Goto, KeepMemory, disk, env
    <3>2. MemoryInv' /\ BackupsInv'
      BY <3>1 DEF StagingInv, MemoryInv, BackupsInv
    <3>3. cur \in Entry /\ \A e \in Entry : /\ e < cur + 1 => e < cur \/ e = cur
                                            /\ ~(cur < N) => e < cur \/ e = cur
      BY <1>1, <3>1, ConstantsAssumption DEF Entry
    <3>4. StagedInv'
      BY <3>1, <3>3 DEF StagingInv, StagedInv, Needs
    <3> QED BY <3>2, <3>4 DEF StagingInv
  <2> QED BY <2>1, <2>2
<1>6. CASE StageSync
  <2>1. /\ pc = "stageSync" /\ pc' = "jStage" /\ want' = "prepared"
        /\ UNCHANGED <<kind, fs, mode, active, owned>>
    BY <1>6 DEF StageSync, Goto, env
  <2>2. active => mode = "apply"
    BY DEF StagingInv, MemoryInv, IInv, TypeOK, MemTypeOK
  <2>3. MemoryInv' /\ BackupsInv'
    BY <2>1, <2>2 DEF StagingInv, MemoryInv, BackupsInv
  <2>4. StagedInv'
    BY <2>1 DEF StagingInv, StagedInv, Needs
  <2> QED BY <2>3, <2>4 DEF StagingInv
<1> QED BY <1>3, <1>4, <1>5, <1>6


\* What publishing does to the names of the entry, when it does not raise.
LEMMA SwapNames ==
  ASSUME IInv, PublishSwap
  PROVE  \/ Raise /\ UNCHANGED fs
         \/ /\ pc' = "pubVerify" /\ UNCHANGED <<cur, mode, op, want, active, owned, tried, failed, resync>>
            /\ \A e \in Entry : e # cur => fs'[e] = fs[e]
            /\ fs'[cur].old = fs[cur].old
            /\ kind[cur] = "update" =>
                 /\ fs'[cur].dest = fs[cur].new /\ fs'[cur].new = "none"
                 /\ fs'[cur].tomb = fs[cur].tomb
            /\ kind[cur] = "delete" =>
                 /\ fs'[cur].dest = "none" /\ fs'[cur].tomb = fs[cur].dest
                 /\ fs'[cur].new = fs[cur].new
            /\ kind[cur] = "create" =>
                 /\ fs'[cur].dest = "new" /\ fs'[cur].new = fs[cur].new
                 /\ fs'[cur].tomb = fs[cur].tomb
<1>1. cur \in Entry /\ fs \in [Entry -> Names] /\ fs[cur] \in Names /\ kind[cur] \in Kind
  BY DEF PublishSwap, IInv, IndexInv, EntryLabel, TypeOK, DiskTypeOK, EnvTypeOK
<1> DEFINE f == fs[cur]
           g == CASE kind[cur] = "update" -> [f EXCEPT !.dest = f.new, !.new = "none"]
                  [] kind[cur] = "delete" -> [f EXCEPT !.tomb = f.dest, !.dest = "none"]
                  [] OTHER -> [f EXCEPT !.dest = "new"]
           Possible == /\ kind[cur] = "delete" => f.dest # "none"
                       /\ kind[cur] = "create" => f.dest = "none"
<1>2. CASE ~Possible
  BY <1>2 DEF PublishSwap
<1>3. CASE Possible
  <2>1. /\ fs' = [fs EXCEPT ![cur] = g] /\ pc' = "pubVerify" /\ cur' = cur
        /\ UNCHANGED <<mode, op, want, active, owned, tried, failed, resync>>
    BY <1>3 DEF PublishSwap, SetNames, Goto, KeepMemory
  <2>2. fs'[cur] = g /\ \A e \in Entry : e # cur => fs'[e] = fs[e]
    BY <1>1, <2>1
  <2>3. CASE kind[cur] = "update"
    <3>1. g = [f EXCEPT !.dest = f.new, !.new = "none"]
      BY <2>3
    <3>2. g.dest = f.new /\ g.new = "none" /\ g.old = f.old /\ g.tomb = f.tomb
      BY <1>1, <3>1 DEF Names
    <3> QED BY <2>1, <2>2, <2>3, <3>2
  <2>4. CASE kind[cur] = "delete"
    <3>1. g = [f EXCEPT !.tomb = f.dest, !.dest = "none"]
      BY <2>4
    <3>2. g.dest = "none" /\ g.tomb = f.dest /\ g.old = f.old /\ g.new = f.new
      BY <1>1, <3>1 DEF Names
    <3> QED BY <2>1, <2>2, <2>4, <3>2
  <2>5. CASE kind[cur] = "create"
    <3>1. g = [f EXCEPT !.dest = "new"]
      BY <2>5
    <3>2. g.dest = "new" /\ g.new = f.new /\ g.old = f.old /\ g.tomb = f.tomb
      BY <1>1, <3>1 DEF Names
    <3> QED BY <2>1, <2>2, <2>5, <3>2
  <2> QED BY <1>1, <2>3, <2>4, <2>5 DEF Kind
<1> QED BY <1>2, <1>3

\* The steps of the publication of an entry.
LEMMA PublishStaging ==
  ASSUME IInv, StagingInv,
         \/ PublishCheck \/ TombstoneDrop \/ TombstoneLink \/ TombstoneLinked \/ PublishReady
         \/ PublishSwap \/ PublishUnlink
  PROVE  StagingInv'
<1> USE DEF IdleLabel, DropLabel, JournalLabel, PublishLabel
<1>1. /\ cur \in Entry /\ pc \in PublishLabel \ {"pubVerify", "pubUnlinked"}
      /\ fs \in [Entry -> Names] /\ kind[cur] \in Kind
  BY DEF PublishCheck, TombstoneDrop, TombstoneLink, TombstoneLinked, PublishReady, PublishSwap,
    PublishUnlink, IInv, IndexInv, EntryLabel, TypeOK, DiskTypeOK, EnvTypeOK
<1>2. \A e \in Entry : fs'[e].old = fs[e].old
  <2>1. CASE PublishSwap
    BY <2>1, SwapNames
  <2>2. CASE PublishCheck \/ TombstoneLinked \/ PublishReady
    BY <2>2 DEF PublishCheck, TombstoneLinked, PublishReady, disk
  <2>3. CASE TombstoneDrop \/ TombstoneLink \/ PublishUnlink
    <3>1. /\ [fs[cur] EXCEPT !.tomb = "none"].old = fs[cur].old
          /\ [fs[cur] EXCEPT !.tomb = fs[cur].dest].old = fs[cur].old
          /\ [fs[cur] EXCEPT !.new = "none"].old = fs[cur].old
      BY <1>1 DEF Names
    <3> QED BY <1>1, <2>3, <3>1 DEF TombstoneDrop, TombstoneLink, PublishUnlink, SetNames
  <2> QED BY <2>1, <2>2, <2>3
<1>3. CASE Raise
  BY <1>1, <1>2, <1>3, RaiseStaging
<1>4. CASE ~Raise
  <2>1. /\ pc' \in PublishLabel \cup {"handler"}
        /\ pc' \in PublishLabel /\ pc' \notin {"pubUnlink", "pubUnlinked"} =>
             pc \notin {"pubUnlink", "pubUnlinked"}
        /\ UNCHANGED <<kind, cur, mode, want, active>>
    BY <1>4 DEF PublishCheck, TombstoneDrop, TombstoneLink, TombstoneLinked, PublishReady,
      PublishSwap, PublishUnlink, Goto, KeepMemory, disk, env
  <2>2. \A e \in Entry : owned'[e] = owned[e] \/ owned'[e] = owned[e] \cup {"orig"}
    <3>1. CASE TombstoneLinked
      <4>1. owned \in [Entry -> SUBSET (Temp \cup {"orig"})]
        BY DEF IInv, TypeOK, MemTypeOK
      <4>2. owned' = [owned EXCEPT ![cur] = @ \cup {"orig"}]
        BY <1>4, <3>1 DEF TombstoneLinked
      <4> QED BY <4>1, <4>2
    <3>2. CASE ~TombstoneLinked
      <4>1. owned' = owned
        BY <1>4, <3>2 DEF PublishCheck, TombstoneDrop, TombstoneLink, PublishReady,
          PublishSwap, PublishUnlink, KeepMemory
      <4> QED BY <4>1
    <3> QED BY <3>1, <3>2
  <2>3. pc' = "pubSwap" /\ kind[cur] = "update" => fs'[cur].new = "new"
    BY <1>1, <1>4 DEF PublishCheck, TombstoneDrop, TombstoneLink, TombstoneLinked, PublishReady,
      PublishSwap, PublishUnlink, Goto, disk, Kind
  <2>4. MemoryInv'
    BY <1>1, <2>1 DEF StagingInv, MemoryInv
  <2>5. BackupsInv'
    <3>1. \A e \in Entry : "old" \in owned'[e] => "old" \in owned[e]
      BY <2>2
    <3> QED BY <1>1, <1>2, <2>1, <3>1 DEF StagingInv, BackupsInv
  <2>6. StagedInv'
    <3>1. \A e \in Entry : Needs(e)' = Needs(e) /\ (Needs(e) \subseteq owned[e] => Needs(e) \subseteq owned'[e])
      BY <2>1, <2>2 DEF Needs
    <3> QED BY <1>1, <2>1, <2>3, <3>1 DEF StagingInv, StagedInv
  <2> QED BY <2>4, <2>5, <2>6 DEF StagingInv
<1> QED BY <1>3, <1>4

\* What the restoring system call does to the names of an entry.
LEMMA PerformedNames ==
  ASSUME DiskTypeOK, op \in Op, NEW e \in Entry
  PROVE  /\ Performed(e).new = fs[e].new
         /\ op # "oldBack" => Performed(e).old = fs[e].old
         /\ op \in {"keep", "refuse"} => Performed(e) = fs[e]
         /\ op = "dropTomb" => Performed(e).dest = fs[e].dest /\ Performed(e).tomb = "none"
         /\ op = "tombBack" => Performed(e).dest = fs[e].tomb /\ Performed(e).tomb = "none"
         /\ op = "oldBack" => /\ Performed(e).dest = fs[e].old /\ Performed(e).old = "none"
                              /\ Performed(e).tomb = fs[e].tomb
         /\ op = "dropDest" => Performed(e).dest = "none" /\ Performed(e).tomb = fs[e].tomb
<1>1. fs[e] \in Names
  BY DEF DiskTypeOK
<1>2. CASE op = "dropTomb"
  <2>1. Performed(e) = [fs[e] EXCEPT !.tomb = "none"]
    BY <1>2 DEF Performed
  <2> QED BY <1>1, <1>2, <2>1 DEF Names
<1>3. CASE op = "tombBack"
  <2>1. Performed(e) = [fs[e] EXCEPT !.dest = fs[e].tomb, !.tomb = "none"]
    BY <1>3 DEF Performed
  <2> QED BY <1>1, <1>3, <2>1 DEF Names
<1>4. CASE op = "oldBack"
  <2>1. Performed(e) = [fs[e] EXCEPT !.dest = fs[e].old, !.old = "none"]
    BY <1>4 DEF Performed
  <2> QED BY <1>1, <1>4, <2>1 DEF Names
<1>5. CASE op = "dropDest"
  <2>1. Performed(e) = [fs[e] EXCEPT !.dest = "none"]
    BY <1>5 DEF Performed
  <2> QED BY <1>1, <1>5, <2>1 DEF Names
<1>6. CASE op \in {"keep", "refuse"}
  BY <1>6 DEF Performed
<1> QED BY <1>2, <1>3, <1>4, <1>5, <1>6 DEF Op

\* The end of the publication of an entry, and of the whole publication.
LEMMA VerifyStaging ==
  ASSUME IInv, StagingInv, PublishVerify \/ PublishUnlinked \/ FinalCheck
  PROVE  StagingInv'
<1> USE DEF IdleLabel, DropLabel, JournalLabel, PublishLabel
<1>1. fs' = fs /\ UNCHANGED kind /\ owned \in [Entry -> SUBSET (Temp \cup {"orig"})]
  BY DEF PublishVerify, PublishUnlinked, FinalCheck, env, IInv, TypeOK, MemTypeOK
<1>2. pc = "final" \/ (cur \in Entry /\ pc \in {"pubVerify", "pubUnlinked"})
  BY DEF PublishVerify, PublishUnlinked, FinalCheck, IInv, IndexInv, EntryLabel
<1>3. CASE Raise
  BY <1>1, <1>2, <1>3, RaiseStaging
<1>4. CASE ~Raise /\ (PublishVerify \/ PublishUnlinked)
  <2>1. /\ UNCHANGED <<mode, want, active>>
        /\ \A e \in Entry : "old" \in owned'[e] => "old" \in owned[e]
        /\ \A e \in Entry : e # cur => owned'[e] = owned[e]
    BY <1>1, <1>4 DEF PublishVerify, PublishUnlinked
  <2>2. \/ pc' = "pubUnlink" /\ cur' = cur
        \/ pc' = "pubCheck" /\ cur' = cur + 1
        \/ pc' = "final"
    BY <1>4 DEF PublishVerify, PublishUnlinked, PublishNext, Goto
  <2>3. cur \in Entry /\ \A e \in Entry : e >= cur + 1 => e > cur /\ e # cur
    BY <1>2, <1>4 DEF PublishVerify, PublishUnlinked, Entry
  <2>4. active
    BY <1>2, <1>4 DEF PublishVerify, PublishUnlinked, StagingInv, MemoryInv
  <2>5. MemoryInv'
    BY <2>1, <2>2, <2>4 DEF StagingInv, MemoryInv
  <2>6. BackupsInv'
    BY <1>1, <1>2, <2>1, <2>2 DEF StagingInv, BackupsInv
  <2>7. StagedInv'
    <3>1. \A e \in Entry : e > cur => Needs(e)' \subseteq owned'[e]
      <4>1. \A e \in Entry : e > cur => e # cur
        BY <2>3, ConstantsAssumption DEF Entry
      <4>2. pc \in PublishLabel
        BY <1>4 DEF PublishVerify, PublishUnlinked
      <4>3. \A e \in Entry : e > cur => Needs(e) \subseteq owned[e]
        BY <4>2 DEF StagingInv, StagedInv
      <4>4. \A e \in Entry : Needs(e)' = Needs(e)
        BY <1>1 DEF Needs
      <4> QED BY <2>1, <4>1, <4>3, <4>4
    <3>2. pc' = "pubCheck" => cur' \in Entry /\ cur' > cur
      <4>1. pc' = "pubCheck" => cur < N
        BY <1>4 DEF PublishVerify, PublishUnlinked, PublishNext, Goto
      <4> QED BY <2>2, <2>3, <4>1, ConstantsAssumption DEF Entry
    <3>3. \A e \in Entry : pc' \in PublishLabel /\ e > cur' => e > cur
      BY <2>2, <2>3 DEF Entry
    <3>4. pc' \in PublishLabel \ {"pubUnlink", "pubUnlinked"} => Needs(cur)' \subseteq owned'[cur']
      BY <2>2, <3>1, <3>2
    <3> QED BY <2>2, <3>1, <3>3, <3>4 DEF StagedInv
  <2> QED BY <2>5, <2>6, <2>7 DEF StagingInv
<1>5. CASE ~Raise /\ FinalCheck
  <2>1. /\ pc = "final" /\ pc' = "jStage" /\ want' = "committed"
        /\ UNCHANGED <<mode, active, owned>>
    BY <1>5 DEF FinalCheck, Goto
  <2>2. active => mode = "apply"
    BY DEF StagingInv, MemoryInv, IInv, TypeOK, MemTypeOK
  <2>3. MemoryInv' /\ BackupsInv'
    BY <1>1, <2>1, <2>2 DEF StagingInv, MemoryInv, BackupsInv
  <2>4. StagedInv'
    BY <2>1 DEF StagedInv
  <2> QED BY <2>3, <2>4 DEF StagingInv
<1> QED BY <1>3, <1>4, <1>5

\* Cleanup after the commit, and the removal of what was staged.
LEMMA DoneStaging ==
  ASSUME IInv, StagingInv,
         DoneTombstone \/ DoneSync \/ DoneTombstones \/ DropOwned \/ DropOwnedSync
  PROVE  StagingInv'
<1> USE DEF IdleLabel, DropLabel, JournalLabel, PublishLabel
<1>1. fs \in [Entry -> Names] /\ owned \in [Entry -> SUBSET (Temp \cup {"orig"})] /\ UNCHANGED kind
  BY DEF DoneTombstone, DoneSync, DoneTombstones, DropOwned, DropOwnedSync, env, IInv, TypeOK,
    DiskTypeOK, MemTypeOK
<1>2. active
  BY DEF DoneTombstone, DoneSync, DoneTombstones, DropOwned, DropOwnedSync, StagingInv, MemoryInv
<1>3. CASE Exit
  BY <1>3, ExitStaging
<1>4. CASE ~Exit /\ (DoneTombstone \/ DoneSync \/ DoneTombstones)
  <2>1. pc \notin {"dropOwned", "finally"} /\ pc' \in {"doneTomb", "doneSync", "dropOwned"} /\ UNCHANGED <<mode, want, active>>
    BY <1>4 DEF DoneTombstone, DoneSync, DoneTombstones, Goto, KeepMemory
  <2>2. \A e \in Entry : owned'[e] \subseteq owned[e]
    BY <1>1, <1>4 DEF DoneTombstone, DoneSync, DoneTombstones, KeepMemory
  <2>3. \A e \in Entry : fs'[e].old = fs[e].old
    <3>1. CASE DoneTombstone
      <4>1. cur \in Entry /\ [fs[cur] EXCEPT !.tomb = "none"].old = fs[cur].old
        BY <1>1, <3>1 DEF DoneTombstone, Names
      <4> QED BY <1>1, <3>1, <4>1 DEF DoneTombstone, SetNames
    <3>2. CASE DoneSync \/ DoneTombstones
      BY <3>2 DEF DoneSync, DoneTombstones, disk
    <3> QED BY <1>4, <3>1, <3>2
  <2>4. pc' = "dropOwned" => cur' = 1
    BY <1>4 DEF DoneTombstone, DoneSync, DoneTombstones, Goto
  <2>5. \A e \in Entry : ~(e < 1)
    BY ConstantsAssumption DEF Entry
  <2>6. MemoryInv'
    BY <1>2, <2>1 DEF StagingInv, MemoryInv
  <2>7. BackupsInv'
    BY <2>1, <2>2, <2>3, <2>4, <2>5 DEF StagingInv, BackupsInv
  <2>8. StagedInv'
    BY <2>1 DEF StagedInv
  <2> QED BY <2>6, <2>7, <2>8 DEF StagingInv
<1>5. CASE ~Exit /\ DropOwned
  <2>1. UNCHANGED mem
    BY <1>5 DEF DropOwned
  <2> QED BY <1>1, <1>5, <2>1 DEF DropOwned, mem, StagingInv, MemoryInv, BackupsInv, StagedInv
<1>6. CASE ~Exit /\ DropOwnedSync
  <2>1. /\ pc = "dropOwned" /\ cur \in Entry /\ UNCHANGED <<fs, mode, want, active>>
        /\ owned' = [owned EXCEPT ![cur] = {}]
        /\ \/ pc' = "dropOwned" /\ cur' = cur + 1
           \/ pc' = "dropJournal" /\ ~(cur < N)
    BY <1>6 DEF DropOwnedSync, Goto
  <2>2. \A e \in Entry : (e < cur + 1 \/ ~(cur < N)) => e < cur \/ e = cur
    BY <2>1, ConstantsAssumption DEF Entry
  <2>3. MemoryInv'
    BY <1>2, <2>1 DEF StagingInv, MemoryInv
  <2>4. BackupsInv'
    BY <1>1, <2>1, <2>2 DEF StagingInv, BackupsInv
  <2>5. StagedInv'
    BY <2>1 DEF StagedInv
  <2> QED BY <2>3, <2>4, <2>5 DEF StagingInv
<1> QED BY <1>3, <1>4, <1>5, <1>6

\* The except clause restores from tombstones, never from the backups it staged.
LEMMA RollbackStaging == ASSUME IInv, StagingInv, Rollback PROVE StagingInv'
<1> USE DEF IdleLabel, DropLabel, JournalLabel, PublishLabel
<1>1. /\ pc \in {"handler", "rbEntry", "rbAct", "rbSync", "finally"} /\ UNCHANGED kind
      /\ fs \in [Entry -> Names]
  BY DEF Rollback, Handler, RollbackEntry, RollbackAct, RollbackSync, RollbackDone, FinallyNext,
    env, IInv, TypeOK, DiskTypeOK
<1>2. CASE Exit
  BY <1>2, ExitStaging
<1>3. CASE ~Exit
  <2>1. /\ pc' \in {"rbEntry", "rbAct", "rbSync", "dropOwned", "finally"}
        /\ pc = "finally" => pc' = "finally"
        /\ UNCHANGED <<mode, want, active, owned>>
        /\ pc' = "dropOwned" => cur' = 1
    BY <1>3 DEF Rollback, Handler, RollbackEntry, RollbackAct, RollbackSync, RollbackDone,
      FinallyNext, RollbackError, Goto, KeepMemory
  <2>2. \A e \in Entry : fs'[e].old = fs[e].old
    <3>1. CASE RollbackAct
      <4>1. cur \in Entry /\ op # "oldBack" /\ op \in Op /\ DiskTypeOK
        BY <3>1 DEF RollbackAct, IInv, IndexInv, EntryLabel, TypeOK, MemTypeOK, StagingInv, BackupsInv
      <4>2. Performed(cur).old = fs[cur].old
        BY <4>1, PerformedNames
      <4> QED BY <1>1, <3>1, <4>1, <4>2 DEF RollbackAct, SetNames
    <3>2. CASE ~RollbackAct
      BY <3>2 DEF Rollback, Handler, RollbackEntry, RollbackSync, RollbackDone, FinallyNext, disk
    <3> QED BY <3>1, <3>2
  <2>3. pc' = "rbAct" => op' # "oldBack"
    BY <1>3 DEF Rollback, Handler, RollbackEntry, RollbackAct, RollbackSync, RollbackDone,
      FinallyNext, RollbackError, Goto, RollbackOp, RestoreOp
  <2>4. \A e \in Entry : ~(e < 1)
    BY ConstantsAssumption DEF Entry
  <2>5. MemoryInv'
    BY <1>1, <2>1 DEF StagingInv, MemoryInv
  <2>6. BackupsInv'
    BY <1>1, <2>1, <2>2, <2>3, <2>4 DEF StagingInv, BackupsInv
  <2>7. StagedInv'
    BY <2>1 DEF StagedInv
  <2> QED BY <2>5, <2>6, <2>7 DEF StagingInv
<1> QED BY <1>2, <1>3

\* Faults lose memory or go on in the except clause or the cleanup.
LEMMA FaultStaging == ASSUME IInv, StagingInv, Fail \/ Crash \/ PowerLoss PROVE StagingInv'
<1> USE DEF IdleLabel, DropLabel, JournalLabel, PublishLabel
<1>1. CASE Exit
  BY <1>1, ExitStaging
<1>2. CASE ~Exit /\ Raise
  <2>1. pc \notin {"dropOwned", "finally"} /\ fs' = fs
    BY <1>2 DEF Fail, Crash, PowerLoss, Raise, Escape, Goto
  <2> QED BY <1>2, <2>1, RaiseStaging
<1>3. CASE ~Exit /\ ~Raise
  <2>1. /\ pc \in {"rbAct", "rbSync", "rbEntry", "doneTomb", "doneSync", "handler"}
        /\ pc' \in {"rbEntry", "doneTomb", "finally"}
        /\ UNCHANGED <<fs, kind, mode, want, active, owned>>
    BY <1>3 DEF Fail, Crash, PowerLoss, RollbackError, Escape, KeepMemory, Goto
  <2>2. MemoryInv' /\ BackupsInv' /\ StagedInv'
    BY <2>1 DEF StagingInv, MemoryInv, BackupsInv, StagedInv
  <2> QED BY <2>2 DEF StagingInv
<1> QED BY <1>1, <1>2, <1>3

\* The user has no access to the backups and the replacements.
LEMMA UserStaging == ASSUME IInv, StagingInv, User PROVE StagingInv'
<1>1. PICK e \in Entry : UserEdit(e) \/ UserReplace(e) \/ UserDelete(e) \/ UserSweep(e)
  BY DEF User
<1>2. UNCHANGED <<mem, kind>> /\ fs \in [Entry -> Names]
  BY <1>1 DEF UserEdit, UserReplace, UserDelete, UserSweep, UserStep, IInv, TypeOK, DiskTypeOK
<1>3. \A d \in Entry : fs'[d].old = fs[d].old /\ fs'[d].new = fs[d].new
  <2>1. /\ [fs[e] EXCEPT !.dest = "user"].old = fs[e].old
        /\ [fs[e] EXCEPT !.dest = "none"].old = fs[e].old
        /\ [fs[e] EXCEPT !.tomb = "none"].old = fs[e].old
        /\ [fs[e] EXCEPT !.dest = "user"].new = fs[e].new
        /\ [fs[e] EXCEPT !.dest = "none"].new = fs[e].new
        /\ [fs[e] EXCEPT !.tomb = "none"].new = fs[e].new
    BY <1>2 DEF Names
  <2> QED BY <1>1, <1>2, <2>1 DEF UserEdit, UserReplace, UserDelete, UserSweep, SetNames
<1>4. pc = "pubSwap" => cur \in Entry
  BY DEF IInv, IndexInv, EntryLabel
<1>5. MemoryInv'
  BY <1>2 DEF mem, StagingInv, MemoryInv
<1>6. BackupsInv'
  <2>1. pc = "register" => cur \in Entry
    BY DEF IInv, IndexInv, EntryLabel
  <2>2. Needs(cur)' = Needs(cur)
    BY <1>2 DEF Needs, mem
  <2> QED BY <1>2, <1>3, <2>1, <2>2 DEF mem, StagingInv, BackupsInv
<1>7. StagedInv'
  BY <1>2, <1>3, <1>4 DEF mem, StagingInv, StagedInv, Needs
<1> QED BY <1>5, <1>6, <1>7 DEF StagingInv

\* What the configurator knows it staged is there, in every reachable state.
LEMMA StagingNext == IInv /\ StagingInv /\ [Next]_vars => StagingInv'
<1> SUFFICES ASSUME IInv, StagingInv, [Next]_vars PROVE StagingInv'
  OBVIOUS
<1>1. CASE Recover
  BY <1>1, RecoverStaging, RestoreStaging DEF Recover
<1>2. CASE Apply
  BY <1>2, JournalStaging, StageStaging, PublishStaging, VerifyStaging, DoneStaging DEF Apply
<1>3. CASE Rollback
  BY <1>3, RollbackStaging
<1>4. CASE Fail \/ Crash \/ PowerLoss \/ User
  BY <1>4, FaultStaging, UserStaging
<1>5. CASE UNCHANGED vars
  <2>1. UNCHANGED <<fs, kind, pc, mode, cur, op, want, active, owned>>
    BY <1>5 DEF vars, disk, mem, env
  <2>2. MemoryInv'
    BY <2>1 DEF StagingInv, MemoryInv
  <2>3. BackupsInv'
    BY <2>1 DEF StagingInv, BackupsInv, Needs
  <2>4. StagedInv'
    BY <2>1 DEF StagingInv, StagedInv, Needs
  <2> QED BY <2>2, <2>3, <2>4 DEF StagingInv
<1> QED BY <1>1, <1>2, <1>3, <1>4, <1>5 DEF Next, Step

================================================================================
