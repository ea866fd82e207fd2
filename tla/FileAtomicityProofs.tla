-------------------------- MODULE FileAtomicityProofs --------------------------
(***************************************************************************)
(* Proofs about FileTransaction, continued: all or nothing, also after a   *)
(* loss of power, what recovery accepts and leaves behind, the refinement  *)
(* of AtomicUpdate, and what is kept of the user's files.  Every theorem   *)
(* names the constants it depends on; the numbers of files, faults and     *)
(* user steps are arbitrary in all of them.                                *)
(***************************************************************************)
EXTENDS FileTransactionProofs

\* What the files hold that only the program wrote.
Old(e)      == OldIn(e, fs[e])
New(e)      == NewIn(e, fs[e])
Undoable(e) == New(e) /\ (Existed(e) /\ ~Escapes => fs[e].old = "old")
AllOld      == \A e \in Ours : Old(e)
AllNew      == \A e \in Ours : New(e)
LaterOld(i) == \A e \in Ours : e > i => Old(e)

--------------------------------------------------------------------------------
(* What the files hold, by the phase of the journal                         *)

PhaseFiles ==
  /\ jr.phase = "none" => AllOld \/ AllNew
  /\ jr.phase = "preparing" => AllOld
  /\ jr.phase = "prepared" => \A e \in Ours : Old(e) \/ Undoable(e)
  /\ jr.phase = "committed" => AllNew

JournalFiles ==
  /\ pc \in {"jStage", "jSwap"} /\ want = "preparing" => AllOld
  /\ pc = "jSync" /\ want = "prepared" => AllOld
  /\ pc \in {"jStage", "jSwap"} /\ want = "committed" => AllNew /\ tried = N

PublishFiles ==
  /\ pc \in PublishLabel => LaterOld(cur)
  /\ pc = "pubCheck" => LaterOld(cur - 1) /\ tried >= cur - 1
  /\ pc \in PublishLabel \ {"pubCheck"} => tried = cur
  /\ pc = "final" => tried = N

UndoFiles ==
  /\ pc = "handler" /\ jr.phase = "prepared" => LaterOld(tried)
  /\ pc \in {"rbEntry", "rbAct", "rbSync"} /\ ~failed => LaterOld(cur)
  /\ pc = "rbSync" /\ cur \in Ours => Old(cur)
  /\ pc \in {"recEntry", "recAct"} => LaterOld(cur)
  /\ pc \in {"clean", "dropOwned", "dropJournal"} /\ jr.phase = "prepared" => AllOld

\* The restoring call that was chosen still restores.
ChosenOp ==
  pc \in {"recAct", "rbAct"} /\ cur \in Ours =>
    IF Existed(cur)
    THEN \/ op \in {"keep", "dropTomb"} /\ fs[cur].dest = "orig"
         \/ op = "tombBack" /\ fs[cur].tomb \in {"orig", "none"}
         \/ op = "oldBack" /\ fs[cur].old = "old"
    ELSE \/ op = "dropDest"
         \/ op = "keep" /\ fs[cur].dest = "none"

FilesInv == PhaseFiles /\ JournalFiles /\ PublishFiles /\ UndoFiles /\ ChosenOp

--------------------------------------------------------------------------------
(* Files nobody touched can be restored from their tombstones               *)

Untouched == touched = {} /\ \A e \in Entry : dirty[e] = {}

TombstoneFiles ==
  /\ \A e \in Entry : fs[e].dest # "old"
  /\ jr.phase \in {"preparing", "prepared"} =>
       \A e \in Entry : Existed(e) => fs[e].dest = "orig" \/ fs[e].tomb = "orig"

\* Between the check of a destination and its replacement the original is in place.
SwapLabel == {"pubDrop", "pubLink", "pubLinked", "pubReady", "pubSwap"}

TombstoneControl ==
  /\ pc \in {"recAct", "rbAct"} => op # "oldBack"
  /\ pc \in SwapLabel /\ Existed(cur) => fs[cur].dest = "orig"
  /\ pc \in {"pubReady", "pubSwap"} /\ kind[cur] = "update" => fs[cur].tomb = "orig"

TombstoneInv == moves = 0 => Untouched /\ TombstoneFiles /\ TombstoneControl

--------------------------------------------------------------------------------
(* Temporaries are registered, or the journal still asks for them           *)

\* staged_paths knows every temporary, but for the one that was just staged.
Registered ==
  /\ active /\ pc # "register" => \A e \in Entry : Present(e) \subseteq owned[e]
  /\ pc = "register" => \A e \in Entry :
       Present(e) \subseteq owned[e] \cup (IF e = cur THEN {First(Needs(e) \ owned[e])} ELSE {})

\* Without a journal there are none.
NoneLeft == jr.phase = "none" => \A e \in Entry : Present(e) = {}

\* What the loops over the temporaries have done so far.
Cleaned ==
  /\ pc = "jSync" /\ want = "preparing" => \A e \in Entry : Present(e) = {}
  /\ pc = "clean" => \A e \in Entry : e < cur => Present(e) = {}
  /\ pc = "dropJournal" => \A e \in Entry : Present(e) = {}
  /\ pc \in {"pubDrop", "pubLink"} => kind[cur] = "update"
  /\ pc = "pubVerify" /\ kind[cur] = "update" => "new" \notin Present(cur)
  /\ pc = "pubUnlinked" => "new" \notin Present(cur)
  /\ pc = "doneSync" => "tomb" \notin Present(cur)

CleanInv == NoneLeft /\ Registered /\ Cleaned

--------------------------------------------------------------------------------
(* What the files hold                                                      *)

\* A step that changes no destination and no backup.
SameFiles ==
  /\ Ours' = Ours /\ kind' = kind
  /\ \A e \in Entry : /\ Old(e)' <=> Old(e)
                      /\ New(e)' <=> New(e)
                      /\ Undoable(e)' <=> Undoable(e)

\* What an entry holds depends on its destination and its backup alone.
LEMMA FilesKept ==
  ASSUME UNCHANGED <<kind, touched>>,
         \A e \in Entry : fs'[e].dest = fs[e].dest /\ fs'[e].old = fs[e].old
  PROVE  SameFiles
BY DEF SameFiles, Ours, Old, New, Undoable, OldIn, NewIn, Existed

\* In such a step the files match the phase as long as the phase stays.
LEMMA PhaseKept ==
  ASSUME PhaseFiles, SameFiles, jr'.phase = jr.phase
  PROVE  PhaseFiles'
BY DEF PhaseFiles, SameFiles, AllOld, AllNew, Ours

\* An entry holds old contents or new ones, not both.
LEMMA OldNotNew == \A e \in Entry : Old(e) => ~New(e)
BY DEF Old, New, OldIn, NewIn, Existed

\* Leaving by a return or a death claims only what the phase says.
LEMMA ExitFiles ==
  ASSUME PhaseFiles', Exit
  PROVE  FilesInv'
BY DEF Exit, FilesInv, JournalFiles, PublishFiles, UndoFiles, ChosenOp, PublishLabel

\* Steps of recovery that change no file.
LEMMA RecoverFiles ==
  ASSUME IInv, FilesInv,
         \/ Start \/ RecoverPending \/ RecoverPendingSync \/ RecoverDispatch
         \/ RecoverSync \/ CleanNext \/ CleanSync \/ DropJournalSync
  PROVE  FilesInv'
<1>1. SameFiles
  <2>1. UNCHANGED <<fs, kind, touched>>
    BY DEF Start, RecoverPending, RecoverPendingSync, RecoverDispatch, RecoverSync, CleanNext,
      CleanSync, DropJournalSync, disk, env
  <2> QED BY <2>1, FilesKept
<1>2. jr'.phase = jr.phase /\ jr.phase \in Phase
  <2>1. jr \in Journal
    BY DEF IInv, TypeOK, DiskTypeOK
  <2>2. [jr EXCEPT !.pending = FALSE].phase = jr.phase
    BY <2>1 DEF Journal
  <2> QED BY <2>1, <2>2 DEF Start, RecoverPending, RecoverPendingSync, RecoverDispatch, RecoverSync,
        CleanNext, CleanSync, DropJournalSync, disk, SetJournal, Journal
<1>3. PhaseFiles'
  BY <1>1, <1>2, PhaseKept DEF FilesInv
<1>4. CASE Exit
  BY <1>3, <1>4, ExitFiles
<1>5. CASE ~Exit
  <2>1. /\ pc' \in {"recStart", "recSync", "plan", "recEntry", "clean", "idle", "dropJournal"}
        /\ pc' = "recEntry" => cur' = N
        /\ pc' \in {"clean", "dropJournal"} /\ jr.phase = "prepared" =>
             pc = "clean" \/ (pc = "recEntry" /\ cur = 0)
    BY <1>2, <1>5 DEF Start, RecoverPending, RecoverPendingSync, RecoverDispatch, RecoverSync,
        CleanNext, CleanSync, DropJournalSync, Goto, KeepMemory, Phase
  <2>2. \A e \in Entry : ~(e > N) /\ e > 0
    BY ConstantsAssumption DEF Entry
  <2>3. pc = "recEntry" /\ cur = 0 => AllOld
    BY <2>2 DEF FilesInv, UndoFiles, LaterOld, AllOld, Ours
  <2>4. pc' \in {"clean", "dropJournal"} /\ jr.phase = "prepared" => AllOld'
    BY <1>1, <2>1, <2>3 DEF FilesInv, UndoFiles, SameFiles, AllOld, Ours
  <2>5. JournalFiles' /\ PublishFiles' /\ ChosenOp'
    BY <2>1 DEF JournalFiles, PublishFiles, ChosenOp, PublishLabel
  <2>6. UndoFiles'
    BY <1>2, <2>1, <2>2, <2>4 DEF UndoFiles, LaterOld, Ours
  <2> QED BY <1>3, <2>5, <2>6 DEF FilesInv
<1> QED BY <1>4, <1>5

\* A choice of a restoring call that still restores.
LEMMA ChoiceFiles ==
  ASSUME NEW e \in Ours, NEW o, o # "refuse",
         \/ o = RecoverOp(e) \/ o = RollbackOp(e)
  PROVE  IF Existed(e)
         THEN \/ o \in {"keep", "dropTomb"} /\ fs[e].dest = "orig"
              \/ o = "tombBack" /\ fs[e].tomb \in {"orig", "none"}
              \/ o = "oldBack" /\ fs[e].old = "old"
         ELSE \/ o = "dropDest"
              \/ o = "keep" /\ fs[e].dest = "none"
BY DEF RecoverOp, RollbackOp, RestoreOp, CanUseBackup

\* The checks of recovery on an entry: it is in place already, or a call is chosen.
LEMMA RecoverEntryFiles == ASSUME IInv, FilesInv, RecoverEntry PROVE FilesInv'
<1>1. SameFiles /\ UNCHANGED <<fs, kind, touched>>
  BY FilesKept DEF RecoverEntry, disk, env
<1>2. PhaseFiles' /\ jr' = jr
  BY <1>1, PhaseKept DEF FilesInv, RecoverEntry, disk
<1>3. CASE Exit
  BY <1>2, <1>3, ExitFiles
<1>4. CASE ~Exit
  <2>1. cur \in Entry /\ pc = "recEntry" /\ RecoverAccepts(cur)
    BY <1>4 DEF RecoverEntry
  <2>2. \/ pc' = "recEntry" /\ cur' = cur - 1 /\ BackupInPlace(cur)
        \/ pc' = "recAct" /\ cur' = cur /\ op' = RecoverOp(cur) /\ op' # "refuse"
    BY <2>1 DEF RecoverEntry, RecoverAccepts, Goto
  <2>3. BackupInPlace(cur) => Old(cur)
    BY DEF BackupInPlace, Old, OldIn
  <2>4. \A e \in Entry : e > cur - 1 => e > cur \/ e = cur
    BY <2>1, ConstantsAssumption DEF Entry
  <2>5. UndoFiles'
    BY <1>1, <2>1, <2>2, <2>3, <2>4 DEF FilesInv, UndoFiles, LaterOld, SameFiles, Ours
  <2>6. ChosenOp'
    <3>1. SUFFICES ASSUME pc' = "recAct", cur \in Ours
                   PROVE  ChosenOp'
      BY <1>1, <2>2 DEF ChosenOp, Ours
    <3>2. op' = RecoverOp(cur) /\ op' # "refuse" /\ cur' = cur
      BY <2>2, <3>1
    <3> QED BY <1>1, <3>1, <3>2, ChoiceFiles DEF ChosenOp, Existed
  <2>7. JournalFiles' /\ PublishFiles'
    BY <2>2 DEF JournalFiles, PublishFiles, PublishLabel
  <2> QED BY <1>2, <2>5, <2>6, <2>7 DEF FilesInv
<1> QED BY <1>3, <1>4

\* The restoring call restores an untouched entry and disturbs no other one.
LEMMA RestoredFiles ==
  ASSUME IInv, FilesInv, pc \in {"recAct", "rbAct"}, CanPerform(cur),
         SetNames(cur, Performed(cur)), UNCHANGED <<jr, env>>
  PROVE  /\ PhaseFiles' /\ Ours' = Ours /\ kind' = kind
         /\ \A e \in Entry : e # cur => (Old(e)' <=> Old(e))
         /\ \A e \in Ours : e = cur => Old(e)'
<1>1. /\ cur \in Entry /\ DiskTypeOK /\ op \in Op /\ jr.phase = "prepared"
      /\ fs \in [Entry -> Names]
  BY DEF IInv, TypeOK, DiskTypeOK, MemTypeOK, IndexInv, EntryLabel, PhaseInv, PreparedLabel
<1>2. UNCHANGED <<kind, touched>> /\ Ours' = Ours
  BY DEF env, Ours
<1>3. fs'[cur] = Performed(cur) /\ \A e \in Entry : e # cur => fs'[e] = fs[e]
  BY <1>1 DEF SetNames
<1>4. \A e \in Entry : e # cur => /\ Old(e)' <=> Old(e)
                                  /\ Undoable(e)' <=> Undoable(e)
  BY <1>2, <1>3 DEF Old, Undoable, New, OldIn, NewIn, Existed
<1>5. ASSUME NEW c \in Ours, c = cur PROVE Old(c)'
  <2>1. IF Existed(cur)
        THEN \/ op \in {"keep", "dropTomb"} /\ fs[cur].dest = "orig"
             \/ op = "tombBack" /\ fs[cur].tomb \in {"orig", "none"}
             \/ op = "oldBack" /\ fs[cur].old = "old"
        ELSE \/ op = "dropDest"
             \/ op = "keep" /\ fs[cur].dest = "none"
    BY <1>5 DEF FilesInv, ChosenOp
  <2>2. op = "tombBack" => fs[cur].tomb # "none"
    BY DEF CanPerform
  <2>3. CASE Existed(cur)
    <3>1. Performed(cur).dest \in {"orig", "old"}
      BY <1>1, <2>1, <2>2, <2>3, PerformedNames
    <3> QED BY <1>2, <1>3, <1>5, <2>3, <3>1 DEF Old, OldIn, Existed
  <2>4. CASE ~Existed(cur)
    <3>1. Performed(cur).dest = "none"
      BY <1>1, <2>1, <2>4, PerformedNames
    <3> QED BY <1>2, <1>3, <1>5, <2>4, <3>1 DEF Old, OldIn, Existed
  <2> QED BY <2>3, <2>4
<1>6. PhaseFiles'
  <2>1. \A e \in Ours : Old(e)' \/ Undoable(e)'
    <3> TAKE e \in Ours
    <3>1. CASE e = cur
      BY <1>5, <3>1
    <3>2. CASE e # cur
      BY <1>1, <1>4, <3>2 DEF FilesInv, PhaseFiles, Ours
    <3> QED BY <3>1, <3>2
  <2> QED BY <1>1, <1>2, <2>1 DEF PhaseFiles
<1> QED BY <1>2, <1>4, <1>5, <1>6

\* Restoring an entry in a recovery.
LEMMA RecoverActFiles == ASSUME IInv, FilesInv, RecoverAct PROVE FilesInv'
<1>1. cur \in Entry /\ pc = "recAct" /\ UNCHANGED <<jr, env>>
  BY DEF RecoverAct, IInv, IndexInv, EntryLabel
<1>2. CASE ~CanPerform(cur)
  <2>1. UNCHANGED fs /\ Exit
    BY <1>2 DEF RecoverAct
  <2>2. SameFiles
    BY <1>1, <2>1, FilesKept DEF env
  <2> QED BY <1>1, <2>1, <2>2, PhaseKept, ExitFiles DEF FilesInv
<1>3. CASE CanPerform(cur)
  <2>1. /\ PhaseFiles' /\ Ours' = Ours
        /\ \A e \in Entry : e # cur => (Old(e)' <=> Old(e))
        /\ \A e \in Ours : e = cur => Old(e)'
    BY <1>1, <1>3, RestoredFiles DEF RecoverAct
  <2>2. CASE Exit
    BY <2>1, <2>2, ExitFiles
  <2>3. CASE ~Exit
    <3>1. pc' = "recEntry" /\ cur' = cur - 1
      BY <1>3, <2>3 DEF RecoverAct, Goto
    <3>2. \A e \in Entry : e > cur - 1 => e > cur \/ e = cur
      BY <1>1, ConstantsAssumption DEF Entry
    <3>3. \A e \in Ours : e > cur => Old(e)
      BY <1>1 DEF FilesInv, UndoFiles, LaterOld
    <3>4. \A e \in Ours : e > cur - 1 => Old(e)'
      <4> TAKE e \in Ours
      <4> HAVE e > cur - 1
      <4>1. e \in Entry
        BY DEF Ours
      <4>2. CASE e = cur
        BY <2>1, <4>2
      <4>3. CASE e # cur
        BY <2>1, <3>2, <3>3, <4>1, <4>3
      <4> QED BY <4>2, <4>3
    <3>5. UndoFiles'
      BY <2>1, <3>1, <3>4 DEF UndoFiles, LaterOld
    <3>6. JournalFiles' /\ PublishFiles' /\ ChosenOp'
      BY <3>1 DEF JournalFiles, PublishFiles, ChosenOp, PublishLabel
    <3> QED BY <2>1, <3>5, <3>6 DEF FilesInv
  <2> QED BY <2>2, <2>3
<1> QED BY <1>2, <1>3

\* Removing temporaries changes no destination, and needs no backup any more.
LEMMA RemoveFiles ==
  ASSUME IInv, FilesInv, CleanTemporary \/ DropOwned
  PROVE  FilesInv'
<1>1. /\ cur \in Entry /\ UNCHANGED <<jr, kind, touched>>
      /\ pc \in {"clean", "dropOwned", "finally"} /\ (pc = "finally" => Escapes)
  BY DEF CleanTemporary, DropOwned, env, IInv, PhaseInv
<1>2. \A e \in Entry : fs'[e].dest = fs[e].dest
  <2>1. DiskTypeOK /\ fs \in [Entry -> Names]
    BY DEF IInv, TypeOK, DiskTypeOK
  <2>2. fs' = fs \/ \E S : fs' = [fs EXCEPT ![cur] = [fs[cur] EXCEPT ![First(S)] = "none"]]
    BY DEF CleanTemporary, DropOwned, SetNames
  <2>3. CASE fs' = fs
    BY <2>3
  <2>4. CASE fs' # fs
    <3>1. PICK S : fs' = [fs EXCEPT ![cur] = [fs[cur] EXCEPT ![First(S)] = "none"]]
      BY <2>2, <2>4
    <3>2. [fs[cur] EXCEPT ![First(S)] = "none"].dest = fs[cur].dest
      BY <1>1, <2>1, UnbindFirst
    <3> QED BY <1>1, <2>1, <3>1, <3>2
  <2> QED BY <2>3, <2>4
<1>3. Ours' = Ours /\ \A e \in Entry : /\ Old(e)' <=> Old(e)
                                       /\ New(e)' <=> New(e)
  BY <1>1, <1>2 DEF Ours, Old, New, OldIn, NewIn, Existed
<1>4. jr.phase = "prepared" /\ pc # "finally" => AllOld
  BY <1>1 DEF FilesInv, UndoFiles
<1>5. (AllOld => AllOld') /\ (AllNew => AllNew')
  BY <1>3 DEF AllOld, AllNew, Ours
<1>6. PhaseFiles'
  <2>1. AllOld' => \A e \in Ours' : Old(e)'
    BY DEF AllOld
  <2>2. CASE pc # "finally"
    BY <1>1, <1>4, <1>5, <2>1, <2>2 DEF FilesInv, PhaseFiles
  <2>3. CASE pc = "finally"
    <3>1. \A e \in Ours' : Old(e) \/ Undoable(e) => Old(e)' \/ Undoable(e)'
      BY <1>1, <1>3, <2>3 DEF Undoable, Ours
    <3> QED BY <1>1, <1>3, <1>5, <2>3, <3>1 DEF FilesInv, PhaseFiles
  <2> QED BY <2>2, <2>3
<1>7. CASE Exit
  BY <1>6, <1>7, ExitFiles
<1>8. CASE ~Exit
  <2>1. pc' = pc
    BY <1>8 DEF CleanTemporary, DropOwned, mem
  <2> QED BY <1>1, <1>4, <1>5, <1>6, <2>1 DEF FilesInv, JournalFiles, PublishFiles, UndoFiles,
        ChosenOp, PublishLabel
<1> QED BY <1>7, <1>8

\* Without a journal the files are all old or all new.
LEMMA DropJournalFiles == ASSUME IInv, FilesInv, DropJournal PROVE FilesInv'
<1>1. SameFiles /\ jr'.phase = "none" /\ pc' = "dropSync" /\ jr.phase \in Phase
  BY FilesKept DEF DropJournal, env, SetJournal, Goto, NoEntry, IInv, TypeOK, DiskTypeOK, Journal
<1>2. AllOld \/ AllNew
  BY <1>1 DEF DropJournal, FilesInv, PhaseFiles, UndoFiles, Phase
<1>3. AllOld' \/ AllNew'
  BY <1>1, <1>2 DEF SameFiles, AllOld, AllNew, Ours
<1> QED BY <1>1, <1>3 DEF FilesInv, PhaseFiles, JournalFiles, PublishFiles, UndoFiles, ChosenOp,
      PublishLabel

\* A change set is planned over files that are all as they were found.
LEMMA PlanFiles == ASSUME IInv, Plan PROVE FilesInv'
<1>1. Ours' = Entry /\ \A e \in Entry : OldIn(e, fs[e])'
  BY DEF Plan, Ours, OldIn, Existed, NoFile
<1>2. AllOld'
  BY <1>1 DEF AllOld, Old, Ours
<1>3. pc' = "jStage" /\ want' = "preparing" /\ jr'.phase = "none"
  BY DEF Plan, Goto, IInv, PhaseInv
<1> QED BY <1>2, <1>3 DEF FilesInv, PhaseFiles, JournalFiles, PublishFiles, UndoFiles, ChosenOp,
      PublishLabel

\* Finding nothing to change.
LEMMA PlanNothingFiles == ASSUME FilesInv, PlanNothing PROVE FilesInv'
<1>1. SameFiles /\ jr' = jr /\ Exit
  BY FilesKept DEF PlanNothing, disk, env
<1> QED BY <1>1, PhaseKept, ExitFiles DEF FilesInv

\* Writing the journal: the phase changes when the files are ready for it.
LEMMA JournalFilesInv ==
  ASSUME IInv, FilesInv, JournalStage \/ JournalSwap \/ JournalSync
  PROVE  FilesInv'
<1>1. SameFiles /\ UNCHANGED <<want, tried>>
  BY FilesKept DEF JournalStage, JournalSwap, JournalSync, KeepMemory, env
<1>2. (AllOld' <=> AllOld) /\ (AllNew' <=> AllNew)
  BY <1>1 DEF SameFiles, AllOld, AllNew, Ours
<1>3. CASE JournalStage
  <2>1. jr'.phase = jr.phase
    <3>1. jr \in Journal /\ jr' = [jr EXCEPT !.pending = TRUE]
      BY <1>3 DEF JournalStage, SetJournal, IInv, TypeOK, DiskTypeOK
    <3> QED BY <3>1 DEF Journal
  <2>2. PhaseFiles'
    BY <1>1, <2>1, PhaseKept DEF FilesInv
  <2>3. pc = "jStage" /\ pc' = "jSwap"
    BY <1>3 DEF JournalStage, Goto
  <2> QED BY <1>1, <1>2, <2>2, <2>3 DEF FilesInv, JournalFiles, PublishFiles, UndoFiles, ChosenOp, PublishLabel
<1>4. CASE JournalSwap
  <2>1. pc = "jSwap" /\ pc' = "jSync" /\ jr'.phase = want /\ Precedes(jr.phase, want)
    BY <1>4 DEF JournalSwap, SetJournal, Goto, IInv, PhaseInv
  <2>2. want = "preparing" => AllOld'
    BY <1>2, <2>1 DEF FilesInv, JournalFiles
  <2>3. want = "prepared" => AllOld'
    BY <1>2, <2>1 DEF FilesInv, PhaseFiles, Precedes
  <2>4. want = "committed" => AllNew'
    BY <1>2, <2>1 DEF FilesInv, JournalFiles
  <2>5. PhaseFiles'
    BY <2>1, <2>2, <2>3, <2>4 DEF PhaseFiles, AllOld, Precedes
  <2>6. JournalFiles' /\ PublishFiles' /\ UndoFiles' /\ ChosenOp'
    BY <1>1, <2>1, <2>3 DEF JournalFiles, PublishFiles, UndoFiles, ChosenOp, PublishLabel
  <2> QED BY <2>5, <2>6 DEF FilesInv
<1>5. CASE JournalSync
  <2>1. /\ pc = "jSync" /\ cur' = 1 /\ jr' = jr
        /\ pc' = (IF want = "preparing" THEN "stage"
                  ELSE IF want = "prepared" THEN "pubCheck" ELSE "doneTomb")
    BY <1>5 DEF JournalSync, Goto
  <2>2. PhaseFiles'
    BY <1>1, <2>1, PhaseKept DEF FilesInv
  <2>3. pc' = "pubCheck" => AllOld'
    BY <1>2, <2>1 DEF FilesInv, JournalFiles
  <2>4. tried >= 1 - 1
    BY ConstantsAssumption DEF IInv, TypeOK, MemTypeOK
  <2>5. PublishFiles'
    BY <1>1, <2>1, <2>3, <2>4 DEF PublishFiles, LaterOld, AllOld, PublishLabel
  <2>6. JournalFiles' /\ UndoFiles' /\ ChosenOp'
    BY <2>1 DEF JournalFiles, UndoFiles, ChosenOp
  <2> QED BY <2>2, <2>5, <2>6 DEF FilesInv
<1> QED BY <1>3, <1>4, <1>5

\* A raise before anything was published.
LEMMA RaiseFiles ==
  ASSUME PhaseFiles', Raise, jr'.phase = "prepared" => LaterOld(tried)'
  PROVE  FilesInv'
<1>1. CASE mode = "apply" /\ active
  BY <1>1 DEF Raise, FilesInv, JournalFiles, PublishFiles, UndoFiles, ChosenOp, PublishLabel
<1>2. CASE ~(mode = "apply" /\ active)
  BY <1>2, ExitFiles DEF Raise
<1> QED BY <1>1, <1>2

\* Staging changes no destination.
LEMMA StageFiles ==
  ASSUME IInv, FilesInv, StageFile \/ RegisterFile \/ CheckSource \/ StageSync
  PROVE  FilesInv'
<1>1. UNCHANGED <<jr, kind, touched>> /\ jr.phase = "preparing"
  BY DEF StageFile, RegisterFile, CheckSource, StageSync, disk, env, IInv, PhaseInv, PreparingLabel
<1>2. \A e \in Entry : fs'[e].dest = fs[e].dest
  <2>1. CASE StageFile
    <3> DEFINE t == First(Needs(cur) \ owned[cur])
    <3>1. cur \in Entry /\ t \in Temp /\ Staged(t) \in Inode /\ fs[cur] \in Names /\ fs \in [Entry -> Names]
      BY <2>1, FirstType DEF StageFile, IInv, IndexInv, EntryLabel, TypeOK, DiskTypeOK, Staged, Temp, Inode
    <3>2. [fs[cur] EXCEPT ![t] = Staged(t)].dest = fs[cur].dest
      BY <3>1, NamesUpdate
    <3>3. fs' = fs \/ fs' = [fs EXCEPT ![cur] = [fs[cur] EXCEPT ![t] = Staged(t)]]
      BY <2>1 DEF StageFile, SetNames
    <3> QED BY <3>1, <3>2, <3>3
  <2>2. CASE RegisterFile \/ CheckSource \/ StageSync
    BY <2>2 DEF RegisterFile, CheckSource, StageSync, disk
  <2> QED BY <2>1, <2>2
<1>3. AllOld'
  <2>1. AllOld
    BY <1>1 DEF FilesInv, PhaseFiles
  <2> QED BY <1>1, <1>2, <2>1 DEF AllOld, Ours, Old, OldIn, Existed
<1>4. PhaseFiles' /\ jr'.phase = "preparing"
  BY <1>1, <1>3 DEF PhaseFiles
<1>5. CASE Raise
  BY <1>4, <1>5, RaiseFiles
<1>6. CASE ~Raise
  <2>1. /\ pc' \in {"register", "source", "stage", "stageSync", "jStage"}
        /\ pc' = "jStage" => want' = "prepared"
    BY <1>6 DEF StageFile, RegisterFile, CheckSource, StageSync, Goto
  <2> QED BY <1>4, <2>1 DEF FilesInv, JournalFiles, PublishFiles, UndoFiles, ChosenOp, PublishLabel
<1> QED BY <1>5, <1>6

\* Publishing an untouched entry leaves it undoable: its backup was staged.
LEMMA SwapFiles == ASSUME IInv, StagingInv, FilesInv, PublishSwap PROVE FilesInv'
<1>1. /\ cur \in Entry /\ pc = "pubSwap" /\ UNCHANGED <<jr, kind, touched>>
      /\ jr.phase = "prepared" /\ tried = cur /\ LaterOld(cur) /\ kind[cur] \in Kind
  BY DEF PublishSwap, env, IInv, IndexInv, EntryLabel, PhaseInv, PreparedLabel, FilesInv,
    PublishFiles, PublishLabel, TypeOK, EnvTypeOK
<1>2. CASE UNCHANGED fs /\ Raise
  <2>1. SameFiles
    BY <1>1, <1>2, FilesKept
  <2>2. PhaseFiles'
    BY <1>1, <2>1, PhaseKept DEF FilesInv
  <2>3. CASE mode = "apply" /\ active
    <3>1. tried' = tried
      BY <1>2, <2>3 DEF Raise, KeepMemory
    <3>2. LaterOld(tried)'
      BY <1>1, <2>1, <3>1 DEF LaterOld, SameFiles, Ours
    <3> QED BY <1>2, <2>2, <3>2, RaiseFiles
  <2>4. CASE ~(mode = "apply" /\ active)
    BY <1>2, <2>2, <2>4, ExitFiles DEF Raise
  <2> QED BY <2>3, <2>4
<1>3. CASE ~(UNCHANGED fs /\ Raise)
  <2>1. /\ pc' = "pubVerify" /\ UNCHANGED <<cur, tried>>
        /\ \A e \in Entry : e # cur => fs'[e] = fs[e]
        /\ fs'[cur].old = fs[cur].old
        /\ kind[cur] = "update" => fs'[cur].dest = fs[cur].new
        /\ kind[cur] = "delete" => fs'[cur].dest = "none"
        /\ kind[cur] = "create" => fs'[cur].dest = "new"
    BY <1>3, SwapNames
  <2>2. Existed(cur) => fs[cur].old = "old"
    <3>1. "old" \in owned[cur] => fs[cur].old = "old"
      BY <1>1 DEF StagingInv, BackupsInv
    <3>2. Needs(cur) \subseteq owned[cur]
      BY <1>1 DEF StagingInv, StagedInv, PublishLabel
    <3>3. Existed(cur) => "old" \in Needs(cur)
      BY <1>1 DEF Existed, Needs, Kind, Temp
    <3> QED BY <3>1, <3>2, <3>3
  <2>3. kind[cur] = "update" => fs[cur].new = "new"
    BY <1>1 DEF StagingInv, StagedInv
  <2>4. NewIn(cur, fs'[cur])
    BY <1>1, <2>1, <2>3 DEF NewIn, Kind
  <2>5. \A e \in Entry : e = cur => Undoable(e)'
    BY <1>1, <2>1, <2>2, <2>4 DEF Undoable, New, NewIn, Existed
  <2>6. \A e \in Entry : e # cur => /\ Old(e)' <=> Old(e)
                                    /\ Undoable(e)' <=> Undoable(e)
    BY <1>1, <2>1 DEF Old, Undoable, New, OldIn, NewIn, Existed
  <2>7. PhaseFiles'
    BY <1>1, <2>5, <2>6 DEF FilesInv, PhaseFiles, Ours
  <2>8. LaterOld(cur)'
    <3>1. \A e \in Entry : e > cur => e # cur
      BY <1>1, ConstantsAssumption DEF Entry
    <3> QED BY <1>1, <2>1, <2>6, <3>1 DEF LaterOld, Ours
  <2> QED BY <1>1, <2>1, <2>7, <2>8 DEF FilesInv, JournalFiles, PublishFiles, UndoFiles, ChosenOp,
        PublishLabel
<1> QED BY <1>2, <1>3

\* The other steps of the publication change no destination.
LEMMA PublishFilesInv ==
  ASSUME IInv, FilesInv,
         \/ PublishCheck \/ TombstoneDrop \/ TombstoneLink \/ TombstoneLinked \/ PublishReady
         \/ PublishVerify \/ PublishUnlink \/ PublishUnlinked
  PROVE  FilesInv'
<1>1. /\ cur \in Entry /\ pc \in PublishLabel \ {"pubSwap"} /\ UNCHANGED <<jr, kind, touched>>
      /\ jr.phase = "prepared" /\ fs \in [Entry -> Names] /\ fs[cur] \in Names
  BY DEF PublishCheck, TombstoneDrop, TombstoneLink, TombstoneLinked, PublishReady,
    PublishVerify, PublishUnlink, PublishUnlinked, disk, env, IInv, IndexInv, EntryLabel, PhaseInv,
    PreparedLabel, PublishLabel, TypeOK, DiskTypeOK
<1>2. SameFiles
  <2>1. /\ [fs[cur] EXCEPT !.tomb = "none"].dest = fs[cur].dest
        /\ [fs[cur] EXCEPT !.tomb = "none"].old = fs[cur].old
        /\ [fs[cur] EXCEPT !.tomb = fs[cur].dest].dest = fs[cur].dest
        /\ [fs[cur] EXCEPT !.tomb = fs[cur].dest].old = fs[cur].old
        /\ [fs[cur] EXCEPT !.new = "none"].dest = fs[cur].dest
        /\ [fs[cur] EXCEPT !.new = "none"].old = fs[cur].old
    BY <1>1 DEF Names
  <2>2. \/ fs' = fs
        \/ fs' = [fs EXCEPT ![cur] = [fs[cur] EXCEPT !.tomb = "none"]]
        \/ fs' = [fs EXCEPT ![cur] = [fs[cur] EXCEPT !.tomb = fs[cur].dest]]
        \/ fs' = [fs EXCEPT ![cur] = [fs[cur] EXCEPT !.new = "none"]]
    BY DEF PublishCheck, TombstoneDrop, TombstoneLink, TombstoneLinked, PublishReady,
      PublishVerify, PublishUnlink, PublishUnlinked, disk, SetNames
  <2>3. \A e \in Entry : fs'[e].dest = fs[e].dest /\ fs'[e].old = fs[e].old
    BY <1>1, <2>1, <2>2
  <2> QED BY <1>1, <2>3, FilesKept
<1>3. PhaseFiles'
  BY <1>1, <1>2, PhaseKept DEF FilesInv
<1>4. \A i : LaterOld(i) => \A e \in Ours' : e > i => Old(e)'
  BY <1>2 DEF SameFiles, LaterOld, Ours
<1>5. LaterOld(cur) /\ (pc # "pubCheck" => tried = cur)
  BY <1>1 DEF FilesInv, PublishFiles
<1>6. CASE Exit
  BY <1>3, <1>6, ExitFiles
<1>7. CASE ~Exit /\ Raise
  <2>1. pc' = "handler" /\ UNCHANGED <<cur, tried>> /\ (pc # "pubCheck" \/ tried >= cur - 1)
    BY <1>7 DEF Raise, KeepMemory, FilesInv, PublishFiles
  <2>2. LaterOld(tried)
    <3>1. pc = "pubCheck" => LaterOld(cur - 1) /\ tried >= cur - 1
      BY DEF FilesInv, PublishFiles
    <3>2. CASE pc = "pubCheck"
      <4>1. \A e \in Entry : e > tried => e > cur - 1
        BY <1>1, <3>1, <3>2, ConstantsAssumption DEF Entry, IInv, TypeOK, MemTypeOK
      <4> QED BY <3>1, <3>2, <4>1 DEF LaterOld, Ours
    <3>3. CASE pc # "pubCheck"
      BY <1>5, <3>3
    <3> QED BY <3>2, <3>3
  <2>3. LaterOld(tried)'
    BY <1>4, <2>1, <2>2 DEF LaterOld
  <2> QED BY <1>3, <1>7, <2>3, RaiseFiles
<1>8. CASE ~Exit /\ ~Raise
  <2>1. CASE PublishCheck
    <3>1. tried' = cur /\ cur' = cur /\ pc' \in (PublishLabel \ {"pubCheck"}) \cup {"handler"}
      BY <1>8, <2>1 DEF PublishCheck, Goto, PublishLabel
    <3>2. LaterOld(cur)'
      BY <1>4, <1>5, <3>1 DEF LaterOld
    <3> QED BY <1>3, <3>1, <3>2 DEF FilesInv, JournalFiles, PublishFiles, UndoFiles, ChosenOp,
          PublishLabel
  <2>2. CASE ~PublishCheck
    <3>1. /\ pc # "pubCheck" /\ tried' = tried
          /\ \/ pc' \in PublishLabel \ {"pubCheck"} /\ cur' = cur
             \/ pc' = "pubCheck" /\ cur' = cur + 1
             \/ pc' = "final" /\ ~(cur < N)
      BY <1>8, <2>2 DEF TombstoneDrop, TombstoneLink, TombstoneLinked, PublishReady,
        PublishVerify, PublishUnlink, PublishUnlinked, PublishNext, Goto, KeepMemory, PublishLabel
    <3>2. tried = cur
      BY <1>5, <3>1
    <3>3. CASE pc' \in PublishLabel \ {"pubCheck"} /\ cur' = cur
      <4>1. LaterOld(cur)'
        BY <1>4, <1>5, <3>3 DEF LaterOld
      <4> QED BY <1>3, <3>1, <3>2, <3>3, <4>1 DEF FilesInv, JournalFiles, PublishFiles, UndoFiles,
            ChosenOp, PublishLabel
    <3>4. CASE pc' = "pubCheck" /\ cur' = cur + 1
      <4>1. cur' - 1 = cur /\ tried >= cur /\ \A e \in Entry : e > cur + 1 => e > cur
        BY <1>1, <3>2, <3>4, ConstantsAssumption DEF Entry
      <4>2. LaterOld(cur)' /\ LaterOld(cur - 1)'
        BY <1>4, <1>5, <3>4, <4>1 DEF LaterOld, Ours
      <4> QED BY <1>3, <3>1, <3>4, <4>1, <4>2 DEF FilesInv, JournalFiles, PublishFiles, UndoFiles,
            ChosenOp, PublishLabel
    <3>5. CASE pc' = "final" /\ ~(cur < N)
      <4>1. tried = N
        BY <1>1, <3>2, <3>5, ConstantsAssumption DEF Entry
      <4> QED BY <1>3, <3>1, <3>5, <4>1 DEF FilesInv, JournalFiles, PublishFiles, UndoFiles,
            ChosenOp, PublishLabel
    <3> QED BY <3>1, <3>3, <3>4, <3>5
  <2> QED BY <2>1, <2>2
<1> QED BY <1>6, <1>7, <1>8

\* The commit is written only when every entry was seen published.
LEMMA FinalFiles == ASSUME IInv, FilesInv, FinalCheck PROVE FilesInv'
<1>1. SameFiles /\ UNCHANGED <<fs, kind, touched, jr>> /\ tried = N
  BY FilesKept DEF FinalCheck, env, FilesInv, PublishFiles
<1>2. PhaseFiles'
  BY <1>1, PhaseKept DEF FilesInv
<1>3. CASE \A e \in Entry : Published(e)
  <2>1. pc' = "jStage" /\ want' = "committed" /\ tried' = N
    BY <1>1, <1>3 DEF FinalCheck, Goto
  <2>2. AllNew'
    BY <1>1, <1>3 DEF AllNew, New, NewIn, Published, Ours
  <2> QED BY <1>2, <2>1, <2>2 DEF FilesInv, JournalFiles, PublishFiles, UndoFiles, ChosenOp, PublishLabel
<1>4. CASE ~(\A e \in Entry : Published(e))
  <2>1. Raise
    BY <1>4 DEF FinalCheck
  <2>2. CASE Exit
    BY <1>2, <2>2, ExitFiles
  <2>3. CASE ~Exit
    <3>1. tried' = N
      BY <1>1, <2>1, <2>3 DEF Raise, KeepMemory
    <3>2. LaterOld(tried)'
      BY <3>1, ConstantsAssumption DEF LaterOld, Ours, Entry
    <3> QED BY <1>2, <2>1, <3>2, RaiseFiles
  <2> QED BY <2>2, <2>3
<1> QED BY <1>3, <1>4

\* Cleanup after the commit takes no destination and no backup away.
LEMMA DoneFiles ==
  ASSUME IInv, FilesInv, DoneTombstone \/ DoneSync \/ DoneTombstones \/ DropOwnedSync
  PROVE  FilesInv'
<1>1. UNCHANGED <<jr, kind, touched>>
  BY DEF DoneTombstone, DoneSync, DoneTombstones, DropOwnedSync, disk, env
<1>2. SameFiles
  <2>1. CASE DoneTombstone
    <3>1. /\ cur \in Entry /\ fs \in [Entry -> Names]
          /\ [fs[cur] EXCEPT !.tomb = "none"].dest = fs[cur].dest
          /\ [fs[cur] EXCEPT !.tomb = "none"].old = fs[cur].old
      BY <2>1 DEF DoneTombstone, IInv, TypeOK, DiskTypeOK, Names
    <3>2. fs' = fs \/ fs' = [fs EXCEPT ![cur] = [fs[cur] EXCEPT !.tomb = "none"]]
      BY <2>1 DEF DoneTombstone, SetNames
    <3>3. \A e \in Entry : fs'[e].dest = fs[e].dest /\ fs'[e].old = fs[e].old
      BY <3>1, <3>2
    <3> QED BY <1>1, <3>3, FilesKept
  <2>2. CASE DoneSync \/ DoneTombstones \/ DropOwnedSync
    BY <1>1, <2>2, FilesKept DEF DoneSync, DoneTombstones, DropOwnedSync, disk
  <2> QED BY <2>1, <2>2
<1>3. PhaseFiles'
  BY <1>1, <1>2, PhaseKept DEF FilesInv
<1>4. CASE Exit
  BY <1>3, <1>4, ExitFiles
<1>5. CASE ~Exit
  <2>1. pc' \in {"doneSync", "doneTomb", "dropOwned", "dropJournal"}
    BY <1>5 DEF DoneTombstone, DoneSync, DoneTombstones, DropOwnedSync, Goto
  <2>2. pc' \in {"dropOwned", "dropJournal"} /\ jr.phase = "prepared" => AllOld
    <3>1. CASE DropOwnedSync
      BY <3>1 DEF DropOwnedSync, FilesInv, UndoFiles
    <3>2. CASE ~DropOwnedSync
      <4>1. pc = "doneTomb" \/ pc = "doneSync"
        BY <3>2 DEF DoneTombstone, DoneSync, DoneTombstones
      <4> QED BY <4>1 DEF IInv, PhaseInv
    <3> QED BY <3>1, <3>2
  <2>3. AllOld => AllOld'
    BY <1>2 DEF SameFiles, AllOld, Ours
  <2> QED BY <1>1, <1>3, <2>1, <2>2, <2>3 DEF FilesInv, JournalFiles, PublishFiles, UndoFiles,
        ChosenOp, PublishLabel
<1> QED BY <1>4, <1>5

\* The except clause decides by the phase, and goes back over the entries attempted.
LEMMA HandlerFiles ==
  ASSUME IInv, FilesInv,
         Handler \/ RollbackEntry \/ RollbackSync \/ RollbackDone \/ FinallyNext
  PROVE  FilesInv'
<1>1. UNCHANGED <<fs, jr, kind, touched>>
  BY DEF Handler, RollbackEntry, RollbackSync, RollbackDone, FinallyNext, disk, env
<1>2. SameFiles
  BY <1>1, FilesKept
<1>3. PhaseFiles'
  BY <1>1, <1>2, PhaseKept DEF FilesInv
<1>4. \A i : LaterOld(i) => \A e \in Ours' : e > i => Old(e)'
  BY <1>2 DEF SameFiles, LaterOld, Ours
<1>5. CASE Exit
  BY <1>3, <1>5, ExitFiles
<1>6. CASE ~Exit /\ Handler
  <2>1. \/ jr.phase = "prepared" /\ pc' = "rbEntry" /\ cur' = tried
        \/ jr.phase = "preparing" /\ pc' = "dropOwned"
    BY <1>6 DEF Handler, Goto
  <2>2. pc' = "rbEntry" => LaterOld(cur)'
    BY <1>4, <1>6, <2>1 DEF Handler, FilesInv, UndoFiles, LaterOld
  <2> QED BY <1>1, <1>3, <2>1, <2>2 DEF FilesInv, JournalFiles, PublishFiles, UndoFiles, ChosenOp, PublishLabel
<1>7. CASE ~Exit /\ RollbackEntry
  <2>1. /\ pc = "rbEntry" /\ cur \in Entry
        /\ \/ pc' = "rbEntry" /\ failed'
           \/ /\ pc' = "rbAct" /\ cur' = cur /\ op' = RollbackOp(cur) /\ op' # "refuse"
              /\ failed' = failed
    BY <1>7 DEF RollbackEntry, RollbackError, Goto
  <2>2. pc' = "rbAct" /\ ~failed' => LaterOld(cur)'
    BY <1>4, <2>1 DEF FilesInv, UndoFiles, LaterOld
  <2>3. ChosenOp'
    <3>1. SUFFICES ASSUME pc' = "rbAct", cur \in Ours
                   PROVE  ChosenOp'
      BY <1>1, <2>1 DEF ChosenOp, Ours
    <3>2. op' = RollbackOp(cur) /\ op' # "refuse" /\ cur' = cur
      BY <2>1, <3>1
    <3> QED BY <1>1, <3>1, <3>2, ChoiceFiles DEF ChosenOp, Existed
  <2>4. UndoFiles'
    BY <2>1, <2>2 DEF UndoFiles
  <2>5. JournalFiles' /\ PublishFiles'
    BY <2>1 DEF JournalFiles, PublishFiles, PublishLabel
  <2> QED BY <1>3, <2>3, <2>4, <2>5 DEF FilesInv
<1>8. CASE ~Exit /\ RollbackSync
  <2>1. pc = "rbSync" /\ pc' = "rbEntry" /\ cur' = cur - 1 /\ failed' = failed /\ cur \in Entry
    BY <1>8 DEF RollbackSync, Goto, KeepMemory, IInv, IndexInv, EntryLabel
  <2>2. \A e \in Entry : e > cur - 1 => e > cur \/ e = cur
    BY <2>1, ConstantsAssumption DEF Entry
  <2>3. ~failed => LaterOld(cur - 1)
    BY <2>1, <2>2 DEF FilesInv, UndoFiles, LaterOld, Ours
  <2>4. ~failed' => LaterOld(cur)'
    BY <1>4, <2>1, <2>3 DEF LaterOld
  <2> QED BY <1>3, <2>1, <2>4 DEF FilesInv, JournalFiles, PublishFiles, UndoFiles, ChosenOp, PublishLabel
<1>9. CASE ~Exit /\ RollbackDone
  <2>1. pc = "rbEntry" /\ cur = 0 /\ ~failed /\ pc' = "dropOwned"
    BY <1>9 DEF RollbackDone, FinallyNext, Goto
  <2>2. \A e \in Entry : e > 0
    BY ConstantsAssumption DEF Entry
  <2>3. AllOld
    BY <2>1, <2>2 DEF FilesInv, UndoFiles, LaterOld, AllOld, Ours
  <2>4. AllOld'
    BY <1>2, <2>3 DEF SameFiles, AllOld, Ours
  <2> QED BY <1>3, <2>1, <2>4 DEF FilesInv, JournalFiles, PublishFiles, UndoFiles, ChosenOp, PublishLabel
<1>10. CASE ~Exit /\ FinallyNext
  <2>1. pc' = "finally"
    BY <1>10 DEF FinallyNext, Goto
  <2> QED BY <1>3, <2>1 DEF FilesInv, JournalFiles, PublishFiles, UndoFiles, ChosenOp, PublishLabel
<1> QED BY <1>5, <1>6, <1>7, <1>8, <1>9, <1>10

\* Restoring an entry in the except clause.
LEMMA RollbackActFiles == ASSUME IInv, FilesInv, RollbackAct PROVE FilesInv'
<1>1. cur \in Entry /\ pc = "rbAct" /\ UNCHANGED <<jr, env>>
  BY DEF RollbackAct, IInv, IndexInv, EntryLabel
<1>2. CASE ~CanPerform(cur)
  <2>1. UNCHANGED fs /\ failed' /\ pc' = "rbEntry"
    BY <1>2 DEF RollbackAct, RollbackError, Goto
  <2>2. SameFiles
    BY <1>1, <2>1, FilesKept DEF env
  <2>3. PhaseFiles'
    BY <1>1, <2>2, PhaseKept DEF FilesInv
  <2> QED BY <2>1, <2>3 DEF FilesInv, JournalFiles, PublishFiles, UndoFiles, ChosenOp, PublishLabel
<1>3. CASE CanPerform(cur)
  <2>1. /\ PhaseFiles' /\ Ours' = Ours
        /\ \A e \in Entry : e # cur => (Old(e)' <=> Old(e))
        /\ \A e \in Ours : e = cur => Old(e)'
    BY <1>1, <1>3, RestoredFiles DEF RollbackAct
  <2>2. \/ pc' = "rbSync" /\ cur' = cur /\ failed' = failed
        \/ pc' = "rbEntry" /\ failed'
    BY <1>3 DEF RollbackAct, RollbackError, Goto
  <2>3. CASE pc' = "rbEntry" /\ failed'
    BY <2>1, <2>3 DEF FilesInv, JournalFiles, PublishFiles, UndoFiles, ChosenOp, PublishLabel
  <2>4. CASE pc' = "rbSync" /\ cur' = cur /\ failed' = failed
    <3>1. \A e \in Entry : e > cur => e # cur
      BY <1>1, ConstantsAssumption DEF Entry
    <3>2. ~failed' => LaterOld(cur)'
      BY <1>1, <2>1, <2>4, <3>1 DEF FilesInv, UndoFiles, LaterOld, Ours
    <3>3. cur' \in Ours' => Old(cur)'
      BY <2>1, <2>4
    <3> QED BY <2>1, <2>4, <3>2, <3>3 DEF FilesInv, JournalFiles, PublishFiles, UndoFiles, ChosenOp, PublishLabel
  <2> QED BY <2>2, <2>3, <2>4
<1> QED BY <1>2, <1>3

\* Errors and kills change no file; a power loss is another matter.
LEMMA FaultFiles == ASSUME IInv, StagingInv, FilesInv, Fail \/ Crash PROVE FilesInv'
<1>1. UNCHANGED <<fs, kind, touched>>
  BY DEF Fail, Crash, disk
<1>2. SameFiles
  BY <1>1, FilesKept
<1>3. jr'.phase = jr.phase
  <2>1. jr \in Journal
    BY DEF IInv, TypeOK, DiskTypeOK
  <2>2. [jr EXCEPT !.pending = FALSE].phase = jr.phase
    BY <2>1 DEF Journal
  <2>3. jr' = jr \/ jr' = [jr EXCEPT !.pending = FALSE]
    BY DEF Fail, Crash, disk, SetJournal
  <2> QED BY <2>2, <2>3
<1>4. PhaseFiles'
  BY <1>2, <1>3, PhaseKept DEF FilesInv
<1>5. CASE Exit
  BY <1>4, <1>5, ExitFiles
<1>6. CASE ~Exit /\ Raise
  <2>1. UNCHANGED tried /\ pc \notin {"handler", "idle", "plan", "rbEntry", "rbAct", "rbSync", "finally"}
    BY <1>6 DEF Fail, Crash, Raise, Escape, KeepMemory, RollbackError, Goto
  <2>2. ASSUME jr.phase = "prepared" PROVE LaterOld(tried)
    <3>1. CASE AllOld
      BY <3>1 DEF AllOld, LaterOld
    <3>2. CASE tried = N
      BY <3>2, ConstantsAssumption DEF LaterOld, Ours, Entry
    <3>3. CASE pc \in PublishLabel
      <4>1. cur \in Entry /\ tried \in Nat
        BY <3>3, ConstantsAssumption DEF IInv, IndexInv, EntryLabel, PublishLabel, TypeOK, MemTypeOK
      <4>2. \A e \in Entry : tried >= cur - 1 /\ e > tried => e > cur - 1
        BY <4>1, ConstantsAssumption DEF Entry
      <4> QED BY <3>3, <4>2 DEF FilesInv, PublishFiles, LaterOld, Ours
    <3>4. CASE pc \notin PublishLabel /\ ~AllOld /\ tried # N
      <4>1. pc \notin {"clean", "dropOwned", "dropJournal", "final"}
        BY <2>2, <3>4 DEF FilesInv, UndoFiles, PublishFiles
      <4>2. pc \notin JournalLabel
        BY <2>2, <3>4 DEF FilesInv, JournalFiles, JournalLabel, IInv, PhaseInv, Precedes
      <4>3. pc \notin PreparingLabel \cup {"dropSync", "doneTomb", "doneSync"}
        BY <2>2 DEF IInv, PhaseInv
      <4>4. pc \in {"recStart", "recSync", "recEntry", "recAct"}
        BY <2>1, <3>4, <4>1, <4>2, <4>3 DEF IInv, TypeOK, MemTypeOK, Label, PublishLabel,
          JournalLabel, PreparingLabel
      <4> QED BY <1>6, <4>4 DEF Raise, StagingInv, MemoryInv, IdleLabel
    <3> QED BY <3>1, <3>2, <3>3, <3>4
  <2>3. jr'.phase = "prepared" => LaterOld(tried)'
    BY <1>2, <1>3, <2>1, <2>2 DEF SameFiles, LaterOld, Ours
  <2> QED BY <1>4, <1>6, <2>3, RaiseFiles
<1>7. CASE ~Exit /\ ~Raise
  <2>1. \/ pc' = "rbEntry" /\ failed'
        \/ pc' \in {"doneTomb", "finally"}
    BY <1>7 DEF Fail, Crash, RollbackError, Escape, Goto
  <2> QED BY <1>4, <2>1 DEF FilesInv, JournalFiles, PublishFiles, UndoFiles, ChosenOp, PublishLabel
<1> QED BY <1>5, <1>6, <1>7

\* A file the user writes to is no longer ours; sweeping a tombstone leaves the
\* destination and the backup.
LEMMA UserFiles == ASSUME IInv, FilesInv, User PROVE FilesInv'
<1>1. PICK e \in Entry : UserEdit(e) \/ UserReplace(e) \/ UserDelete(e) \/ UserSweep(e)
  BY DEF User
<1>2. UNCHANGED <<mem, jr, kind>> /\ fs \in [Entry -> Names]
  BY <1>1 DEF UserEdit, UserReplace, UserDelete, UserSweep, UserStep, IInv, TypeOK, DiskTypeOK
<1>3. /\ Ours' \subseteq Ours
      /\ \A d \in Ours' : /\ fs'[d].dest = fs[d].dest /\ fs'[d].old = fs[d].old
                          /\ fs'[d].tomb \in {fs[d].tomb, "none"}
  <2>1. CASE UserEdit(e)
    BY <2>1 DEF UserEdit, Ours
  <2>2. CASE UserReplace(e) \/ UserDelete(e)
    <3>1. touched' = touched \cup {e} /\ \E f : fs' = [fs EXCEPT ![e] = f]
      BY <2>2 DEF UserReplace, UserDelete, SetNames
    <3> QED BY <1>2, <3>1 DEF Ours
  <2>3. CASE UserSweep(e)
    <3>1. /\ [fs[e] EXCEPT !.tomb = "none"].dest = fs[e].dest
          /\ [fs[e] EXCEPT !.tomb = "none"].old = fs[e].old
          /\ [fs[e] EXCEPT !.tomb = "none"].tomb = "none"
      BY <1>2 DEF Names
    <3> QED BY <1>2, <2>3, <3>1 DEF UserSweep, SetNames, Ours
  <2> QED BY <1>1, <2>1, <2>2, <2>3
<1>4. \A d \in Ours' : /\ d \in Ours
                       /\ Old(d)' <=> Old(d)
                       /\ New(d)' <=> New(d)
                       /\ Undoable(d)' <=> Undoable(d)
  BY <1>2, <1>3 DEF Old, New, Undoable, OldIn, NewIn, Existed
<1>5. UNCHANGED <<pc, cur, op, want, tried, failed>>
  BY <1>2 DEF mem
<1>6. PhaseFiles'
  BY <1>2, <1>4 DEF FilesInv, PhaseFiles, AllOld, AllNew
<1>7. JournalFiles'
  BY <1>4, <1>5 DEF FilesInv, JournalFiles, AllOld, AllNew
<1>8. PublishFiles'
  BY <1>4, <1>5 DEF FilesInv, PublishFiles, LaterOld
<1>9. UndoFiles'
  BY <1>2, <1>4, <1>5 DEF FilesInv, UndoFiles, LaterOld, AllOld
<1>10. ChosenOp'
  <2>1. SUFFICES ASSUME pc \in {"recAct", "rbAct"}, cur \in Ours' PROVE ChosenOp'
    BY <1>5 DEF ChosenOp
  <2>2. cur' = cur /\ op' = op /\ (Existed(cur)' <=> Existed(cur))
    BY <1>2, <1>5 DEF Existed
  <2> QED BY <1>3, <2>1, <2>2 DEF FilesInv, ChosenOp
<1> QED BY <1>6, <1>7, <1>8, <1>9, <1>10 DEF FilesInv

\* What the files hold follows the phase of the journal, unless power is lost.
LEMMA FilesNext ==
  ASSUME IInv, StagingInv, FilesInv, [Next]_vars, ~PowerLoss
  PROVE  FilesInv'
<1>1. CASE Recover
  BY <1>1, RecoverFiles, RecoverEntryFiles, RecoverActFiles, RemoveFiles, DropJournalFiles DEF Recover
<1>2. CASE Apply
  BY <1>2, PlanFiles, PlanNothingFiles, JournalFilesInv, StageFiles, SwapFiles, PublishFilesInv,
     FinalFiles, DoneFiles, RemoveFiles DEF Apply
<1>3. CASE Rollback
  BY <1>3, HandlerFiles, RollbackActFiles DEF Rollback
<1>4. CASE Fail \/ Crash \/ User
  BY <1>4, FaultFiles, UserFiles
<1>5. CASE UNCHANGED vars
  <2>1. UNCHANGED <<fs, jr, kind, touched, pc, cur, op, want, tried, failed>>
    BY <1>5 DEF vars, disk, mem, env
  <2>2. SameFiles
    BY <2>1, FilesKept
  <2>3. PhaseFiles'
    BY <2>1, <2>2, PhaseKept DEF FilesInv
  <2>4. JournalFiles' /\ PublishFiles'
    BY <2>1, <2>2 DEF FilesInv, JournalFiles, PublishFiles, SameFiles, LaterOld, AllOld, AllNew, Ours
  <2>5. UndoFiles' /\ ChosenOp'
    BY <2>1, <2>2 DEF FilesInv, UndoFiles, ChosenOp, SameFiles, LaterOld, AllOld, Ours, Existed
  <2> QED BY <2>3, <2>4, <2>5 DEF FilesInv
<1> QED BY <1>1, <1>2, <1>3, <1>4, <1>5 DEF Next, Step

\* Initially there is nothing to undo.
LEMMA InitFiles == Init => StagingInv /\ FilesInv
<1> SUFFICES ASSUME Init PROVE StagingInv /\ FilesInv
  OBVIOUS
<1>1. AllOld
  BY DEF Init, AllOld, Ours, Old, OldIn, Existed, NoFile
<1>2. pc = "idle" /\ ~active /\ mode = "recover" /\ jr.phase = "none" /\ \A e \in Entry : owned[e] = {}
  BY DEF Init, NoEntry
<1>3. StagingInv
  BY <1>2 DEF StagingInv, MemoryInv, BackupsInv, StagedInv, IdleLabel, DropLabel, JournalLabel, PublishLabel
<1> QED BY <1>1, <1>2, <1>3 DEF FilesInv, PhaseFiles, JournalFiles, PublishFiles, UndoFiles,
      ChosenOp, PublishLabel

--------------------------------------------------------------------------------
(* What a loss of power may bring back, before any other fault              *)

SureOld(e)   == \A f \in surv[e] : OldIn(e, f)
SureUndo(e)  == \A f \in surv[e] : \/ OldIn(e, f)
                                   \/ NewIn(e, f) /\ (Existed(e) /\ ~Escapes => f.old = "old")
AllSureOld   == \A e \in Ours : SureOld(e)
AllSureUndo  == \A e \in Ours : SureUndo(e)
LaterSure(i) == \A e \in Ours : e > i => SureOld(e)

\* Of the entries a rollback has passed, those it did not fail to restore.
UndoneSure(i) == \A e \in Ours : e > i /\ (failed => ~Existed(e)) => SureOld(e)

\* Every state a directory may come back in fits the phase of the journal.
PhaseLoss ==
  /\ jr.phase = "none" =>
       AllSureOld \/ (SurelyNew /\ \A j \in jsurv : j.phase \in {"none", "committed"})
  /\ jr.phase = "preparing" => AllSureOld
  /\ jr.phase = "prepared" => AllSureUndo

\* An older journal may come back only until the root is synced.
JournalLoss ==
  /\ \A j \in jsurv : \/ j.phase = jr.phase \/ pc = "dropSync"
                      \/ pc = "jSync" /\ Precedes(j.phase, want)
  /\ pc \in {"jStage", "jSwap"} /\ want = "preparing" => AllSureOld
  /\ pc = "jSync" /\ want = "prepared" => AllSureOld
  /\ pc = "jSync" /\ want = "committed" => AllSureUndo

PublishLoss ==
  /\ pc \in PublishLabel => LaterSure(cur)
  /\ pc = "pubCheck" => LaterSure(cur - 1)

UndoLoss ==
  /\ pc = "handler" /\ jr.phase = "prepared" => LaterSure(tried)
  /\ pc \in {"rbEntry", "rbAct", "rbSync"} => UndoneSure(cur)
  /\ pc = "rbAct" /\ op = "dropDest" /\ cur \in Ours => fs[cur].dest = "new"
  /\ pc \in {"clean", "dropOwned", "dropJournal"} /\ jr.phase = "prepared" => AllSureOld

\* A rollback synced the removal of what it had created, so recovery, which does
\* not sync a created file that is gone, only meets such files that are sure to be.
RecoverLoss ==
  /\ pc \in {"idle", "recStart", "recSync", "recEntry", "recAct"} => mode = "recover"
  /\ mode = "recover" /\ jr.phase = "prepared" =>
       \A e \in Ours : ~Existed(e) => SureOld(e)
  /\ pc \in {"recEntry", "recAct"} =>
       \A e \in Ours : e > cur => e \in resync \/ SureOld(e)

Loss == PhaseLoss /\ JournalLoss /\ PublishLoss /\ UndoLoss /\ RecoverLoss

\* The user changed only what he touched.
Edited == \A e \in Entry : dirty[e] # {} => e \in touched

LossInv == Edited /\ (faults = 0 => Loss)

\* A step after which every state an untouched directory may come back in has the
\* destination and the backup of one it might have come back in before.
Gentle ==
  /\ kind' = kind /\ Ours' \subseteq Ours
  /\ \A e \in Ours' : \A f \in surv'[e] :
       \E g \in surv[e] : f.dest = g.dest /\ (Escapes \/ f.old = g.old)

\* Such a step keeps what is sure.
LEMMA GentleSure ==
  ASSUME Gentle
  PROVE  /\ \A e \in Ours' : (SureOld(e) => SureOld(e)') /\ (SureUndo(e) => SureUndo(e)')
         /\ (AllSureOld => AllSureOld') /\ (AllSureUndo => AllSureUndo')
         /\ (SurelyNew => SurelyNew')
         /\ \A i : LaterSure(i) => \A e \in Ours' : e > i => SureOld(e)'
<1>1. \A e \in Ours' : (SureOld(e) => SureOld(e)') /\ (SureUndo(e) => SureUndo(e)')
  BY DEF Gentle, SureOld, SureUndo, OldIn, NewIn, Existed
<1>2. SurelyNew => SurelyNew'
  BY DEF Gentle, SurelyNew, NewIn
<1> QED BY <1>1, <1>2 DEF Gentle, AllSureOld, AllSureUndo, LaterSure

\* So does a step that rebinds temporaries, backups included, if all is old.
LEMMA SteadySure ==
  ASSUME DurabilityInv, Steady
  PROVE  /\ \A e \in Ours' : SureOld(e) => SureOld(e)'
         /\ AllSureOld => AllSureOld' /\ AllSureUndo'
         /\ (SurelyNew => SurelyNew')
<1>1. Ours' = Ours /\ Ours \subseteq Entry /\ kind' = kind
  BY DEF Steady, Ours
<1>2. \A e \in Ours' : SureOld(e) => SureOld(e)'
  BY <1>1 DEF Steady, DurabilityInv, SureOld, OldIn, Existed
<1>3. AllSureOld => AllSureOld' /\ AllSureUndo'
  BY <1>1, <1>2 DEF AllSureOld, AllSureUndo, SureUndo, SureOld
<1> QED BY <1>2, <1>3, SteadyNew

\* Steps that leave the directories alone, or sync some of them, are gentle.
LEMMA SameGentle ==
  ASSUME UNCHANGED <<surv, kind, touched>>
  PROVE  Gentle
BY DEF Gentle, Ours

LEMMA SyncGentle ==
  ASSUME DurabilityInv, NEW E, Sync(E), UNCHANGED <<fs, kind, touched>>
  PROVE  Gentle
BY DEF Gentle, Ours, Sync, DurabilityInv

\* So are steps that rebind the replacement or the tombstone.
LEMMA RebindGentle ==
  ASSUME DurabilityInv, DiskTypeOK, NEW e \in Entry, NEW f, SetNames(e, f),
         f.dest = fs[e].dest, f.old = fs[e].old, UNCHANGED <<kind, touched>>
  PROVE  Gentle
BY DEF Gentle, Ours, SetNames, DurabilityInv, DiskTypeOK

\* What is old is undoable, and what is sure holds now.
LEMMA SureNow ==
  ASSUME DurabilityInv
  PROVE  \A e \in Entry : /\ SureOld(e) => SureUndo(e) /\ Old(e)
                          /\ surv[e] = {fs[e]} /\ Old(e) => SureOld(e)
BY DEF DurabilityInv, SureOld, SureUndo, Old

\* A gentle step that leaves the journal alone keeps what the phase says.
LEMMA GentlePhase ==
  ASSUME Loss, Gentle, jr'.phase = jr.phase,
         \A j \in jsurv' : \E i \in jsurv : j.phase = i.phase
  PROVE  PhaseLoss'
BY GentleSure DEF Loss, PhaseLoss

\* Between two writes of the journal only one phase may come back.
LEMMA SamePhases ==
  ASSUME Loss, UNCHANGED <<jr, jsurv>>, pc \notin {"jSync", "dropSync"}
  PROVE  \A j \in jsurv' : j.phase = jr'.phase
BY DEF Loss, JournalLoss

\* Leaving by a return claims what the phase says, and that what was created and
\* removed is sure to be gone.
LEMMA ExitLoss ==
  ASSUME PhaseLoss', Exit, \A j \in jsurv' : j.phase = jr'.phase,
         jr'.phase = "prepared" => \A e \in Ours' : ~Existed(e)' => SureOld(e)'
  PROVE  Loss'
BY DEF Loss, Exit, JournalLoss, PublishLoss, UndoLoss, RecoverLoss, PublishLabel

\* A raise in a transaction goes back over what was attempted.
LEMMA RaiseLoss ==
  ASSUME PhaseLoss', mode = "apply", active, Raise, \A j \in jsurv' : j.phase = jr'.phase,
         jr'.phase = "prepared" => LaterSure(tried)'
  PROVE  Loss'
BY DEF Raise, KeepMemory, Loss, JournalLoss, PublishLoss, UndoLoss, RecoverLoss, PublishLabel

\* Steps of recovery that leave the directories alone or sync them.
LEMMA QuietRecoverLoss ==
  ASSUME IInv, DurabilityInv, Loss,
         Start \/ RecoverPending \/ RecoverPendingSync \/ RecoverDispatch \/ CleanNext \/ CleanSync
  PROVE  Loss'
<1>1. Gentle /\ Ours' = Ours /\ kind' = kind /\ mode' = mode
  BY SameGentle, SyncGentle DEF Start, RecoverPending, RecoverPendingSync, RecoverDispatch, CleanNext,
    CleanSync, KeepMemory, disk, env, Ours
<1>2. pc \in {"idle", "recStart", "recSync", "clean"}
  BY DEF Start, RecoverPending, RecoverPendingSync, RecoverDispatch, CleanNext, CleanSync
<1>3. jr'.phase = jr.phase /\ jr.phase \in Phase
  <2>1. jr \in Journal
    BY DEF IInv, TypeOK, DiskTypeOK
  <2>2. [jr EXCEPT !.pending = FALSE].phase = jr.phase
    BY <2>1 DEF Journal
  <2> QED BY <2>1, <2>2 DEF Start, RecoverPending, RecoverPendingSync, RecoverDispatch, CleanNext,
        CleanSync, disk, SetJournal, Journal
<1>4. \A j \in jsurv' : j.phase = jr'.phase
  <2>1. jsurv' = jsurv \/ jsurv' = jsurv \cup {jr'} \/ jsurv' = {jr}
    BY DEF Start, RecoverPending, RecoverPendingSync, RecoverDispatch, CleanNext, CleanSync, disk,
      SetJournal, SyncRoot
  <2> QED BY <1>2, <1>3, <2>1 DEF Loss, JournalLoss
<1>5. PhaseLoss'
  BY <1>1, <1>3, <1>4, GentlePhase DEF DurabilityInv
<1>6. /\ pc' \in {"recStart", "recSync", "plan", "recEntry", "clean", "idle", "dropJournal"}
      /\ pc' = "recEntry" => cur' = N
      /\ pc' \in {"clean", "dropJournal"} /\ jr.phase = "prepared" => pc = "clean"
      /\ pc' \in {"recStart", "recSync", "recEntry", "idle"} => pc # "clean"
  BY <1>3 DEF Start, RecoverPending, RecoverPendingSync, RecoverDispatch, CleanNext, CleanSync, Goto, Phase
<1>7. \A e \in Entry : ~(e > N)
  BY ConstantsAssumption DEF Entry
<1>8. JournalLoss' /\ PublishLoss'
  BY <1>4, <1>6 DEF JournalLoss, PublishLoss, PublishLabel
<1>9. UndoLoss'
  BY <1>1, <1>3, <1>6, GentleSure DEF UndoLoss, Loss
<1>10. RecoverLoss'
  <2>1. pc' \in {"recStart", "recSync", "recEntry", "idle"} => mode' = "recover"
    BY <1>1, <1>2, <1>6 DEF Loss, RecoverLoss
  <2>2. mode' = "recover" /\ jr'.phase = "prepared" =>
          \A e \in Ours' : ~Existed(e)' => SureOld(e)'
    BY <1>1, <1>3, GentleSure DEF Loss, RecoverLoss, Existed
  <2> QED BY <1>6, <1>7, <2>1, <2>2 DEF RecoverLoss, Ours
<1> QED BY <1>5, <1>8, <1>9, <1>10 DEF Loss

\* Recovery syncs what it restored; what it did not was sure to be old already.
LEMMA RecoverSyncLoss ==
  ASSUME IInv, FilesInv, DurabilityInv, Loss, RecoverSync
  PROVE  Loss'
<1>1. /\ Gentle /\ Ours' = Ours /\ UNCHANGED <<fs, kind, jr, jsurv, mode>>
      /\ Sync(resync) /\ pc = "recEntry" /\ cur = 0 /\ pc' = "clean" /\ jr.phase = "prepared"
  BY SyncGentle DEF RecoverSync, env, Goto, Ours, IInv, PhaseInv, PreparedLabel
<1>2. AllSureOld'
  <2> SUFFICES ASSUME NEW e \in Ours PROVE SureOld(e)'
    BY <1>1 DEF AllSureOld
  <2>1. e \in Entry /\ e > 0
    BY ConstantsAssumption DEF Ours, Entry
  <2>2. Old(e) /\ (e \in resync \/ SureOld(e))
    BY <1>1, <2>1 DEF FilesInv, UndoFiles, LaterOld, Loss, RecoverLoss
  <2>3. CASE e \in resync
    BY <1>1, <2>1, <2>2, <2>3 DEF Sync, SureOld, Old, OldIn, Existed
  <2>4. CASE SureOld(e)
    BY <1>1, <2>4, GentleSure
  <2> QED BY <2>2, <2>3, <2>4
<1>3. \A j \in jsurv' : j.phase = jr'.phase
  BY <1>1, SamePhases
<1>4. PhaseLoss'
  BY <1>1, <1>3, GentlePhase DEF DurabilityInv
<1> QED BY <1>1, <1>2, <1>3, <1>4 DEF Loss, JournalLoss, PublishLoss, UndoLoss, RecoverLoss,
      PublishLabel, AllSureOld

\* The checks of recovery on an entry.
LEMMA RecoverEntryLoss ==
  ASSUME IInv, DurabilityInv, Loss, RecoverEntry
  PROVE  Loss'
<1>1. /\ Gentle /\ Ours' = Ours /\ UNCHANGED <<fs, surv, kind, jr, jsurv>>
      /\ pc = "recEntry" /\ cur \in Entry /\ mode = "recover" /\ jr.phase = "prepared"
  BY SameGentle DEF RecoverEntry, disk, env, Ours, Loss, RecoverLoss, IInv, PhaseInv, PreparedLabel
<1>2. \A j \in jsurv' : j.phase = jr'.phase
  BY <1>1, SamePhases
<1>3. PhaseLoss'
  BY <1>1, <1>2, GentlePhase DEF DurabilityInv
<1>4. \A e \in Ours' : ~Existed(e)' => SureOld(e)'
  BY <1>1 DEF Loss, RecoverLoss, Existed, SureOld, OldIn
<1>5. CASE Exit
  BY <1>2, <1>3, <1>4, <1>5, ExitLoss
<1>6. CASE ~Exit
  <2>1. /\ mode' = mode
        /\ \/ pc' = "recEntry" /\ cur' = cur - 1 /\ resync' = resync \cup {cur}
           \/ pc' = "recAct" /\ cur' = cur /\ resync' = resync
    BY <1>6 DEF RecoverEntry, Goto
  <2>2. \A e \in Entry : e > cur - 1 => e > cur \/ e = cur
    BY <1>1, ConstantsAssumption DEF Entry
  <2>3. \A e \in Ours' : e > cur' => e \in resync' \/ SureOld(e)'
    BY <1>1, <2>1, <2>2, GentleSure DEF Loss, RecoverLoss, Ours
  <2>4. RecoverLoss'
    BY <1>1, <1>4, <2>1, <2>3 DEF RecoverLoss
  <2> QED BY <1>2, <1>3, <2>1, <2>4 DEF Loss, JournalLoss, PublishLoss, UndoLoss, PublishLabel
<1> QED BY <1>5, <1>6

\* What a restoring call makes of an untouched entry may come back, besides what
\* might before.
LEMMA RestoredSure ==
  ASSUME IInv, FilesInv, Loss, pc \in {"recAct", "rbAct"}, CanPerform(cur),
         SetNames(cur, Performed(cur)), UNCHANGED <<jr, jsurv, env>>
  PROVE  /\ cur \in Entry /\ Ours' = Ours /\ kind' = kind
         /\ \A e \in Ours : SureOld(e) => SureOld(e)'
         /\ PhaseLoss'
<1>1. cur \in Entry /\ surv \in [Entry -> SUBSET Names] /\ jr.phase = "prepared"
  BY DEF IInv, TypeOK, DiskTypeOK, IndexInv, EntryLabel, PhaseInv, PreparedLabel
<1>2. Ours' = Ours /\ kind' = kind /\ Ours \subseteq Entry /\ \A e \in Ours : e = cur => Old(e)'
  BY RestoredFiles DEF env, Ours
<1>3. \A e \in Entry : \A f \in surv'[e] : f \in surv[e] \/ (e = cur /\ f = fs'[cur])
  BY <1>1 DEF SetNames, IInv, TypeOK, DiskTypeOK
<1>4. \A e \in Ours : SureOld(e) => SureOld(e)'
  BY <1>2, <1>3 DEF SureOld, Old, OldIn, Existed
<1>5. \A e \in Ours : SureUndo(e) => SureUndo(e)'
  BY <1>2, <1>3 DEF SureUndo, Old, OldIn, NewIn, Existed
<1>6. PhaseLoss'
  BY <1>1, <1>2, <1>5 DEF Loss, PhaseLoss, AllSureUndo, env
<1> QED BY <1>1, <1>2, <1>4, <1>6

\* Restoring an entry in a recovery.
LEMMA RecoverActLoss ==
  ASSUME IInv, FilesInv, DurabilityInv, Loss, RecoverAct
  PROVE  Loss'
<1>1. /\ pc = "recAct" /\ cur \in Entry /\ mode = "recover" /\ jr.phase = "prepared"
      /\ UNCHANGED <<jr, jsurv, env>> /\ \A j \in jsurv' : j.phase = jr'.phase
  BY SamePhases DEF RecoverAct, Loss, RecoverLoss, IInv, PhaseInv, PreparedLabel, IndexInv, EntryLabel
<1>2. /\ PhaseLoss' /\ Ours' = Ours /\ kind' = kind
      /\ \A e \in Ours : SureOld(e) => SureOld(e)'
  <2>1. CASE CanPerform(cur)
    BY <1>1, <2>1, RestoredSure DEF RecoverAct
  <2>2. CASE ~CanPerform(cur)
    <3>1. UNCHANGED <<fs, surv, kind, touched>>
      BY <2>2 DEF RecoverAct, env
    <3> QED BY <1>1, <3>1, SameGentle, GentleSure, GentlePhase DEF Ours, DurabilityInv
  <2> QED BY <2>1, <2>2
<1>3. \A e \in Ours' : ~Existed(e)' => SureOld(e)'
  BY <1>1, <1>2 DEF Loss, RecoverLoss, Existed
<1>4. CASE Exit
  BY <1>1, <1>2, <1>3, <1>4, ExitLoss
<1>5. CASE ~Exit
  <2>1. /\ pc' = "recEntry" /\ cur' = cur - 1 /\ mode' = mode
        /\ resync' = (IF ~Existed(cur) /\ op = "keep" THEN resync ELSE resync \cup {cur})
    BY <1>5 DEF RecoverAct, Goto
  <2>2. \A e \in Entry : e > cur - 1 => e > cur \/ e = cur
    BY <1>1, ConstantsAssumption DEF Entry
  <2>3. ASSUME NEW e \in Ours', e > cur' PROVE e \in resync' \/ SureOld(e)'
    <3>1. e \in Ours /\ e \in Entry /\ (e > cur \/ e = cur)
      BY <1>2, <2>1, <2>2, <2>3 DEF Ours
    <3>2. CASE e > cur
      BY <1>1, <1>2, <2>1, <3>1, <3>2 DEF Loss, RecoverLoss
    <3>3. CASE e = cur
      BY <1>2, <1>3, <2>1, <3>1, <3>3 DEF Existed
    <3> QED BY <3>1, <3>2, <3>3
  <2>4. RecoverLoss'
    BY <1>1, <1>3, <2>1, <2>3 DEF RecoverLoss
  <2> QED BY <1>1, <1>2, <2>1, <2>4 DEF Loss, JournalLoss, PublishLoss, UndoLoss, PublishLabel
<1> QED BY <1>4, <1>5

\* Temporaries are removed when all that may come back is old, or all is new.
LEMMA RemoveLoss ==
  ASSUME IInv, DurabilityInv, Loss, CleanTemporary \/ DropOwned, faults = 0
  PROVE  Loss'
<1>1. /\ Steady /\ UNCHANGED <<jr, jsurv, kind>> /\ Ours' = Ours
      /\ pc \in {"clean", "dropOwned"} /\ \A j \in jsurv' : j.phase = jr'.phase
  BY SilentRecover, SilentApply, SamePhases DEF CleanTemporary, DropOwned, Silent, Steady, Ours,
    IInv, PhaseInv
<1>2. jr.phase = "prepared" => AllSureOld' /\ AllSureUndo'
  BY <1>1, SteadySure DEF Loss, UndoLoss
<1>3. PhaseLoss'
  BY <1>1, <1>2, SteadySure DEF Loss, PhaseLoss
<1>4. CASE Exit
  BY <1>1, <1>2, <1>3, <1>4, ExitLoss DEF AllSureOld
<1>5. CASE ~Exit
  <2>1. pc' = pc
    BY <1>5 DEF CleanTemporary, DropOwned, mem
  <2> QED BY <1>1, <1>2, <1>3, <2>1 DEF Loss, JournalLoss, PublishLoss, UndoLoss, RecoverLoss,
        PublishLabel, AllSureOld
<1> QED BY <1>4, <1>5

\* The journal goes when whatever may come back does without it.
LEMMA DropJournalLoss ==
  ASSUME IInv, DurabilityInv, Loss, DropJournal \/ DropJournalSync
  PROVE  Loss'
<1>1. Gentle /\ Ours' = Ours
  BY SameGentle DEF DropJournal, DropJournalSync, env, Ours
<1>2. CASE DropJournal
  <2>1. /\ jr'.phase = "none" /\ pc' = "dropSync" /\ jr.phase \in Phase
        /\ \A j \in jsurv' : j \in jsurv \/ j.phase = "none"
    BY <1>2 DEF DropJournal, SetJournal, Goto, NoEntry, IInv, TypeOK, DiskTypeOK, Journal
  <2>2. \A j \in jsurv : j.phase = jr.phase
    BY <1>2 DEF DropJournal, Loss, JournalLoss
  <2>3. jr.phase \in {"preparing", "prepared"} => AllSureOld
    BY <1>2 DEF DropJournal, Loss, PhaseLoss, UndoLoss
  <2>4. jr.phase = "committed" => SurelyNew
    BY DEF DurabilityInv
  <2>5. AllSureOld' \/ (SurelyNew' /\ \A j \in jsurv' : j.phase \in {"none", "committed"})
    <3>1. CASE jr.phase \in {"preparing", "prepared"}
      BY <1>1, <2>3, <3>1, GentleSure
    <3>2. CASE jr.phase \in {"none", "committed"}
      BY <1>1, <2>1, <2>2, <2>4, <3>2, GentleSure DEF Loss, PhaseLoss
    <3> QED BY <2>1, <3>1, <3>2 DEF Phase
  <2> QED BY <2>1, <2>5 DEF Loss, PhaseLoss, JournalLoss, PublishLoss, UndoLoss, RecoverLoss, PublishLabel
<1>3. CASE DropJournalSync
  <2>1. jr' = jr /\ jsurv' = {jr} /\ jr.phase = "none"
    BY <1>3 DEF DropJournalSync, SyncRoot, IInv, PhaseInv
  <2>2. PhaseLoss'
    BY <1>1, <2>1, GentlePhase DEF DurabilityInv
  <2>3. CASE Exit
    BY <2>1, <2>2, <2>3, ExitLoss
  <2>4. CASE ~Exit
    <3>1. pc' = "plan"
      BY <1>3, <2>4 DEF DropJournalSync, Goto
    <3> QED BY <2>1, <2>2, <3>1 DEF Loss, JournalLoss, PublishLoss, UndoLoss, RecoverLoss, PublishLabel
  <2> QED BY <2>3, <2>4
<1> QED BY <1>2, <1>3

\* A plan starts from files that are what they are for certain.
LEMMA PlanLoss == ASSUME IInv, DurabilityInv, Loss, Plan \/ PlanNothing PROVE Loss'
<1>1. jr' = jr /\ jr.phase = "none"
  BY DEF Plan, PlanNothing, disk, IInv, PhaseInv
<1>2. CASE Plan
  <2>1. /\ jsurv' = {jr} /\ pc' = "jStage" /\ want' = "preparing"
        /\ \A e \in Entry : surv'[e] = {fs'[e]} /\ OldIn(e, fs[e])'
    BY <1>2 DEF Plan, Goto, OldIn, Existed, NoFile
  <2>2. AllSureOld'
    BY <2>1 DEF AllSureOld, SureOld, Ours, OldIn, Existed
  <2> QED BY <1>1, <2>1, <2>2 DEF Loss, PhaseLoss, JournalLoss, PublishLoss, UndoLoss, RecoverLoss, PublishLabel
<1>3. CASE PlanNothing
  <2>1. Gentle /\ Exit /\ jsurv' = jsurv /\ pc = "plan"
    BY <1>3, SameGentle DEF PlanNothing, disk, env
  <2>2. PhaseLoss' /\ \A j \in jsurv' : j.phase = jr'.phase
    BY <1>1, <2>1, GentlePhase, SamePhases DEF DurabilityInv
  <2> QED BY <1>1, <2>1, <2>2, ExitLoss
<1> QED BY <1>2, <1>3

\* A phase is written when all that may come back is ready for it and for the one
\* before.
LEMMA JournalWriteLoss ==
  ASSUME IInv, StagingInv, DurabilityInv, Loss, JournalStage \/ JournalSwap \/ JournalSync
  PROVE  Loss'
<1>1. Gentle /\ Ours' = Ours /\ want' = want /\ mode' = mode /\ mode = "apply"
  BY SameGentle DEF JournalStage, JournalSwap, JournalSync, KeepMemory, env, Ours, StagingInv,
    MemoryInv, JournalLabel
<1>2. /\ AllSureOld => AllSureOld'
      /\ AllSureUndo => AllSureUndo'
  BY <1>1, GentleSure
<1>3. AllSureOld => AllSureUndo
  BY SureNow DEF AllSureOld, AllSureUndo, Ours
<1>4. CASE JournalStage
  <2>1. /\ jr'.phase = jr.phase /\ pc = "jStage" /\ pc' = "jSwap"
        /\ \A j \in jsurv' : j \in jsurv \/ j.phase = jr.phase
    <3>1. jr \in Journal /\ jr' = [jr EXCEPT !.pending = TRUE]
      BY <1>4 DEF JournalStage, SetJournal, IInv, TypeOK, DiskTypeOK
    <3> QED BY <1>4, <3>1 DEF Journal, JournalStage, SetJournal, Goto
  <2>2. \A j \in jsurv' : j.phase = jr'.phase
    BY <2>1 DEF Loss, JournalLoss
  <2>3. PhaseLoss'
    BY <1>1, <2>1, <2>2, GentlePhase DEF DurabilityInv
  <2> QED BY <1>1, <1>2, <2>1, <2>2, <2>3 DEF Loss, JournalLoss, PublishLoss, UndoLoss, RecoverLoss, PublishLabel
<1>5. CASE JournalSwap
  <2>1. /\ jr'.phase = want /\ pc = "jSwap" /\ pc' = "jSync" /\ Precedes(jr.phase, want)
        /\ \A j \in jsurv' : j \in jsurv \/ j.phase = want
    BY <1>5 DEF JournalSwap, SetJournal, Goto, IInv, PhaseInv
  <2>2. \A j \in jsurv : j.phase = jr.phase
    BY <2>1 DEF Loss, JournalLoss
  <2>3. /\ want = "preparing" => AllSureOld
        /\ want = "prepared" => AllSureOld
        /\ want = "committed" => AllSureUndo
    BY <2>1 DEF Loss, JournalLoss, PhaseLoss, Precedes
  <2>4. PhaseLoss'
    BY <1>2, <1>3, <2>1, <2>3 DEF PhaseLoss, Precedes
  <2>5. JournalLoss'
    BY <1>1, <1>2, <2>1, <2>2, <2>3 DEF JournalLoss
  <2> QED BY <1>1, <2>1, <2>4, <2>5 DEF Loss, PublishLoss, UndoLoss, RecoverLoss, PublishLabel
<1>6. CASE JournalSync
  <2>1. /\ jr' = jr /\ jsurv' = {jr} /\ pc = "jSync" /\ cur' = 1
        /\ pc' = (IF want = "preparing" THEN "stage"
                  ELSE IF want = "prepared" THEN "pubCheck" ELSE "doneTomb")
    BY <1>6 DEF JournalSync, SyncRoot, Goto
  <2>2. PhaseLoss'
    BY <1>1, <2>1, GentlePhase DEF DurabilityInv
  <2>3. pc' = "pubCheck" => AllSureOld'
    BY <1>2, <2>1 DEF Loss, JournalLoss
  <2>4. PublishLoss'
    BY <2>1, <2>3 DEF PublishLoss, LaterSure, AllSureOld, PublishLabel
  <2> QED BY <1>1, <2>1, <2>2, <2>4 DEF Loss, JournalLoss, UndoLoss, RecoverLoss
<1> QED BY <1>4, <1>5, <1>6

\* Staging changes no destination that may come back.
LEMMA StageLoss ==
  ASSUME IInv, StagingInv, DurabilityInv, Loss,
         StageFile \/ RegisterFile \/ CheckSource \/ StageSync
  PROVE  Loss'
<1>1. /\ Steady /\ UNCHANGED <<jr, jsurv>> /\ jr.phase = "preparing"
      /\ pc \in PreparingLabel /\ \A j \in jsurv' : j.phase = jr'.phase
  <2>1. pc \in PreparingLabel
    BY DEF StageFile, RegisterFile, CheckSource, StageSync, PreparingLabel
  <2>2. Steady
    BY SilentApply, SilentCheck, SyncSteady DEF StageSync, env
  <2>3. UNCHANGED <<jr, jsurv>> /\ jr.phase = "preparing"
    BY <2>1 DEF StageFile, RegisterFile, CheckSource, StageSync, disk, IInv, PhaseInv
  <2> QED BY <2>1, <2>2, <2>3, SamePhases DEF PreparingLabel
<1>2. active /\ mode = "apply"
  BY <1>1 DEF StagingInv, MemoryInv, PreparingLabel, IdleLabel, JournalLabel, DropLabel, IInv,
    TypeOK, MemTypeOK
<1>3. PhaseLoss'
  BY <1>1, SteadySure DEF Loss, PhaseLoss
<1>4. CASE Raise
  BY <1>1, <1>2, <1>3, <1>4, RaiseLoss
<1>5. CASE ~Raise
  <2>1. /\ pc' \in {"register", "source", "stage", "stageSync", "jStage"} /\ mode' = mode
        /\ pc' = "jStage" => want' = "prepared"
    BY <1>5 DEF StageFile, RegisterFile, CheckSource, StageSync, Goto, KeepMemory
  <2> QED BY <1>1, <1>2, <1>3, <2>1 DEF Loss, JournalLoss, PublishLoss, UndoLoss, RecoverLoss, PublishLabel
<1> QED BY <1>4, <1>5

\* Publication checks, links and syncs change no destination and no backup.
LEMMA PublishGentle ==
  ASSUME IInv, DurabilityInv,
         \/ PublishCheck \/ TombstoneDrop \/ TombstoneLink \/ TombstoneLinked \/ PublishReady
         \/ PublishVerify \/ PublishUnlink \/ PublishUnlinked
  PROVE  Gentle /\ Ours' = Ours /\ UNCHANGED <<jr, jsurv, kind>>
<1>1. UNCHANGED <<jr, jsurv, kind, touched>> /\ Ours' = Ours
  BY DEF PublishCheck, TombstoneDrop, TombstoneLink, TombstoneLinked, PublishReady,
    PublishVerify, PublishUnlink, PublishUnlinked, disk, env, Ours
<1>2. CASE TombstoneDrop \/ TombstoneLink \/ PublishUnlink
  <2>1. cur \in Entry /\ DiskTypeOK /\ fs[cur] \in Names
    BY <1>2 DEF TombstoneDrop, TombstoneLink, PublishUnlink, IInv, IndexInv, EntryLabel, TypeOK, DiskTypeOK
  <2>2. /\ [fs[cur] EXCEPT !.tomb = "none"].dest = fs[cur].dest
        /\ [fs[cur] EXCEPT !.tomb = "none"].old = fs[cur].old
        /\ [fs[cur] EXCEPT !.tomb = fs[cur].dest].dest = fs[cur].dest
        /\ [fs[cur] EXCEPT !.tomb = fs[cur].dest].old = fs[cur].old
        /\ [fs[cur] EXCEPT !.new = "none"].dest = fs[cur].dest
        /\ [fs[cur] EXCEPT !.new = "none"].old = fs[cur].old
    BY <2>1 DEF Names
  <2>3. \/ UNCHANGED <<fs, surv>>
        \/ SetNames(cur, [fs[cur] EXCEPT !.tomb = "none"])
        \/ SetNames(cur, [fs[cur] EXCEPT !.tomb = fs[cur].dest])
        \/ SetNames(cur, [fs[cur] EXCEPT !.new = "none"])
    BY <1>2 DEF TombstoneDrop, TombstoneLink, PublishUnlink
  <2> QED BY <1>1, <2>1, <2>2, <2>3, RebindGentle, SameGentle
<1>3. CASE ~(TombstoneDrop \/ TombstoneLink \/ PublishUnlink)
  <2>1. fs' = fs /\ (surv' = surv \/ Sync({cur}))
    BY <1>3 DEF PublishCheck, TombstoneLinked, PublishReady, PublishVerify, PublishUnlinked, disk
  <2> QED BY <1>1, <2>1, SameGentle, SyncGentle
<1> QED BY <1>1, <1>2, <1>3

\* They leave the later entries surely old.
LEMMA PublishLossInv ==
  ASSUME IInv, StagingInv, FilesInv, DurabilityInv, Loss,
         \/ PublishCheck \/ TombstoneDrop \/ TombstoneLink \/ TombstoneLinked \/ PublishReady
         \/ PublishVerify \/ PublishUnlink \/ PublishUnlinked
  PROVE  Loss'
<1>1. Gentle /\ Ours' = Ours /\ UNCHANGED <<jr, jsurv, kind>>
  BY PublishGentle
<1>2. cur \in Entry /\ pc \in PublishLabel \ {"pubSwap"}
  BY DEF PublishCheck, TombstoneDrop, TombstoneLink, TombstoneLinked, PublishReady,
    PublishVerify, PublishUnlink, PublishUnlinked, IInv, IndexInv, EntryLabel, PublishLabel
<1>3. active /\ mode = "apply"
  BY <1>2 DEF StagingInv, MemoryInv, PublishLabel, IdleLabel, JournalLabel, DropLabel, IInv,
    TypeOK, MemTypeOK
<1>4. PhaseLoss' /\ \A j \in jsurv' : j.phase = jr'.phase
  BY <1>1, <1>2, GentlePhase, SamePhases DEF DurabilityInv, PublishLabel
<1>5. \A e \in Ours' : e > cur => SureOld(e)'
  BY <1>1, <1>2, GentleSure DEF Loss, PublishLoss
<1>6. CASE Raise /\ ~PublishCheck
  <2>1. tried' = tried /\ tried = cur
    BY <1>3, <1>6, <1>2 DEF Raise, KeepMemory, TombstoneDrop, TombstoneLink, TombstoneLinked,
      PublishReady, PublishVerify, PublishUnlink, PublishUnlinked, FilesInv, PublishFiles, PublishLabel
  <2>2. LaterSure(tried)'
    BY <1>5, <2>1 DEF LaterSure
  <2> QED BY <1>3, <1>4, <1>6, <2>2, RaiseLoss
<1>7. CASE PublishCheck
  <2>1. tried' = cur /\ cur' = cur /\ mode' = mode /\ pc' \in (PublishLabel \ {"pubCheck"}) \cup {"handler"}
    BY <1>7 DEF PublishCheck, Goto, PublishLabel
  <2> QED BY <1>3, <1>4, <1>5, <2>1 DEF Loss, JournalLoss, PublishLoss, UndoLoss, RecoverLoss, LaterSure,
        PublishLabel
<1>8. CASE ~Raise /\ ~PublishCheck
  <2>1. /\ mode' = mode
        /\ \/ pc' \in PublishLabel \ {"pubCheck"} /\ cur' = cur
           \/ pc' = "pubCheck" /\ cur' = cur + 1
           \/ pc' = "final"
    BY <1>8 DEF TombstoneDrop, TombstoneLink, TombstoneLinked, PublishReady,
      PublishVerify, PublishUnlink, PublishUnlinked, PublishNext, Goto, KeepMemory, PublishLabel
  <2>2. \A e \in Entry : (e > cur + 1 => e > cur) /\ (e > cur + 1 - 1 => e > cur)
    BY <1>2, ConstantsAssumption DEF Entry
  <2>3. PublishLoss'
    <3>1. CASE pc' \in PublishLabel \ {"pubCheck"} /\ cur' = cur
      BY <1>5, <3>1 DEF PublishLoss, LaterSure
    <3>2. CASE pc' = "pubCheck" /\ cur' = cur + 1
      <4>1. \A e \in Ours' : (e > cur' => e > cur) /\ (e > cur' - 1 => e > cur)
        <5> DEFINE i == cur'
        <5>1. i = cur + 1 /\ \A e \in Ours' : e \in Entry
          BY <3>2 DEF Ours
        <5> HIDE DEF i
        <5>2. \A e \in Entry : (e > i => e > cur) /\ (e > i - 1 => e > cur)
          BY <1>2, <5>1, ConstantsAssumption DEF Entry
        <5> QED BY <5>1, <5>2 DEF i
      <4> QED BY <1>5, <3>2, <4>1 DEF PublishLoss, LaterSure
    <3>3. CASE pc' = "final"
      BY <3>3 DEF PublishLoss, PublishLabel
    <3> QED BY <2>1, <3>1, <3>2, <3>3
  <2> QED BY <1>3, <1>4, <2>1, <2>3 DEF Loss, JournalLoss, UndoLoss, RecoverLoss, PublishLabel
<1> QED BY <1>6, <1>7, <1>8

\* A published entry is undoable in whatever state its directory comes back.
LEMMA SwapLoss == ASSUME IInv, StagingInv, FilesInv, DurabilityInv, Loss, PublishSwap PROVE Loss'
<1>1. /\ cur \in Entry /\ pc = "pubSwap" /\ UNCHANGED <<jr, jsurv, kind, touched>>
      /\ jr.phase = "prepared" /\ tried = cur /\ surv \in [Entry -> SUBSET Names]
      /\ fs \in [Entry -> Names] /\ LaterSure(cur) /\ Ours' = Ours
  BY DEF PublishSwap, env, IInv, IndexInv, EntryLabel, PhaseInv, PreparedLabel, FilesInv,
    PublishFiles, PublishLabel, TypeOK, DiskTypeOK, Loss, PublishLoss, Ours
<1>2. active /\ mode = "apply"
  BY <1>1 DEF StagingInv, MemoryInv, PublishLabel, IdleLabel, JournalLabel, DropLabel, IInv,
    TypeOK, MemTypeOK
<1>3. \A j \in jsurv' : j.phase = jr'.phase
  BY <1>1, SamePhases
<1>4. \A e \in Entry : \A f \in surv'[e] : f \in surv[e] \/ (e = cur /\ f = fs'[cur])
  <2>1. UNCHANGED <<fs, surv>> \/ \E g : SetNames(cur, g)
    BY DEF PublishSwap
  <2> QED BY <1>1, <2>1 DEF SetNames
<1>5. \A e \in Ours : Old(e)' \/ Undoable(e)'
  BY <1>1, SwapFiles DEF FilesInv, PhaseFiles
<1>6. AllSureUndo'
  <2>1. AllSureUndo
    BY <1>1 DEF Loss, PhaseLoss
  <2> QED BY <1>1, <1>4, <1>5, <2>1 DEF AllSureUndo, SureUndo, Ours, Old, Undoable, New, OldIn, NewIn, Existed
<1>7. PhaseLoss'
  BY <1>1, <1>6 DEF PhaseLoss
<1>8. \A e \in Ours' : e > cur => SureOld(e)'
  <2>1. \A e \in Entry : e > cur => e # cur
    BY <1>1, ConstantsAssumption DEF Entry
  <2> QED BY <1>1, <1>4, <2>1 DEF LaterSure, SureOld, OldIn, Existed, Ours
<1>9. CASE Raise
  <2>1. LaterSure(tried)'
    BY <1>1, <1>2, <1>8, <1>9 DEF Raise, KeepMemory, LaterSure
  <2> QED BY <1>2, <1>3, <1>7, <1>9, <2>1, RaiseLoss
<1>10. CASE ~Raise
  <2>1. pc' = "pubVerify" /\ cur' = cur /\ mode' = mode
    BY <1>10 DEF PublishSwap, Goto, KeepMemory
  <2> QED BY <1>2, <1>3, <1>7, <1>8, <2>1 DEF Loss, JournalLoss, PublishLoss, UndoLoss, RecoverLoss, LaterSure
<1> QED BY <1>9, <1>10

\* The final checks sync everything.
LEMMA FinalLoss == ASSUME IInv, StagingInv, FilesInv, DurabilityInv, Loss, FinalCheck PROVE Loss'
<1>1. Gentle /\ Ours' = Ours /\ UNCHANGED <<jr, jsurv>> /\ pc = "final" /\ tried = N
  BY SameGentle, SyncGentle DEF FinalCheck, env, Ours, FilesInv, PublishFiles
<1>2. active /\ mode = "apply"
  BY <1>1 DEF StagingInv, MemoryInv, IdleLabel, JournalLabel, DropLabel, IInv, TypeOK, MemTypeOK
<1>3. PhaseLoss' /\ \A j \in jsurv' : j.phase = jr'.phase
  BY <1>1, GentlePhase, SamePhases DEF DurabilityInv
<1>4. CASE Raise
  <2>1. LaterSure(tried)'
    BY <1>1, <1>2, <1>4, ConstantsAssumption DEF Raise, KeepMemory, LaterSure, Ours, Entry
  <2> QED BY <1>2, <1>3, <1>4, <2>1, RaiseLoss
<1>5. CASE ~Raise
  <2>1. pc' = "jStage" /\ want' = "committed" /\ mode' = mode
    BY <1>5 DEF FinalCheck, Goto
  <2> QED BY <1>2, <1>3, <2>1 DEF Loss, JournalLoss, PublishLoss, UndoLoss, RecoverLoss, PublishLabel
<1> QED BY <1>4, <1>5

\* Cleanup by the process itself.
LEMMA DoneLoss ==
  ASSUME IInv, DurabilityInv, Loss, DoneTombstone \/ DoneSync \/ DoneTombstones \/ DropOwnedSync
  PROVE  Loss'
<1>1. /\ UNCHANGED <<jr, jsurv, kind, touched>> /\ pc \in {"doneTomb", "doneSync", "dropOwned"}
      /\ pc \in {"doneTomb", "doneSync"} => jr.phase = "committed"
  BY DEF DoneTombstone, DoneSync, DoneTombstones, DropOwnedSync, disk, env, IInv, PhaseInv
<1>2. Gentle
  <2>1. CASE DoneTombstone
    <3>1. /\ cur \in Entry /\ DiskTypeOK
          /\ [fs[cur] EXCEPT !.tomb = "none"].dest = fs[cur].dest
          /\ [fs[cur] EXCEPT !.tomb = "none"].old = fs[cur].old
      BY <2>1 DEF DoneTombstone, IInv, TypeOK, DiskTypeOK, Names
    <3>2. UNCHANGED <<fs, surv>> \/ SetNames(cur, [fs[cur] EXCEPT !.tomb = "none"])
      BY <2>1 DEF DoneTombstone
    <3> QED BY <1>1, <3>1, <3>2, RebindGentle, SameGentle
  <2>2. CASE ~DoneTombstone
    <3>1. fs' = fs /\ (surv' = surv \/ Sync({cur}))
      BY <2>2 DEF DoneSync, DoneTombstones, DropOwnedSync, disk
    <3> QED BY <1>1, <3>1, SameGentle, SyncGentle
  <2> QED BY <2>1, <2>2
<1>3. PhaseLoss' /\ \A j \in jsurv' : j.phase = jr'.phase
  BY <1>1, <1>2, GentlePhase, SamePhases DEF DurabilityInv
<1>4. jr'.phase = "prepared" => AllSureOld'
  BY <1>1, <1>2, GentleSure DEF Loss, UndoLoss
<1>5. CASE Exit
  BY <1>3, <1>4, <1>5, ExitLoss DEF AllSureOld
<1>6. CASE ~Exit
  <2>1. pc' \in {"doneSync", "doneTomb", "dropOwned", "dropJournal"}
    BY <1>6 DEF DoneTombstone, DoneSync, DoneTombstones, DropOwnedSync, Goto
  <2> QED BY <1>3, <1>4, <2>1 DEF Loss, JournalLoss, PublishLoss, UndoLoss, RecoverLoss, PublishLabel,
        AllSureOld
<1> QED BY <1>5, <1>6

\* What the except clause decides changes no file.
LEMMA HandlerLoss ==
  ASSUME IInv, StagingInv, FilesInv, DurabilityInv, Edited, Loss,
         Handler \/ RollbackEntry \/ RollbackSync \/ RollbackDone
  PROVE  Loss'
<1>1. /\ Gentle /\ Ours' = Ours /\ UNCHANGED <<fs, jr, jsurv, kind, dirty>>
      /\ pc \in {"handler", "rbEntry", "rbSync"} /\ Ours \subseteq Entry
  BY SameGentle, SyncGentle DEF Handler, RollbackEntry, RollbackSync, RollbackDone, FinallyNext, disk, env, Ours
<1>2. active /\ mode = "apply"
  BY <1>1 DEF StagingInv, MemoryInv, IdleLabel, JournalLabel, DropLabel, IInv, TypeOK, MemTypeOK
<1>3. PhaseLoss' /\ \A j \in jsurv' : j.phase = jr'.phase
  BY <1>1, GentlePhase, SamePhases DEF DurabilityInv
<1>4. \A e \in Ours : SureOld(e) => SureOld(e)'
  BY <1>1, GentleSure
<1>5. \A e \in Entry : e > 0 /\ (e > cur - 1 => e > cur \/ e = cur)
  BY ConstantsAssumption DEF Entry, IInv, TypeOK, MemTypeOK
<1>6. CASE Handler
  <2>1. CASE jr.phase = "prepared"
    <3>1. pc' = "rbEntry" /\ cur' = tried /\ failed' = failed /\ mode' = mode /\ LaterSure(tried)
      BY <1>6, <2>1 DEF Handler, Goto, KeepMemory, Loss, UndoLoss
    <3>2. UndoneSure(cur)'
      BY <1>1, <1>4, <3>1 DEF UndoneSure, LaterSure
    <3> QED BY <1>2, <1>3, <3>1, <3>2 DEF Loss, JournalLoss, PublishLoss, UndoLoss, RecoverLoss, PublishLabel
  <2>2. CASE jr.phase = "preparing"
    <3>1. pc' = "dropOwned" /\ mode' = mode
      BY <1>6, <2>2 DEF Handler, Goto, KeepMemory
    <3> QED BY <1>1, <1>2, <1>3, <2>2, <3>1 DEF Loss, JournalLoss, PublishLoss, UndoLoss, RecoverLoss, PublishLabel
  <2>3. CASE jr.phase \notin {"prepared", "preparing"}
    <3>1. Exit
      BY <1>6, <2>3 DEF Handler
    <3> QED BY <1>1, <1>3, <2>3, <3>1, ExitLoss
  <2> QED BY <2>1, <2>2, <2>3
<1>7. CASE RollbackEntry
  <2>1. /\ pc = "rbEntry" /\ cur \in Entry /\ mode' = mode
        /\ \/ /\ RollbackOp(cur) = "refuse" /\ pc' = "rbEntry" /\ failed' /\ cur' = cur - 1
           \/ /\ pc' = "rbAct" /\ cur' = cur /\ op' = RollbackOp(cur) /\ failed' = failed
    BY <1>7 DEF RollbackEntry, RollbackError, Goto
  <2>2. UndoneSure(cur) /\ jr.phase = "prepared"
    BY <2>1 DEF Loss, UndoLoss, IInv, PhaseInv, PreparedLabel
  <2>3. CASE RollbackOp(cur) = "refuse" /\ pc' = "rbEntry" /\ failed' /\ cur' = cur - 1
    <3>1. ASSUME cur \in Ours, ~Existed(cur) PROVE FALSE
      <4>1. dirty[cur] = {}
        BY <3>1 DEF Edited, Ours
      <4>2. fs[cur].dest \in {"none", "new"}
        BY <2>2, <3>1 DEF FilesInv, PhaseFiles, Old, Undoable, New, OldIn, NewIn, Existed
      <4> QED BY <2>3, <3>1, <4>1, <4>2 DEF RollbackOp
    <3>2. ASSUME NEW e \in Ours', e > cur', failed' => ~Existed(e)' PROVE SureOld(e)'
      <4>1. e \in Ours /\ ~Existed(e) /\ (e > cur \/ e = cur)
        BY <1>1, <1>5, <2>3, <3>2 DEF Existed
      <4> QED BY <1>4, <2>2, <3>1, <4>1 DEF UndoneSure
    <3>3. UndoneSure(cur)'
      BY <3>2 DEF UndoneSure
    <3> QED BY <1>2, <1>3, <2>1, <2>3, <3>3 DEF Loss, JournalLoss, PublishLoss, UndoLoss, RecoverLoss,
          PublishLabel
  <2>4. CASE pc' = "rbAct" /\ cur' = cur /\ op' = RollbackOp(cur) /\ failed' = failed
    <3>1. op' = "dropDest" => fs'[cur'].dest = "new"
      BY <1>1, <2>4 DEF RollbackOp, RestoreOp
    <3>2. UndoneSure(cur)'
      BY <1>1, <1>4, <2>2, <2>4 DEF UndoneSure, Existed
    <3> QED BY <1>2, <1>3, <2>1, <2>4, <3>1, <3>2 DEF Loss, JournalLoss, PublishLoss, UndoLoss, RecoverLoss,
          PublishLabel
  <2> QED BY <2>1, <2>3, <2>4
<1>8. CASE RollbackSync
  <2>1. /\ pc = "rbSync" /\ pc' = "rbEntry" /\ cur' = cur - 1 /\ failed' = failed /\ mode' = mode
        /\ Sync({cur}) /\ UndoneSure(cur)
    BY <1>8 DEF RollbackSync, Goto, KeepMemory, Loss, UndoLoss
  <2>2. ASSUME NEW e \in Ours', e > cur', failed' => ~Existed(e)' PROVE SureOld(e)'
    <3>1. e \in Ours /\ (failed => ~Existed(e)) /\ (e > cur \/ e = cur)
      BY <1>1, <1>5, <2>1, <2>2 DEF Existed
    <3>2. CASE e > cur
      BY <1>4, <2>1, <3>1, <3>2 DEF UndoneSure
    <3>3. CASE e = cur
      <4>1. Old(e) /\ surv'[e] = {fs[e]}
        BY <1>1, <2>1, <3>1, <3>3 DEF FilesInv, UndoFiles, Sync
      <4> QED BY <1>1, <4>1 DEF SureOld, Old, OldIn, Existed
    <3> QED BY <3>1, <3>2, <3>3
  <2>3. UndoneSure(cur)'
    BY <2>2 DEF UndoneSure
  <2> QED BY <1>2, <1>3, <2>1, <2>3 DEF Loss, JournalLoss, PublishLoss, UndoLoss, RecoverLoss, PublishLabel
<1>9. CASE RollbackDone
  <2>1. UndoneSure(0) /\ jr.phase = "prepared"
    BY <1>9 DEF RollbackDone, FinallyNext, Loss, UndoLoss, IInv, PhaseInv, PreparedLabel
  <2>2. \A e \in Ours : (failed => ~Existed(e)) => SureOld(e)'
    BY <1>1, <1>4, <1>5, <2>1 DEF UndoneSure
  <2>3. CASE failed
    <3>1. \A e \in Ours' : ~Existed(e)' => SureOld(e)'
      BY <1>1, <2>2 DEF Existed
    <3> QED BY <1>3, <1>9, <2>3, <3>1, ExitLoss DEF RollbackDone
  <2>4. CASE ~failed
    <3>1. pc' = "dropOwned" /\ mode' = mode
      BY <1>9, <2>4 DEF RollbackDone, FinallyNext, Goto, KeepMemory
    <3>2. AllSureOld'
      BY <1>1, <2>2, <2>4 DEF AllSureOld
    <3> QED BY <1>2, <1>3, <3>1, <3>2 DEF Loss, JournalLoss, PublishLoss, UndoLoss, RecoverLoss, PublishLabel
  <2> QED BY <2>3, <2>4
<1> QED BY <1>6, <1>7, <1>8, <1>9

\* Undoing an entry that was created does not fail, short of a fault.
LEMMA RollbackActLoss ==
  ASSUME IInv, StagingInv, FilesInv, DurabilityInv, Loss, RollbackAct
  PROVE  Loss'
<1>1. /\ pc = "rbAct" /\ cur \in Entry /\ UNCHANGED <<jr, jsurv, env>> /\ mode' = mode
      /\ \A j \in jsurv' : j.phase = jr'.phase
  BY SamePhases DEF RollbackAct, Loss, UndoLoss, IInv, IndexInv, EntryLabel
<1>2. active /\ mode = "apply"
  BY <1>1 DEF StagingInv, MemoryInv, IdleLabel, JournalLabel, DropLabel, IInv, TypeOK, MemTypeOK
<1>3. /\ PhaseLoss' /\ Ours' = Ours /\ kind' = kind
      /\ \A e \in Ours : SureOld(e) => SureOld(e)'
  <2>1. CASE CanPerform(cur)
    BY <1>1, <2>1, RestoredSure DEF RollbackAct
  <2>2. CASE ~CanPerform(cur)
    <3>1. UNCHANGED <<fs, surv, kind, touched>>
      BY <2>2 DEF RollbackAct, env
    <3> QED BY <1>1, <3>1, SameGentle, GentleSure, GentlePhase DEF Ours, DurabilityInv
  <2> QED BY <2>1, <2>2
<1>4. UndoneSure(cur)
  BY <1>1 DEF Loss, UndoLoss
<1>5. \/ pc' = "rbSync" /\ cur' = cur /\ failed' = failed
      \/ pc' = "rbEntry" /\ failed' /\ cur' = cur - 1 /\ (~CanPerform(cur) \/ Existed(cur))
  BY DEF RollbackAct, RollbackError, Goto
<1>6. CASE pc' = "rbSync" /\ cur' = cur /\ failed' = failed
  <2>1. UndoneSure(cur)'
    BY <1>3, <1>4, <1>6 DEF UndoneSure, Existed
  <2> QED BY <1>1, <1>2, <1>3, <1>6, <2>1 DEF Loss, JournalLoss, PublishLoss, UndoLoss, RecoverLoss,
        PublishLabel
<1>7. CASE pc' = "rbEntry" /\ failed' /\ cur' = cur - 1 /\ (~CanPerform(cur) \/ Existed(cur))
  <2>1. cur \in Ours => Existed(cur)
    <3>1. SUFFICES ASSUME cur \in Ours, ~Existed(cur) PROVE FALSE
      OBVIOUS
    <3>2. op \in {"dropDest", "keep"} /\ (op = "dropDest" => fs[cur].dest = "new")
      BY <1>1, <3>1 DEF FilesInv, ChosenOp, Loss, UndoLoss
    <3> QED BY <1>7, <3>1, <3>2 DEF CanPerform
  <2>2. ASSUME NEW e \in Ours', e > cur', failed' => ~Existed(e)' PROVE SureOld(e)'
    <3>1. e \in Ours /\ ~Existed(e) /\ e \in Entry
      BY <1>3, <1>7, <2>2 DEF Existed, Ours
    <3>2. e > cur \/ e = cur
      BY <1>1, <1>7, <2>2, <3>1, ConstantsAssumption DEF Entry
    <3> QED BY <1>3, <1>4, <2>1, <3>1, <3>2 DEF UndoneSure
  <2>3. UndoneSure(cur)'
    BY <2>2 DEF UndoneSure
  <2> QED BY <1>1, <1>2, <1>3, <1>7, <2>3 DEF Loss, JournalLoss, PublishLoss, UndoLoss, RecoverLoss,
        PublishLabel
<1> QED BY <1>5, <1>6, <1>7

\* The user, who changes an inode or a name of a file that is then his, or a tombstone.
LEMMA UserGentle ==
  ASSUME IInv, DurabilityInv, User
  PROVE  /\ Gentle /\ UNCHANGED <<mem, jr, jsurv, kind, faults>>
         /\ \A e \in Ours' : fs'[e].dest = fs[e].dest
<1>1. PICK e \in Entry : UserEdit(e) \/ UserReplace(e) \/ UserDelete(e) \/ UserSweep(e)
  BY DEF User
<1>2. UNCHANGED <<mem, jr, jsurv, kind, faults>> /\ fs \in [Entry -> Names] /\ surv \in [Entry -> SUBSET Names]
  BY <1>1 DEF UserEdit, UserReplace, UserDelete, UserSweep, UserStep, IInv, TypeOK, DiskTypeOK
<1>3. CASE UserEdit(e)
  BY <1>2, <1>3 DEF UserEdit, Gentle, Ours
<1>4. CASE UserReplace(e) \/ UserDelete(e)
  <2>1. PICK f : SetNames(e, f) /\ touched' = touched \cup {e}
    BY <1>4 DEF UserReplace, UserDelete
  <2> QED BY <1>2, <2>1 DEF SetNames, Gentle, Ours
<1>5. CASE UserSweep(e)
  <2>1. /\ [fs[e] EXCEPT !.tomb = "none"].dest = fs[e].dest
        /\ [fs[e] EXCEPT !.tomb = "none"].old = fs[e].old
    BY <1>2 DEF Names
  <2>2. SetNames(e, [fs[e] EXCEPT !.tomb = "none"]) /\ touched' = touched
    BY <1>5 DEF UserSweep
  <2>3. Gentle
    BY <1>2, <2>1, <2>2, RebindGentle DEF IInv, TypeOK
  <2>4. \A d \in Ours' : fs'[d].dest = fs[d].dest
    BY <1>2, <2>1, <2>2 DEF SetNames, Ours
  <2> QED BY <1>2, <2>3, <2>4
<1> QED BY <1>1, <1>3, <1>4, <1>5

\* Steps during which the program stands still.
LEMMA StillLoss ==
  ASSUME Loss, Gentle, UNCHANGED <<mem, jr, jsurv>>, \A e \in Ours' : fs'[e].dest = fs[e].dest,
         jr \in jsurv
  PROVE  Loss'
<1>1. /\ \A e \in Ours' : e \in Ours /\ (SureOld(e) => SureOld(e)') /\ (Existed(e)' <=> Existed(e))
      /\ (AllSureOld => AllSureOld') /\ (AllSureUndo => AllSureUndo')
      /\ UNCHANGED <<pc, mode, cur, op, want, tried, failed, resync>>
  BY GentleSure DEF mem, Gentle, Existed
<1>2. PhaseLoss'
  BY GentlePhase
<1>3. JournalLoss'
  BY <1>1 DEF Loss, JournalLoss
<1>4. PublishLoss'
  BY <1>1 DEF Loss, PublishLoss, LaterSure
<1>5. UndoLoss'
  BY <1>1 DEF Loss, UndoLoss, LaterSure, UndoneSure
<1>6. RecoverLoss'
  BY <1>1 DEF Loss, RecoverLoss
<1> QED BY <1>2, <1>3, <1>4, <1>5, <1>6 DEF Loss

\* An inode the user changed belongs to a file he touched.
LEMMA EditedNext == ASSUME IInv, Edited, [Next]_vars PROVE Edited'
<1>1. CASE User
  <2>1. dirty \in [Entry -> SUBSET Inode]
    BY DEF IInv, TypeOK, DiskTypeOK
  <2>2. PICK e \in Entry : UserEdit(e) \/ UserReplace(e) \/ UserDelete(e) \/ UserSweep(e)
    BY <1>1 DEF User
  <2> QED BY <2>1, <2>2 DEF UserEdit, UserReplace, UserDelete, UserSweep, Edited
<1>2. CASE Plan
  BY <1>2 DEF Plan, Edited
<1>3. CASE ~User /\ ~Plan
  <2>1. UNCHANGED <<dirty, touched>>
    BY <1>3 DEF Next, Step, Recover, Apply, Rollback, Start, RecoverPending, RecoverPendingSync,
      RecoverDispatch, RecoverEntry, RecoverAct, RecoverSync, CleanTemporary, CleanNext, CleanSync,
      DropJournal, DropJournalSync, PlanNothing, JournalStage, JournalSwap, JournalSync, StageFile,
      RegisterFile, CheckSource, StageSync, PublishCheck, TombstoneDrop, TombstoneLink,
      TombstoneLinked, PublishReady, PublishSwap, PublishVerify, PublishUnlink, PublishUnlinked,
      FinalCheck, DoneTombstone, DoneSync, DoneTombstones, DropOwned, DropOwnedSync, Handler,
      RollbackEntry, RollbackAct, RollbackSync, RollbackDone, FinallyNext, Fail, Crash, PowerLoss, disk, env, vars
  <2> QED BY <2>1 DEF Edited
<1> QED BY <1>1, <1>2, <1>3

\* The program counts neither faults nor steps of the user.
LEMMA StepCounts == ASSUME Step PROVE UNCHANGED <<faults, moves>>
BY DEF Step, Recover, Apply, Rollback, Start, RecoverPending, RecoverPendingSync,
  RecoverDispatch, RecoverEntry, RecoverAct, RecoverSync, CleanTemporary, CleanNext, CleanSync,
  DropJournal, DropJournalSync, Plan, PlanNothing, JournalStage, JournalSwap, JournalSync,
  StageFile, RegisterFile, CheckSource, StageSync, PublishCheck, TombstoneDrop, TombstoneLink,
  TombstoneLinked, PublishReady, PublishSwap, PublishVerify, PublishUnlink, PublishUnlinked,
  FinalCheck, DoneTombstone, DoneSync, DoneTombstones, DropOwned, DropOwnedSync, Handler,
  RollbackEntry, RollbackAct, RollbackSync, RollbackDone, FinallyNext, env

\* Before the first fault, whatever a loss of power may bring back fits the journal
\* that may come back with it.
LEMMA LossNext ==
  ASSUME IInv, StagingInv, FilesInv, DurabilityInv, LossInv, [Next]_vars
  PROVE  LossInv'
<1> SUFFICES ASSUME faults' = 0 PROVE Loss'
  BY EditedNext DEF LossInv
<1>1. faults \in Nat
  BY ConstantsAssumption DEF IInv, TypeOK, EnvTypeOK
<1>2. ~(Fail \/ Crash \/ PowerLoss)
  BY <1>1 DEF Fail, Crash, PowerLoss
<1>3. faults = 0
  BY <1>2, StepCounts DEF Next, User, UserEdit, UserReplace, UserDelete, UserSweep, UserStep, env, vars
<1>4. Loss /\ Edited
  BY <1>3 DEF LossInv
<1>5. CASE Recover
  BY <1>3, <1>4, <1>5, QuietRecoverLoss, RecoverSyncLoss, RecoverEntryLoss, RecoverActLoss, RemoveLoss,
     DropJournalLoss DEF Recover
<1>6. CASE Apply
  BY <1>3, <1>4, <1>6, PlanLoss, JournalWriteLoss, StageLoss, PublishLossInv, SwapLoss, FinalLoss, DoneLoss,
     RemoveLoss DEF Apply
<1>7. CASE Rollback
  <2>1. ~FinallyNext
    BY <1>3 DEF FinallyNext, IInv, PhaseInv
  <2> QED BY <1>4, <1>7, <2>1, HandlerLoss, RollbackActLoss DEF Rollback
<1>8. CASE User
  BY <1>4, <1>8, UserGentle, StillLoss DEF DurabilityInv
<1>9. CASE UNCHANGED vars
  <2>1. UNCHANGED <<mem, jr, jsurv, fs, surv, kind, touched>>
    BY <1>9 DEF vars, disk, env
  <2> QED BY <1>4, <2>1, SameGentle, StillLoss DEF DurabilityInv
<1> QED BY <1>2, <1>5, <1>6, <1>7, <1>8, <1>9 DEF Next, Step

\* Initially nothing else may come back.
LEMMA InitLoss == Init => LossInv
<1> SUFFICES ASSUME Init PROVE LossInv
  OBVIOUS
<1>1. AllSureOld
  BY DEF Init, AllSureOld, SureOld, Ours, OldIn, Existed, NoFile
<1>2. /\ pc = "idle" /\ mode = "recover" /\ jr.phase = "none"
      /\ \A j \in jsurv : j.phase = jr.phase
  BY DEF Init, NoEntry
<1>3. Edited
  BY DEF Init, Edited
<1> QED BY <1>1, <1>2, <1>3 DEF LossInv, Loss, PhaseLoss, JournalLoss, PublishLoss, UndoLoss,
      RecoverLoss, PublishLabel

\* What a loss of power brings back is in step with the journal that comes back.
LEMMA PowerLossFiles ==
  ASSUME IInv, DurabilityInv, Loss, PowerLoss
  PROVE  FilesInv'
<1>1. /\ Ours' = Ours /\ kind' = kind /\ jr' \in jsurv /\ jr \in Journal /\ jr' \in Journal
      /\ \A e \in Entry : fs'[e] \in surv[e]
  BY DEF PowerLoss, Ours, IInv, TypeOK, DiskTypeOK
<1>2. /\ AllSureOld => AllOld'
      /\ SurelyNew => AllNew'
      /\ AllSureUndo => \A e \in Ours' : Old(e)' \/ Undoable(e)'
  BY <1>1 DEF AllSureOld, SureOld, SurelyNew, AllSureUndo, SureUndo, AllOld, AllNew, Old, New, Undoable,
    OldIn, NewIn, Existed, Ours
<1>3. jr'.phase = "committed" => SurelyNew
  BY <1>1 DEF DurabilityInv
<1>4. AllSureOld => AllSureUndo
  BY SureNow DEF AllSureOld, AllSureUndo, Ours
<1>5. /\ jr'.phase = "none" => AllSureOld \/ SurelyNew
      /\ jr'.phase = "preparing" => AllSureOld
      /\ jr'.phase = "prepared" => AllSureUndo
  <2>1. CASE jr'.phase = jr.phase
    BY <2>1 DEF Loss, PhaseLoss
  <2>2. CASE pc = "dropSync"
    BY <1>1, <1>4, <2>2 DEF Loss, PhaseLoss, IInv, PhaseInv
  <2>3. CASE pc = "jSync" /\ Precedes(jr'.phase, want)
    BY <2>3 DEF Loss, PhaseLoss, JournalLoss, IInv, PhaseInv, Precedes
  <2> QED BY <1>1, <2>1, <2>2, <2>3 DEF Loss, JournalLoss
<1>6. PhaseFiles'
  BY <1>2, <1>3, <1>4, <1>5 DEF PhaseFiles
<1> QED BY <1>6, ExitFiles DEF PowerLoss

--------------------------------------------------------------------------------
(* All or nothing                                                           *)

\* A loss of power is the first fault.  Later ones may be anything else.
LossFirst == Spec /\ [][PowerLoss => faults = 0]_vars

\* What holds of the files as they are and as they may come back.
FilesSafe == IInv /\ StagingInv /\ FilesInv /\ DurabilityInv /\ LossInv

\* It holds initially.
LEMMA InitSafe == Init => FilesSafe
<1>1. Init => DurabilityInv
  BY DEF Init, DurabilityInv, NoEntry
<1> QED BY <1>1, InitInv, InitFiles, InitLoss DEF FilesSafe

\* No step breaks it, if power is not lost after another fault.
LEMMA SafeNext ==
  FilesSafe /\ [Next]_vars /\ [PowerLoss => faults = 0]_vars => FilesSafe'
<1> SUFFICES ASSUME FilesSafe, [Next]_vars, [PowerLoss => faults = 0]_vars PROVE FilesSafe'
  OBVIOUS
<1>1. IInv' /\ StagingInv' /\ DurabilityInv' /\ LossInv'
  BY NextInv, StagingNext, DurabilityNext, LossNext DEF FilesSafe
<1>2. FilesInv'
  <2>1. CASE PowerLoss
    <3>1. faults' = faults + 1 /\ faults \in Nat
      BY <2>1, ConstantsAssumption DEF PowerLoss, FilesSafe, IInv, TypeOK, EnvTypeOK
    <3>2. faults = 0
      BY <2>1, <3>1 DEF vars, env
    <3> QED BY <2>1, <3>2, PowerLossFiles DEF FilesSafe, LossInv
  <2>2. CASE ~PowerLoss
    BY <2>2, FilesNext DEF FilesSafe
  <2> QED BY <2>1, <2>2
<1> QED BY <1>1, <1>2 DEF FilesSafe

\* So it holds in every such behaviour.
LEMMA SafeInv == LossFirst => []FilesSafe
BY InitSafe, SafeNext, PTL DEF LossFirst, Spec

\* All or nothing: whatever is killed, raises or is edited by the user, the files
\* nobody else touched are all old or all new when the journal is gone, even after
\* power was lost, if that was the first fault: after an interrupted recovery it fails.
THEOREM AtomicFiles == LossFirst => []AllOrNothing
<1>1. FilesSafe => AllOrNothing
  BY DEF FilesSafe, FilesInv, PhaseFiles, AllOrNothing, AtRest, NoEntry, AllOld, AllNew, Old, New, Ours
<1> QED BY <1>1, SafeInv, PTL

\* While a journal asks for them, the original bytes of an untouched file are under
\* its destination or its backup, as long as every error finds the except clause that
\* handles it: the finally clause would remove the backup and the tombstone.
THEOREM OriginalBytesSafe ==
  ASSUME Escapes = FALSE
  PROVE  LossFirst => []OriginalSafe
<1>1. FilesSafe => OriginalSafe
  BY DEF FilesSafe, FilesInv, PhaseFiles, OriginalSafe, AllOld, Old, OldIn, Undoable, Ours
<1> QED BY <1>1, SafeInv, PTL

--------------------------------------------------------------------------------
(* Recovery accepts what it finds                                           *)

\* As long as the user did nothing all files are ours, in one of two places.
LEMMA QuietFiles ==
  ASSUME IInv, FilesInv, Untouched, TombstoneFiles
  PROVE  /\ Ours = Entry
         /\ jr.phase = "preparing" => \A e \in Entry : Existed(e) => fs[e].dest = "orig"
         /\ AllOld => \A e \in Entry : Existed(e) => fs[e].dest = "orig"
         /\ jr.phase = "prepared" => \A e \in Entry :
              \/ Existed(e) /\ fs[e].dest = "orig"
              \/ ~Existed(e) /\ fs[e].dest = "none"
              \/ fs[e].tomb = "orig" /\ kind[e] = "update" /\ fs[e].dest = "new"
              \/ fs[e].tomb = "orig" /\ kind[e] = "delete" /\ fs[e].dest = "none"
              \/ kind[e] = "create" /\ fs[e].dest = "new"
<1>1. Ours = Entry
  BY DEF Untouched, Ours
<1>2. AllOld => \A e \in Entry : Existed(e) => fs[e].dest = "orig"
  BY <1>1 DEF AllOld, Old, OldIn, TombstoneFiles
<1>3. ASSUME jr.phase = "prepared", NEW e \in Entry
      PROVE  \/ Existed(e) /\ fs[e].dest = "orig"
             \/ ~Existed(e) /\ fs[e].dest = "none"
             \/ fs[e].tomb = "orig" /\ kind[e] = "update" /\ fs[e].dest = "new"
             \/ fs[e].tomb = "orig" /\ kind[e] = "delete" /\ fs[e].dest = "none"
             \/ kind[e] = "create" /\ fs[e].dest = "new"
  <2>1. Old(e) \/ Undoable(e)
    BY <1>1, <1>3 DEF FilesInv, PhaseFiles
  <2>2. kind[e] \in Kind
    BY DEF IInv, TypeOK, EnvTypeOK
  <2> QED BY <1>3, <2>1, <2>2 DEF TombstoneFiles, Old, OldIn, Undoable, New, NewIn, Existed, Kind
<1> QED BY <1>1, <1>2, <1>3 DEF FilesInv, PhaseFiles

\* So every entry can be restored without its backup.
LEMMA QuietRestore ==
  ASSUME IInv, FilesInv, Untouched, TombstoneFiles, jr.phase = "prepared", NEW e \in Entry
  PROVE  RecoverOp(e) \notin {"oldBack", "refuse"} /\ RecoverAccepts(e)
<1>1. \/ Existed(e) /\ fs[e].dest = "orig"
      \/ ~Existed(e) /\ fs[e].dest = "none"
      \/ fs[e].tomb = "orig" /\ kind[e] = "update" /\ fs[e].dest = "new"
      \/ fs[e].tomb = "orig" /\ kind[e] = "delete" /\ fs[e].dest = "none"
      \/ kind[e] = "create" /\ fs[e].dest = "new"
  BY QuietFiles
<1>2. RecoverOp(e) \notin {"oldBack", "refuse"}
  BY <1>1 DEF RecoverOp, RestoreOp, Installed, Existed
<1>3. dirty[e] = {} /\ fs[e].dest # "old"
  BY DEF Untouched, TombstoneFiles
<1> QED BY <1>1, <1>2, <1>3 DEF RecoverAccepts, BackupInPlace, Existed

\* A step that binds no name differently, in a phase that stays or ends.
LEMMA TombstonesKept ==
  ASSUME TombstoneInv, UNCHANGED <<fs, kind, touched, dirty>>, moves' = moves,
         jr'.phase \in {jr.phase, "none"}, moves = 0 => TombstoneControl'
  PROVE  TombstoneInv'
BY DEF TombstoneInv, Untouched, TombstoneFiles, Existed

\* A step to a label at which no original is at stake.
LEMMA NothingAtStake ==
  ASSUME pc' \notin SwapLabel \cup {"recAct", "rbAct"}
  PROVE  TombstoneControl'
BY DEF TombstoneControl, SwapLabel

\* A raise or an exit leads to such a label.
LEMMA RaiseAtStake == ASSUME Raise \/ Exit PROVE pc' \notin SwapLabel \cup {"recAct", "rbAct"}
BY DEF Raise, Exit, SwapLabel

\* Steps that bind no name and choose nothing.
LEMMA PlainTombstones ==
  ASSUME IInv, TombstoneInv,
         \/ Start \/ RecoverPending \/ RecoverPendingSync \/ RecoverDispatch \/ RecoverSync
         \/ CleanNext \/ CleanSync \/ DropJournal \/ DropJournalSync \/ PlanNothing
         \/ JournalStage \/ JournalSync \/ RegisterFile \/ CheckSource \/ StageSync
         \/ PublishVerify \/ PublishUnlinked \/ FinalCheck \/ DoneSync \/ DoneTombstones
         \/ DropOwnedSync \/ Handler \/ RollbackSync \/ RollbackDone \/ FinallyNext \/ Fail \/ Crash
  PROVE  TombstoneInv'
<1>1. UNCHANGED <<fs, kind, touched, dirty>> /\ moves' = moves
  BY DEF Start, RecoverPending, RecoverPendingSync, RecoverDispatch, RecoverSync,
    CleanNext, CleanSync, DropJournal, DropJournalSync, PlanNothing, JournalStage, JournalSync,
    RegisterFile, CheckSource, StageSync, PublishVerify, PublishUnlinked, FinalCheck, DoneSync,
    DoneTombstones, DropOwnedSync, Handler, RollbackSync, RollbackDone, FinallyNext, Fail, Crash,
    disk, env
<1>2. jr'.phase \in {jr.phase, "none"}
  <2>1. jr \in Journal
    BY DEF IInv, TypeOK, DiskTypeOK
  <2>2. /\ [jr EXCEPT !.pending = FALSE].phase = jr.phase
        /\ [jr EXCEPT !.pending = TRUE].phase = jr.phase
    BY <2>1 DEF Journal
  <2>3. CASE DropJournal
    BY <2>3 DEF DropJournal, SetJournal, NoEntry
  <2>4. CASE RecoverPending
    BY <2>2, <2>4 DEF RecoverPending, SetJournal
  <2>5. CASE JournalStage
    BY <2>2, <2>5 DEF JournalStage, SetJournal
  <2>6. CASE Fail
    <3>1. jr' = jr \/ jr' = [jr EXCEPT !.pending = FALSE]
      BY <2>6 DEF Fail, SetJournal
    <3> QED BY <2>2, <3>1
  <2>7. ASSUME ~DropJournal, ~RecoverPending, ~JournalStage, ~Fail
        PROVE  jr' = jr
    BY <2>7 DEF Start, RecoverPendingSync, RecoverDispatch, RecoverSync,
      CleanNext, CleanSync, DropJournalSync, PlanNothing, JournalSync,
      RegisterFile, CheckSource, StageSync, PublishVerify, PublishUnlinked, FinalCheck, DoneSync,
      DoneTombstones, DropOwnedSync, Handler, RollbackSync, RollbackDone, FinallyNext, Crash, disk
  <2> QED BY <2>3, <2>4, <2>5, <2>6, <2>7
<1>3. pc' \notin SwapLabel \cup {"recAct", "rbAct"}
  <2>1. CASE Raise \/ Exit
    BY <2>1, RaiseAtStake
  <2>2. CASE ~Raise /\ ~Exit
    <3>1. jr.phase \in Phase
      BY DEF IInv, TypeOK, DiskTypeOK, Journal
    <3> QED BY <2>2, <3>1 DEF Start, RecoverPending, RecoverPendingSync, RecoverDispatch, RecoverSync,
          CleanNext, CleanSync, DropJournal, DropJournalSync, PlanNothing, JournalStage, JournalSync,
          RegisterFile, CheckSource, StageSync, PublishVerify, PublishUnlinked, PublishNext, FinalCheck,
          DoneSync, DoneTombstones, DropOwnedSync, Handler, RollbackSync, RollbackDone, FinallyNext, Fail, Crash,
          Escape, RollbackError, Goto, SwapLabel, Phase
  <2> QED BY <2>1, <2>2
<1> QED BY <1>1, <1>2, <1>3, NothingAtStake, TombstonesKept

\* A step that rebinds the names of one entry and leaves it restorable.
LEMMA OneTombstone ==
  ASSUME IInv, Untouched, TombstoneFiles, NEW e \in Entry, NEW f \in Names, SetNames(e, f),
         UNCHANGED <<jr, dirty, kind, touched>>, f.dest # "old",
         jr.phase \in {"preparing", "prepared"} /\ Existed(e) => f.dest = "orig" \/ f.tomb = "orig"
  PROVE  Untouched' /\ TombstoneFiles'
<1>1. fs' = [fs EXCEPT ![e] = f] /\ fs \in [Entry -> Names]
  BY DEF SetNames, IInv, TypeOK, DiskTypeOK
<1>2. \A x \in Entry : Existed(x)' <=> Existed(x)
  BY DEF Existed
<1> QED BY <1>1, <1>2 DEF Untouched, TombstoneFiles

\* Writing the journal: all files are old when it comes to ask for them.
LEMMA SwapTombstones ==
  ASSUME IInv, FilesInv, TombstoneInv, JournalSwap
  PROVE  TombstoneInv'
<1>1. /\ UNCHANGED <<fs, kind, touched, dirty>> /\ moves' = moves
      /\ jr'.phase = want /\ pc = "jSwap" /\ pc' = "jSync"
  BY DEF JournalSwap, SetJournal, Goto, env
<1>2. TombstoneControl'
  BY <1>1, NothingAtStake DEF SwapLabel
<1>3. ASSUME moves = 0, want \in {"preparing", "prepared"}
      PROVE  \A e \in Entry : Existed(e) => fs[e].dest = "orig"
  <2>1. Untouched /\ TombstoneFiles
    BY <1>3 DEF TombstoneInv
  <2>2. CASE want = "preparing"
    <3>1. AllOld
      BY <1>1, <2>2 DEF FilesInv, JournalFiles
    <3> QED BY <2>1, <3>1, QuietFiles
  <2>3. CASE want = "prepared"
    <3>1. jr.phase = "preparing"
      BY <1>1, <2>3 DEF IInv, PhaseInv, Precedes
    <3> QED BY <2>1, <3>1, QuietFiles
  <2> QED BY <1>3, <2>2, <2>3
<1>4. moves = 0 => Untouched' /\ TombstoneFiles'
  BY <1>1, <1>3 DEF TombstoneInv, Untouched, TombstoneFiles, Existed
<1> QED BY <1>1, <1>2, <1>4 DEF TombstoneInv

\* Choosing how to restore an entry never falls on its backup.
LEMMA ChoiceTombstones ==
  ASSUME IInv, FilesInv, TombstoneInv, RecoverEntry \/ RollbackEntry
  PROVE  TombstoneInv'
<1>1. UNCHANGED <<fs, kind, touched, dirty, jr>> /\ moves' = moves
  BY DEF RecoverEntry, RollbackEntry, disk, env
<1>2. moves = 0 => TombstoneControl'
  <2>1. CASE Exit
    BY <2>1, RaiseAtStake, NothingAtStake
  <2>2. CASE ~Exit /\ RecoverEntry
    <3>1. pc' = "recEntry" \/ (pc' = "recAct" /\ op' = RecoverOp(cur))
      BY <2>2, Zenon DEF RecoverEntry, Goto
    <3>2. pc = "recEntry" /\ cur \in Entry
      BY <2>2 DEF RecoverEntry
    <3>3. moves = 0 => RecoverOp(cur) # "oldBack"
      BY <3>2, QuietRestore DEF TombstoneInv, IInv, PhaseInv, PreparedLabel
    <3> QED BY <3>1, <3>3 DEF TombstoneControl, SwapLabel
  <2>3. CASE RollbackEntry
    <3>1. pc' = "rbEntry" \/ (pc' = "rbAct" /\ op' = RollbackOp(cur))
      BY <2>3, Zenon DEF RollbackEntry, RollbackError, Goto
    <3>2. RollbackOp(cur) # "oldBack"
      BY DEF RollbackOp, RestoreOp
    <3> QED BY <3>1, <3>2 DEF TombstoneControl, SwapLabel
  <2> QED BY <2>1, <2>2, <2>3
<1> QED BY <1>1, <1>2, TombstonesKept

\* Restoring an entry leaves its original under the destination.
LEMMA RestoreTombstones ==
  ASSUME IInv, FilesInv, TombstoneInv, RecoverAct \/ RollbackAct
  PROVE  TombstoneInv'
<1>1. /\ UNCHANGED <<kind, touched, dirty, jr>> /\ moves' = moves
      /\ UNCHANGED fs \/ (SetNames(cur, Performed(cur)) /\ CanPerform(cur))
  BY DEF RecoverAct, RollbackAct, env
<1>2. pc \in {"recAct", "rbAct"} /\ cur \in Entry /\ jr.phase = "prepared"
  BY DEF RecoverAct, RollbackAct, IInv, IndexInv, PhaseInv, EntryLabel, PreparedLabel
<1>3. TombstoneControl'
  <2>1. CASE Exit
    BY <2>1, RaiseAtStake, NothingAtStake
  <2>2. CASE ~Exit
    <3>1. pc' \in {"recEntry", "rbSync", "rbEntry"}
      BY <2>2 DEF RecoverAct, RollbackAct, RollbackError, Goto
    <3> QED BY <3>1, NothingAtStake DEF SwapLabel
  <2> QED BY <2>1, <2>2
<1>4. ASSUME moves = 0, SetNames(cur, Performed(cur)), CanPerform(cur)
      PROVE  Untouched' /\ TombstoneFiles'
  <2>1. Untouched /\ TombstoneFiles /\ op # "oldBack" /\ cur \in Ours
    BY <1>2, <1>4, QuietFiles DEF TombstoneInv, TombstoneControl
  <2>2. Performed(cur) \in Names /\ op \in Op /\ DiskTypeOK
    BY <1>2, PerformedType DEF IInv, TypeOK, MemTypeOK
  <2>3. CASE Existed(cur)
    <3>1. op \in {"keep", "dropTomb", "tombBack"}
      BY <1>2, <2>1, <2>3 DEF FilesInv, ChosenOp
    <3>2. op = "tombBack" => fs[cur].tomb = "orig"
      BY <1>2, <1>4, <2>1, <2>3 DEF FilesInv, ChosenOp, CanPerform
    <3>3. op \in {"keep", "dropTomb"} => fs[cur].dest = "orig"
      BY <1>2, <2>1, <2>3 DEF FilesInv, ChosenOp
    <3>4. Performed(cur).dest = "orig"
      BY <1>2, <2>2, <3>1, <3>2, <3>3, PerformedNames
    <3> QED BY <1>1, <1>2, <1>4, <2>1, <2>2, <3>4, OneTombstone
  <2>4. CASE ~Existed(cur)
    <3>1. op \in {"keep", "dropDest"}
      BY <1>2, <2>1, <2>4 DEF FilesInv, ChosenOp
    <3>2. Performed(cur).dest # "old"
      BY <1>2, <2>1, <2>2, <3>1, PerformedNames DEF TombstoneFiles
    <3> QED BY <1>1, <1>2, <1>4, <2>1, <2>2, <2>4, <3>2, OneTombstone
  <2> QED BY <2>3, <2>4
<1>5. CASE UNCHANGED fs
  BY <1>1, <1>3, <1>5, TombstonesKept
<1>6. CASE SetNames(cur, Performed(cur)) /\ CanPerform(cur)
  BY <1>1, <1>3, <1>4, <1>6 DEF TombstoneInv
<1> QED BY <1>1, <1>5, <1>6

\* Staging and removing temporaries: the originals are under the destinations, or
\* the journal no longer asks for them.
LEMMA TemporaryTombstones ==
  ASSUME Escapes = FALSE, IInv, FilesInv, TombstoneInv, CleanTemporary \/ DropOwned \/ StageFile \/ DoneTombstone
  PROVE  TombstoneInv'
<1> DEFINE c == First(Present(cur))  d == First(owned[cur] \cap Present(cur))
           s == First(Needs(cur) \ owned[cur])
<1>1. /\ UNCHANGED <<kind, touched, dirty, jr>> /\ moves' = moves
      /\ \/ UNCHANGED fs
         \/ SetNames(cur, [fs[cur] EXCEPT ![c] = "none"])
         \/ SetNames(cur, [fs[cur] EXCEPT ![d] = "none"])
         \/ SetNames(cur, [fs[cur] EXCEPT ![s] = Staged(s)])
         \/ SetNames(cur, [fs[cur] EXCEPT !["tomb"] = "none"])
  BY DEF CleanTemporary, DropOwned, StageFile, DoneTombstone, env
<1>2. pc \in {"clean", "dropOwned", "stage", "doneTomb"} /\ cur \in Entry
  BY DEF CleanTemporary, DropOwned, StageFile, DoneTombstone, IInv, IndexInv, PhaseInv, EntryLabel
<1>3. TombstoneControl'
  <2>1. CASE Raise \/ Exit
    BY <2>1, RaiseAtStake, NothingAtStake
  <2>2. CASE ~Raise /\ ~Exit
    <3>1. pc' \in {"clean", "dropOwned", "register", "doneTomb", "doneSync"}
      BY <1>2, <2>2 DEF CleanTemporary, DropOwned, StageFile, DoneTombstone, Goto, mem
    <3> QED BY <3>1, NothingAtStake DEF SwapLabel
  <2> QED BY <2>1, <2>2
<1>4. ASSUME moves = 0, NEW t \in Temp, NEW i \in Inode, SetNames(cur, [fs[cur] EXCEPT ![t] = i])
      PROVE  Untouched' /\ TombstoneFiles'
  <2> DEFINE f == [fs[cur] EXCEPT ![t] = i]
  <2>1. Untouched /\ TombstoneFiles
    BY <1>4 DEF TombstoneInv
  <2>2. f \in Names /\ f.dest = fs[cur].dest
    BY <1>2, <1>4, NamesUpdate DEF IInv, TypeOK, DiskTypeOK
  <2>3. jr.phase \in {"preparing", "prepared"} /\ Existed(cur) => fs[cur].dest = "orig"
    <3>1. jr.phase = "prepared" => AllOld
      BY <1>2 DEF FilesInv, UndoFiles, IInv, PhaseInv, PreparingLabel
    <3> QED BY <1>2, <2>1, <3>1, QuietFiles
  <2>4. f.dest # "old"
    BY <1>2, <2>1, <2>2 DEF TombstoneFiles
  <2> HIDE DEF f
  <2>5. SetNames(cur, f)
    BY <1>4 DEF f
  <2> QED BY <1>1, <1>2, <2>1, <2>2, <2>3, <2>4, <2>5, OneTombstone
<1>5. /\ c \in Temp /\ d \in Temp /\ s \in Temp /\ "tomb" \in Temp
      /\ "none" \in Inode /\ Staged(s) \in Inode
  BY FirstType DEF Temp, Inode, Staged
<1> HIDE DEF c, d, s
<1>6. CASE UNCHANGED fs
  BY <1>1, <1>3, <1>6, TombstonesKept
<1>7. CASE ~UNCHANGED fs
  <2>1. moves = 0 => Untouched' /\ TombstoneFiles'
    BY <1>1, <1>4, <1>5, <1>7
  <2> QED BY <1>1, <1>3, <2>1 DEF TombstoneInv
<1> QED BY <1>6, <1>7

\* The checks of the publication loop find the original in place.
LEMMA CheckTombstones ==
  ASSUME IInv, FilesInv, TombstoneInv, PublishCheck \/ TombstoneLinked \/ PublishReady
  PROVE  TombstoneInv'
<1>1. UNCHANGED <<fs, kind, touched, dirty, jr>> /\ moves' = moves
  BY DEF PublishCheck, TombstoneLinked, PublishReady, disk, env
<1>2. moves = 0 => TombstoneControl'
  <2>1. CASE Raise
    BY <2>1, RaiseAtStake, NothingAtStake
  <2>2. CASE PublishCheck
    <3>1. CASE pc' = "handler"
      BY <3>1, NothingAtStake DEF SwapLabel
    <3>2. CASE pc' # "handler"
      <4>1. /\ Intact(cur) /\ cur' = cur
            /\ pc' = CASE kind[cur] = "update" -> "pubDrop"
                       [] kind[cur] = "delete" -> "pubReady"
                       [] OTHER -> "pubSwap"
        BY <2>2, <3>2 DEF PublishCheck, Goto
      <4>2. (Existed(cur) => fs[cur].dest = "orig") /\ pc' \notin {"recAct", "rbAct"}
            /\ (kind[cur] = "update" => pc' = "pubDrop")
        BY <4>1 DEF Intact
      <4> QED BY <1>1, <4>1, <4>2 DEF TombstoneControl, Existed
    <3> QED BY <3>1, <3>2
  <2>3. CASE TombstoneLinked /\ ~Raise
    <3>1. pc' = "pubReady" /\ cur' = cur /\ fs[cur].dest = "orig" /\ fs[cur].tomb = "orig"
      BY <2>3 DEF TombstoneLinked, Goto
    <3> QED BY <1>1, <3>1 DEF TombstoneControl
  <2>4. CASE PublishReady /\ ~Raise
    <3>1. pc' = "pubSwap" /\ cur' = cur /\ pc = "pubReady"
      BY <2>4 DEF PublishReady, Goto
    <3> QED BY <1>1, <3>1 DEF TombstoneControl, TombstoneInv, SwapLabel, Existed
  <2> QED BY <2>1, <2>2, <2>3, <2>4
<1> QED BY <1>1, <1>2, TombstonesKept

\* The tombstone becomes a second name of the original.
LEMMA LinkTombstones ==
  ASSUME IInv, FilesInv, TombstoneInv, TombstoneDrop \/ TombstoneLink \/ PublishUnlink
  PROVE  TombstoneInv'
<1>1. /\ UNCHANGED <<kind, touched, dirty, jr>> /\ moves' = moves
      /\ pc \in {"pubDrop", "pubLink", "pubUnlink"} /\ cur \in Entry
      /\ \/ UNCHANGED fs /\ Raise
         \/ /\ pc = "pubDrop" /\ SetNames(cur, [fs[cur] EXCEPT !.tomb = "none"])
            /\ pc' = "pubLink" /\ cur' = cur
         \/ /\ pc = "pubLink" /\ SetNames(cur, [fs[cur] EXCEPT !.tomb = fs[cur].dest])
            /\ pc' = "pubLinked" /\ cur' = cur
         \/ /\ pc = "pubUnlink" /\ SetNames(cur, [fs[cur] EXCEPT !.new = "none"])
            /\ pc' = "pubUnlinked" /\ cur' = cur
  BY DEF TombstoneDrop, TombstoneLink, PublishUnlink, env, IInv, IndexInv, EntryLabel, Goto
<1>2. fs[cur] \in Names /\ fs \in [Entry -> Names] /\ "none" \in Inode
  BY <1>1 DEF IInv, TypeOK, DiskTypeOK, Inode
<1>3. CASE UNCHANGED fs /\ Raise
  BY <1>1, <1>3, RaiseAtStake, NothingAtStake, TombstonesKept
<1>4. ASSUME NEW f \in Names, SetNames(cur, f), f.dest = fs[cur].dest, cur' = cur, moves = 0,
             \/ pc \in {"pubDrop", "pubLink"} /\ pc' \in {"pubLink", "pubLinked"}
             \/ pc' = "pubUnlinked" /\ f.tomb = fs[cur].tomb
      PROVE  TombstoneInv'
  <2>1. Untouched /\ TombstoneFiles /\ TombstoneControl
    BY <1>4 DEF TombstoneInv
  <2>2. pc \in {"pubDrop", "pubLink"} /\ Existed(cur) => fs[cur].dest = "orig"
    BY <2>1 DEF TombstoneControl, SwapLabel
  <2>3. jr.phase \in {"preparing", "prepared"} /\ Existed(cur) => f.dest = "orig" \/ f.tomb = "orig"
    BY <1>1, <1>4, <2>1, <2>2 DEF TombstoneFiles
  <2>4. f.dest # "old"
    BY <1>1, <1>4, <2>1 DEF TombstoneFiles
  <2>5. Untouched' /\ TombstoneFiles'
    BY <1>1, <1>4, <2>1, <2>3, <2>4, OneTombstone
  <2>6. fs'[cur] = f
    BY <1>1, <1>2, <1>4 DEF SetNames
  <2>7. TombstoneControl'
    BY <1>1, <1>4, <2>2, <2>6 DEF TombstoneControl, SwapLabel, Existed
  <2> QED BY <2>5, <2>7 DEF TombstoneInv
<1>5. ASSUME moves # 0 PROVE TombstoneInv'
  BY <1>1, <1>5 DEF TombstoneInv
<1>6. CASE pc = "pubDrop" /\ pc' = "pubLink" /\ cur' = cur
           /\ SetNames(cur, [fs[cur] EXCEPT !.tomb = "none"])
  <2> DEFINE f == [fs[cur] EXCEPT !.tomb = "none"]
  <2>1. f \in Names /\ f.dest = fs[cur].dest
    BY <1>2 DEF Names
  <2> QED BY <1>4, <1>5, <1>6, <2>1
<1>7. CASE pc = "pubLink" /\ pc' = "pubLinked" /\ cur' = cur
           /\ SetNames(cur, [fs[cur] EXCEPT !.tomb = fs[cur].dest])
  <2> DEFINE f == [fs[cur] EXCEPT !.tomb = fs[cur].dest]
  <2>1. f \in Names /\ f.dest = fs[cur].dest
    BY <1>2 DEF Names
  <2> QED BY <1>4, <1>5, <1>7, <2>1
<1>8. CASE pc = "pubUnlink" /\ pc' = "pubUnlinked" /\ cur' = cur
           /\ SetNames(cur, [fs[cur] EXCEPT !.new = "none"])
  <2> DEFINE f == [fs[cur] EXCEPT !.new = "none"]
  <2>1. f \in Names /\ f.dest = fs[cur].dest /\ f.tomb = fs[cur].tomb
    BY <1>2 DEF Names
  <2> QED BY <1>4, <1>5, <1>8, <2>1
<1> QED BY <1>1, <1>3, <1>6, <1>7, <1>8

\* The replacement leaves the original in the tombstone.
LEMMA ReplaceTombstones ==
  ASSUME IInv, StagingInv, FilesInv, TombstoneInv, PublishSwap
  PROVE  TombstoneInv'
<1>1. /\ UNCHANGED <<kind, touched, dirty, jr>> /\ moves' = moves /\ pc = "pubSwap" /\ cur \in Entry
  BY DEF PublishSwap, env, IInv, IndexInv, EntryLabel
<1>2. CASE Raise /\ UNCHANGED fs
  BY <1>1, <1>2, RaiseAtStake, NothingAtStake, TombstonesKept
<1>3. CASE /\ pc' = "pubVerify"
           /\ \A e \in Entry : e # cur => fs'[e] = fs[e]
           /\ kind[cur] = "update" => fs'[cur].dest = fs[cur].new /\ fs'[cur].tomb = fs[cur].tomb
           /\ kind[cur] = "delete" => fs'[cur].dest = "none" /\ fs'[cur].tomb = fs[cur].dest
           /\ kind[cur] = "create" => fs'[cur].dest = "new"
  <2>1. TombstoneControl'
    BY <1>3, NothingAtStake DEF SwapLabel
  <2>2. ASSUME moves = 0 PROVE Untouched' /\ TombstoneFiles'
    <3>1. Untouched /\ TombstoneFiles /\ TombstoneControl
      BY <2>2 DEF TombstoneInv
    <3>2. kind[cur] \in Kind
      BY <1>1 DEF IInv, TypeOK, EnvTypeOK
    <3>3. kind[cur] = "update" => fs[cur].new = "new" /\ fs[cur].tomb = "orig"
      BY <1>1, <3>1 DEF StagingInv, StagedInv, TombstoneControl
    <3>4. kind[cur] = "delete" => fs[cur].dest = "orig"
      BY <1>1, <3>1 DEF TombstoneControl, SwapLabel, Existed
    <3>5. fs'[cur].dest # "old" /\ (Existed(cur) => fs'[cur].tomb = "orig")
      BY <1>3, <3>2, <3>3, <3>4 DEF Existed, Kind
    <3> QED BY <1>1, <1>3, <3>1, <3>5 DEF Untouched, TombstoneFiles, Existed
  <2> QED BY <1>1, <2>1, <2>2 DEF TombstoneInv
<1> QED BY <1>2, <1>3, SwapNames

\* A new change set starts from originals.
LEMMA PlanTombstones == ASSUME IInv, Plan PROVE TombstoneInv'
<1>1. /\ \A e \in Entry : fs'[e].dest \in {"none", "orig"}
      /\ touched' = {} /\ dirty' = [e \in Entry |-> {}] /\ jr' = jr /\ pc' = "jStage"
      /\ jr.phase = "none"
  BY DEF Plan, NoFile, Goto, IInv, PhaseInv
<1> QED BY <1>1, NothingAtStake DEF TombstoneInv, Untouched, TombstoneFiles, SwapLabel

\* As long as the user did nothing, each original is under its destination or its
\* tombstone, and no restoring call uses the backup.
LEMMA TombstoneNext ==
  ASSUME Escapes = FALSE, IInv, StagingInv, FilesInv, TombstoneInv, [Next]_vars, ~PowerLoss
  PROVE  TombstoneInv'
<1>1. CASE Recover
  BY <1>1, PlainTombstones, ChoiceTombstones, RestoreTombstones, TemporaryTombstones DEF Recover
<1>2. CASE Apply
  BY <1>2, PlainTombstones, PlanTombstones, SwapTombstones, TemporaryTombstones, CheckTombstones,
     LinkTombstones, ReplaceTombstones DEF Apply
<1>3. CASE Rollback
  BY <1>3, PlainTombstones, ChoiceTombstones, RestoreTombstones DEF Rollback
<1>4. CASE Fail \/ Crash
  BY <1>4, PlainTombstones
<1>5. CASE User
  <2>1. moves' = moves + 1 /\ moves \in Nat
    BY <1>5 DEF User, UserEdit, UserReplace, UserDelete, UserSweep, UserStep, IInv, TypeOK, EnvTypeOK
  <2> QED BY <2>1 DEF TombstoneInv
<1>6. CASE UNCHANGED vars
  <2>1. UNCHANGED <<fs, jr, kind, touched, dirty, pc, cur, op, moves>>
    BY <1>6 DEF vars, disk, mem, env
  <2> QED BY <2>1 DEF TombstoneInv, Untouched, TombstoneFiles, TombstoneControl, Existed
<1> QED BY <1>1, <1>2, <1>3, <1>4, <1>5, <1>6 DEF Next, Step

\* As long as there is no fault and no step of the user, every state a directory may
\* come back in keeps the original that a journal that may come back asks for.
SureTombstones ==
  faults = 0 /\ moves = 0 => \A e \in Entry : \A f \in surv[e] :
    /\ f.dest # "old"
    /\ Existed(e) /\ (\E j \in jsurv : j.phase \in {"preparing", "prepared"})
         => f.dest = "orig" \/ f.tomb = "orig"

\* The program makes a directory come back in no other state than those it might and
\* the one it is in.
LEMMA StepSurvivors ==
  ASSUME IInv, Step
  PROVE  \A e \in Entry : \A f \in surv'[e] : f = fs'[e] \/ (f \in surv[e] /\ ~Plan)
<1>1. fs \in [Entry -> Names] /\ surv \in [Entry -> SUBSET Names]
  BY DEF IInv, TypeOK, DiskTypeOK
<1>2. CASE Plan
  BY <1>2 DEF Plan
<1>3. CASE ~Plan
  <2>1. \/ surv' = surv
        \/ \E d, g : SetNames(d, g)
        \/ fs' = fs /\ \E E : Sync(E)
    <3>1. CASE Recover
      BY <3>1 DEF Recover, Start, RecoverPending, RecoverPendingSync, RecoverDispatch, RecoverEntry,
        RecoverAct, RecoverSync, CleanTemporary, CleanNext, CleanSync, DropJournal, DropJournalSync, disk
    <3>2. CASE Apply
      BY <1>3, <3>2 DEF Apply, PlanNothing, JournalStage, JournalSwap, JournalSync, StageFile,
        RegisterFile, CheckSource, StageSync, PublishCheck, TombstoneDrop, TombstoneLink,
        TombstoneLinked, PublishReady, PublishSwap, PublishVerify, PublishUnlink, PublishUnlinked,
        FinalCheck, DoneTombstone, DoneSync, DoneTombstones, DropOwned, DropOwnedSync, disk
    <3>3. CASE Rollback
      BY <3>3 DEF Rollback, Handler, RollbackEntry, RollbackAct, RollbackSync, RollbackDone, FinallyNext, disk
    <3> QED BY <3>1, <3>2, <3>3 DEF Step
  <2> QED BY <1>1, <1>3, <2>1 DEF SetNames, Sync
<1> QED BY <1>2, <1>3

\* It writes names, or it writes the journal.
LEMMA NamesOrJournal ==
  ASSUME IInv, Step
  PROVE  \/ fs' = fs
         \/ Plan
         \/ UNCHANGED <<jr, jsurv>> /\ pc \notin {"jSync", "dropSync"}
<1>1. CASE Recover
  BY <1>1 DEF Recover, Start, RecoverPending, RecoverPendingSync, RecoverDispatch, RecoverEntry,
    RecoverAct, RecoverSync, CleanTemporary, CleanNext, CleanSync, DropJournal, DropJournalSync, disk
<1>2. CASE Apply
  BY <1>2 DEF Apply, PlanNothing, JournalStage, JournalSwap, JournalSync, StageFile,
    RegisterFile, CheckSource, StageSync, PublishCheck, TombstoneDrop, TombstoneLink,
    TombstoneLinked, PublishReady, PublishSwap, PublishVerify, PublishUnlink, PublishUnlinked,
    FinalCheck, DoneTombstone, DoneSync, DoneTombstones, DropOwned, DropOwnedSync, disk
<1>3. CASE Rollback
  BY <1>3 DEF Rollback, Handler, RollbackEntry, RollbackAct, RollbackSync, RollbackDone, FinallyNext, disk
<1> QED BY <1>1, <1>2, <1>3 DEF Step

\* The phases that may come back are old ones, none, or the one being written.
LEMMA StepPhases ==
  ASSUME IInv, DurabilityInv, Step
  PROVE  \A j \in jsurv' : \/ j.phase = "none" \/ \E i \in jsurv : i.phase = j.phase
                           \/ JournalSwap /\ j.phase = want
<1>1. jr \in jsurv /\ jr \in Journal
  BY DEF DurabilityInv, IInv, TypeOK, DiskTypeOK
<1>2. /\ [jr EXCEPT !.pending = TRUE].phase = jr.phase
      /\ [jr EXCEPT !.pending = FALSE].phase = jr.phase
      /\ [phase |-> want, pending |-> FALSE].phase = want /\ NoEntry.phase = "none"
  BY <1>1 DEF Journal, NoEntry
<1>3. \/ jsurv' = jsurv \/ jsurv' = {jr} \/ jsurv' = jsurv \cup {NoEntry}
      \/ jsurv' = jsurv \cup {[jr EXCEPT !.pending = TRUE]}
      \/ jsurv' = jsurv \cup {[jr EXCEPT !.pending = FALSE]}
      \/ JournalSwap /\ jsurv' = jsurv \cup {[phase |-> want, pending |-> FALSE]}
  <2>1. CASE Recover
    BY <2>1 DEF Recover, Start, RecoverPending, RecoverPendingSync, RecoverDispatch, RecoverEntry,
      RecoverAct, RecoverSync, CleanTemporary, CleanNext, CleanSync, DropJournal, DropJournalSync, disk,
      SetJournal, SyncRoot
  <2>2. CASE Apply
    BY <2>2 DEF Apply, Plan, PlanNothing, JournalStage, JournalSwap, JournalSync, StageFile,
      RegisterFile, CheckSource, StageSync, PublishCheck, TombstoneDrop, TombstoneLink,
      TombstoneLinked, PublishReady, PublishSwap, PublishVerify, PublishUnlink, PublishUnlinked,
      FinalCheck, DoneTombstone, DoneSync, DoneTombstones, DropOwned, DropOwnedSync, disk,
      SetJournal, SyncRoot
  <2>3. CASE Rollback
    BY <2>3 DEF Rollback, Handler, RollbackEntry, RollbackAct, RollbackSync, RollbackDone, FinallyNext, disk
  <2> QED BY <2>1, <2>2, <2>3 DEF Step
<1> QED BY <1>1, <1>2, <1>3

\* What may come back after a step of the program keeps the originals.
LEMMA SureTombstonesNext ==
  ASSUME IInv, DurabilityInv, Loss, TombstoneInv, SureTombstones, faults = 0, moves = 0, Step,
         TombstoneInv', moves' = 0, DurabilityInv'
  PROVE  SureTombstones'
<1> SUFFICES ASSUME NEW e \in Entry, NEW f \in surv'[e]
             PROVE  /\ f.dest # "old"
                    /\ Existed(e)' /\ (\E j \in jsurv' : j.phase \in {"preparing", "prepared"})
                         => f.dest = "orig" \/ f.tomb = "orig"
  BY DEF SureTombstones
<1>1. f = fs'[e] \/ (f \in surv[e] /\ ~Plan)
  BY StepSurvivors
<1>2. fs[e] \in surv[e] /\ jr \in jsurv /\ fs'[e].dest # "old"
  BY DEF DurabilityInv, TombstoneInv, TombstoneFiles
<1>3. f.dest # "old"
  BY <1>1, <1>2 DEF SureTombstones
<1>4. ASSUME Existed(e)', NEW j \in jsurv', j.phase \in {"preparing", "prepared"}
      PROVE  f.dest = "orig" \/ f.tomb = "orig"
  <2>1. ~Plan
    BY <1>4 DEF Plan, IInv, PhaseInv
  <2>2. Existed(e)
    <3>1. kind' = kind
      BY <2>1 DEF Step, Recover, Apply, Rollback, Start, RecoverPending, RecoverPendingSync,
        RecoverDispatch, RecoverEntry, RecoverAct, RecoverSync, CleanTemporary, CleanNext, CleanSync,
        DropJournal, DropJournalSync, PlanNothing, JournalStage, JournalSwap, JournalSync, StageFile,
        RegisterFile, CheckSource, StageSync, PublishCheck, TombstoneDrop, TombstoneLink,
        TombstoneLinked, PublishReady, PublishSwap, PublishVerify, PublishUnlink, PublishUnlinked,
        FinalCheck, DoneTombstone, DoneSync, DoneTombstones, DropOwned, DropOwnedSync, Handler,
        RollbackEntry, RollbackAct, RollbackSync, RollbackDone, FinallyNext, env
    <3> QED BY <1>4, <3>1 DEF Existed
  <2>3. f \in surv[e] \/ (f = fs'[e] /\ jsurv' = jsurv /\ jr' = jr /\ pc \notin {"jSync", "dropSync"})
    BY <1>1, <1>2, <2>1, NamesOrJournal
  <2>4. CASE f \in surv[e]
    <3>1. CASE \E i \in jsurv : i.phase \in {"preparing", "prepared"}
      BY <2>2, <2>4, <3>1 DEF SureTombstones
    <3>2. CASE JournalSwap /\ j.phase = want
      <4>1. CASE want = "prepared"
        <5>1. jr.phase = "preparing"
          BY <3>2, <4>1 DEF JournalSwap, IInv, PhaseInv, Precedes
        <5> QED BY <1>2, <2>2, <2>4, <5>1 DEF SureTombstones
      <4>2. CASE want = "preparing"
        <5>1. AllSureOld /\ touched = {}
          BY <3>2, <4>2 DEF JournalSwap, Loss, JournalLoss, TombstoneInv, Untouched
        <5> QED BY <1>3, <2>2, <2>4, <5>1 DEF AllSureOld, SureOld, OldIn, Ours
      <4> QED BY <1>4, <3>2, <4>1, <4>2
    <3> QED BY <1>4, <3>1, <3>2, StepPhases
  <2>5. CASE f = fs'[e] /\ jsurv' = jsurv /\ jr' = jr /\ pc \notin {"jSync", "dropSync"}
    <3>1. jr'.phase \in {"preparing", "prepared"}
      BY <1>4, <2>5, SamePhases
    <3> QED BY <1>4, <2>5, <3>1 DEF TombstoneInv, TombstoneFiles
  <2> QED BY <2>3, <2>4, <2>5
<1> QED BY <1>3, <1>4

\* Power that is lost takes no original away.
LEMMA PowerLossTombstones ==
  ASSUME IInv, TombstoneInv, SureTombstones, faults = 0, PowerLoss
  PROVE  TombstoneInv'
<1> SUFFICES ASSUME moves' = 0 PROVE (Untouched /\ TombstoneFiles /\ TombstoneControl)'
  BY DEF TombstoneInv
<1>1. /\ UNCHANGED <<dirty, kind, touched>> /\ moves = 0 /\ pc' = "idle" /\ jr' \in jsurv
      /\ \A e \in Entry : fs'[e] \in surv[e]
  BY DEF PowerLoss, Exit
<1>2. TombstoneFiles'
  BY <1>1 DEF SureTombstones, TombstoneFiles, Existed
<1> QED BY <1>1, <1>2 DEF TombstoneInv, Untouched, TombstoneControl, SwapLabel

\* Recovery refuses an entry only because of what the user did, not because of what
\* was killed, raised or, if that was the first fault, came back after power was lost:
\* again only where no error escapes the except clause.
THEOREM RecoveryIsAccepted ==
  ASSUME Escapes = FALSE
  PROVE  LossFirst => []RecoveryAccepts
<1>1. Init => TombstoneInv /\ SureTombstones
  BY DEF Init, TombstoneInv, SureTombstones, Untouched, TombstoneFiles, TombstoneControl, NoFile,
    NoEntry, SwapLabel
<1>2. FilesSafe /\ TombstoneInv => RecoveryAccepts
  BY QuietRestore DEF FilesSafe, TombstoneInv, RecoveryAccepts, IInv, PhaseInv, PreparedLabel
<1>3. FilesSafe /\ TombstoneInv /\ SureTombstones /\ [Next]_vars /\ [PowerLoss => faults = 0]_vars
        => (FilesSafe /\ TombstoneInv /\ SureTombstones)'
  <2> SUFFICES ASSUME FilesSafe, TombstoneInv, SureTombstones, [Next]_vars,
                      [PowerLoss => faults = 0]_vars
               PROVE  FilesSafe' /\ TombstoneInv' /\ SureTombstones'
    OBVIOUS
  <2>1. FilesSafe' /\ faults \in Nat /\ moves \in Nat
    BY SafeNext, ConstantsAssumption DEF FilesSafe, IInv, TypeOK, EnvTypeOK
  <2>2. TombstoneInv'
    <3>1. CASE PowerLoss
      <4>1. faults' = faults + 1
        BY <3>1 DEF PowerLoss
      <4>2. faults = 0
        BY <2>1, <3>1, <4>1 DEF vars, env
      <4> QED BY <3>1, <4>2, PowerLossTombstones DEF FilesSafe
    <3>2. CASE ~PowerLoss
      BY <3>2, TombstoneNext DEF FilesSafe
    <3> QED BY <3>1, <3>2
  <2>3. ASSUME faults' = 0, moves' = 0 PROVE SureTombstones'
    <3>1. ~(Fail \/ Crash \/ PowerLoss \/ User)
      <4>1. ~(Fail \/ Crash \/ PowerLoss)
        BY <2>1, <2>3 DEF Fail, Crash, PowerLoss
      <4>2. User => moves' = moves + 1
        BY DEF User, UserEdit, UserReplace, UserDelete, UserSweep, UserStep
      <4> QED BY <2>1, <2>3, <4>1, <4>2
    <3>2. CASE Step
      <4>1. faults = 0 /\ moves = 0
        BY <2>3, <3>2, StepCounts
      <4> QED BY <2>1, <2>2, <2>3, <3>2, <4>1, SureTombstonesNext DEF FilesSafe, LossInv
    <3>3. CASE UNCHANGED vars
      BY <3>3 DEF SureTombstones, Existed, vars, disk, env
    <3> QED BY <3>1, <3>2, <3>3 DEF Next
  <2>4. SureTombstones'
    BY <2>3 DEF SureTombstones
  <2> QED BY <2>1, <2>2, <2>4
<1> QED BY <1>1, <1>2, <1>3, InitSafe, PTL DEF LossFirst, Spec

\* For the whole specification: in a build, or with a bound on the faults, that never
\* loses power after another fault, and where no error escapes the except clause.
THEOREM FilesAreSafe ==
  ASSUME Escapes = FALSE, PowerFails = FALSE \/ MaxFaults <= 1
  PROVE  Spec => [](AllOrNothing /\ OriginalSafe /\ RecoveryAccepts)
<1>1. IInv /\ [Next]_vars => [PowerLoss => faults = 0]_vars
  BY ConstantsAssumption DEF PowerLoss, IInv, TypeOK, EnvTypeOK
<1>2. Spec => LossFirst
  BY <1>1, InitInv, NextInv, PTL DEF Spec, LossFirst
<1> QED BY <1>2, AtomicFiles, OriginalBytesSafe, RecoveryIsAccepted, PTL

--------------------------------------------------------------------------------
(* Nothing is left behind                                                   *)

\* No temporary appears, and the journal does not go.
Shrinking ==
  /\ \A e \in Entry : Present(e)' \subseteq Present(e)
  /\ jr'.phase = "none" => jr.phase = "none"

\* When no temporary appears they stay registered.
LEMMA KeptClean ==
  ASSUME CleanInv, Shrinking, UNCHANGED owned, active' => active,
         pc # "register", pc' # "register", Cleaned'
  PROVE  CleanInv'
BY DEF CleanInv, NoneLeft, Registered, Shrinking

\* A configurator that returns, dies or raises leaves its temporaries to the journal.
LEMMA RaiseClean ==
  ASSUME CleanInv, Shrinking, Exit \/ (Raise /\ pc # "register")
  PROVE  CleanInv'
<1>1. CASE Exit
  BY <1>1 DEF Exit, CleanInv, NoneLeft, Registered, Cleaned, Shrinking
<1>2. CASE ~Exit /\ Raise /\ pc # "register"
  <2>1. pc' = "handler" /\ UNCHANGED <<owned, active>>
    BY <1>2 DEF Raise, KeepMemory
  <2>2. Cleaned'
    BY <2>1 DEF Cleaned
  <2> QED BY <1>2, <2>1, <2>2, KeptClean
<1> QED BY <1>1, <1>2

\* Removing a temporary.
LEMMA PresentWithout ==
  ASSUME IInv, NEW e \in Entry, NEW t \in Temp, SetNames(e, [fs[e] EXCEPT ![t] = "none"])
  PROVE  /\ \A x \in Entry : Present(x)' \subseteq Present(x)
         /\ t \notin Present(e)'
<1>1. fs[e] \in Names /\ fs \in [Entry -> Names]
  BY DEF IInv, TypeOK, DiskTypeOK
<1>2. fs'[e] = [fs[e] EXCEPT ![t] = "none"] /\ \A x \in Entry : x # e => fs'[x] = fs[x]
  BY <1>1 DEF SetNames
<1>3. \A u \in Temp : [fs[e] EXCEPT ![t] = "none"][u] = IF u = t THEN "none" ELSE fs[e][u]
  BY <1>1 DEF Names, Temp
<1> QED BY <1>2, <1>3 DEF Present

\* Binding one.
LEMMA PresentWith ==
  ASSUME IInv, NEW e \in Entry, NEW t \in Temp, NEW i, SetNames(e, [fs[e] EXCEPT ![t] = i])
  PROVE  \A x \in Entry : Present(x)' \subseteq Present(x) \cup (IF x = e THEN {t} ELSE {})
<1>1. fs[e] \in Names /\ fs \in [Entry -> Names]
  BY DEF IInv, TypeOK, DiskTypeOK
<1>2. fs'[e] = [fs[e] EXCEPT ![t] = i] /\ \A x \in Entry : x # e => fs'[x] = fs[x]
  BY <1>1 DEF SetNames
<1>3. \A u \in Temp : u # t => [fs[e] EXCEPT ![t] = i][u] = fs[e][u]
  BY <1>1 DEF Names, Temp
<1> QED BY <1>2, <1>3 DEF Present

\* Restoring an entry binds no temporary.
LEMMA PresentPerformed ==
  ASSUME IInv, cur \in Entry, SetNames(cur, Performed(cur))
  PROVE  \A x \in Entry : Present(x)' \subseteq Present(x)
<1>1. fs[cur] \in Names /\ fs \in [Entry -> Names] /\ op \in Op /\ DiskTypeOK
  BY DEF IInv, TypeOK, DiskTypeOK, MemTypeOK
<1>2. fs'[cur] = Performed(cur) /\ \A x \in Entry : x # cur => fs'[x] = fs[x]
  BY <1>1 DEF SetNames
<1>3. \A u \in Temp : Performed(cur)[u] \in {"none", fs[cur][u]}
  <2>1. CASE op = "dropTomb"
    <3>1. Performed(cur) = [fs[cur] EXCEPT !.tomb = "none"]
      BY <2>1 DEF Performed
    <3> QED BY <1>1, <3>1 DEF Names, Temp
  <2>2. CASE op = "tombBack"
    <3>1. Performed(cur) = [fs[cur] EXCEPT !.dest = fs[cur].tomb, !.tomb = "none"]
      BY <2>2 DEF Performed
    <3> QED BY <1>1, <3>1 DEF Names, Temp
  <2>3. CASE op = "oldBack"
    <3>1. Performed(cur) = [fs[cur] EXCEPT !.dest = fs[cur].old, !.old = "none"]
      BY <2>3 DEF Performed
    <3> QED BY <1>1, <3>1 DEF Names, Temp
  <2>4. CASE op = "dropDest"
    <3>1. Performed(cur) = [fs[cur] EXCEPT !.dest = "none"]
      BY <2>4 DEF Performed
    <3> QED BY <1>1, <3>1 DEF Names, Temp
  <2>5. CASE op \in {"keep", "refuse"}
    BY <2>5 DEF Performed
  <2> QED BY <1>1, <2>1, <2>2, <2>3, <2>4, <2>5 DEF Op
<1> QED BY <1>2, <1>3 DEF Present

\* Recovery up to the cleanup, and the steps of the journal before the commit.
LEMMA QuietClean ==
  ASSUME IInv, StagingInv, CleanInv,
         \/ Start \/ RecoverPending \/ RecoverPendingSync \/ RecoverDispatch \/ RecoverEntry
         \/ RecoverSync \/ PlanNothing \/ JournalStage \/ CheckSource \/ StageSync
         \/ PublishCheck \/ PublishReady \/ FinalCheck \/ DoneTombstones
         \/ Handler \/ RollbackEntry \/ RollbackSync \/ RollbackDone \/ FinallyNext
  PROVE  CleanInv'
<1>1. Shrinking
  <2>1. fs' = fs
    BY DEF Start, RecoverPending, RecoverPendingSync, RecoverDispatch, RecoverEntry, RecoverSync,
      PlanNothing, JournalStage, CheckSource, StageSync, PublishCheck, PublishReady,
      FinalCheck, DoneTombstones, Handler, RollbackEntry, RollbackSync, RollbackDone, FinallyNext, disk
  <2>2. CASE RecoverPending
    <3>1. jr'.phase = jr.phase
      BY <2>2 DEF RecoverPending, SetJournal, IInv, TypeOK, DiskTypeOK, Journal
    <3> QED BY <2>1, <3>1 DEF Shrinking, Present
  <2>3. CASE JournalStage
    <3>1. jr'.phase = jr.phase
      BY <2>3 DEF JournalStage, SetJournal, IInv, TypeOK, DiskTypeOK, Journal
    <3> QED BY <2>1, <3>1 DEF Shrinking, Present
  <2>4. CASE ~RecoverPending /\ ~JournalStage
    <3>1. jr' = jr
      BY <2>4 DEF Start, RecoverPendingSync, RecoverDispatch, RecoverEntry, RecoverSync,
        PlanNothing, CheckSource, StageSync, PublishCheck, PublishReady,
        FinalCheck, DoneTombstones, Handler, RollbackEntry, RollbackSync, RollbackDone, FinallyNext, disk
    <3> QED BY <2>1, <3>1 DEF Shrinking, Present
  <2> QED BY <2>2, <2>3, <2>4
<1>2. pc # "register"
  BY DEF Start, RecoverPending, RecoverPendingSync, RecoverDispatch, RecoverEntry, RecoverSync,
    PlanNothing, JournalStage, CheckSource, StageSync, PublishCheck, PublishReady,
    FinalCheck, DoneTombstones, Handler, RollbackEntry, RollbackSync, RollbackDone, FinallyNext
<1>3. CASE Exit \/ Raise
  BY <1>1, <1>2, <1>3, RaiseClean
<1>4. CASE ~Exit /\ ~Raise
  <2>1. UNCHANGED <<owned, active>>
    BY <1>4 DEF Start, RecoverPending, RecoverPendingSync, RecoverDispatch, RecoverEntry, RecoverSync,
      PlanNothing, JournalStage, CheckSource, StageSync, PublishCheck, PublishReady,
      FinalCheck, DoneTombstones, Handler, RollbackEntry, RollbackSync, RollbackDone, FinallyNext, KeepMemory
  <2>2. /\ pc' \notin {"register", "jSync", "dropJournal", "pubLink", "pubVerify", "pubUnlinked", "doneSync"}
        /\ pc' = "clean" => cur' = 1
        /\ pc' = "pubDrop" => kind'[cur'] = "update"
    <3>1. jr.phase \in Phase
      BY DEF IInv, TypeOK, DiskTypeOK, Journal
    <3>2. CASE PublishCheck
      BY <3>2 DEF PublishCheck, Goto, env
    <3>3. CASE ~PublishCheck
      BY <1>4, <3>1, <3>3 DEF Start, RecoverPending, RecoverPendingSync, RecoverDispatch, RecoverEntry,
        RecoverSync, PlanNothing, JournalStage, CheckSource, StageSync, TombstoneLinked,
        PublishReady, FinalCheck, DoneTombstones, Handler, RollbackEntry, RollbackError, RollbackSync,
        RollbackDone, FinallyNext, Goto, Phase
    <3> QED BY <3>2, <3>3
  <2>3. \A e \in Entry : ~(e < 1)
    BY ConstantsAssumption DEF Entry
  <2>4. Cleaned'
    BY <2>2, <2>3 DEF Cleaned
  <2> QED BY <1>1, <1>2, <2>1, <2>2, <2>4, KeptClean
<1> QED BY <1>3, <1>4

\* Undoing an entry.
LEMMA RestoreClean ==
  ASSUME IInv, CleanInv, RecoverAct \/ RollbackAct
  PROVE  CleanInv'
<1>1. /\ pc \in {"recAct", "rbAct"} /\ cur \in Entry /\ UNCHANGED <<jr, kind>>
      /\ UNCHANGED fs \/ SetNames(cur, Performed(cur))
  BY DEF RecoverAct, RollbackAct, env, IInv, IndexInv, EntryLabel
<1>2. Shrinking
  BY <1>1, PresentPerformed DEF Shrinking, Present
<1>3. CASE Exit
  BY <1>2, <1>3, RaiseClean
<1>4. CASE ~Exit
  <2>1. pc' \in {"recEntry", "rbSync", "rbEntry"} /\ UNCHANGED <<owned, active>>
    BY <1>4 DEF RecoverAct, RollbackAct, RollbackError, Goto
  <2>2. Cleaned'
    BY <2>1 DEF Cleaned
  <2> QED BY <1>1, <1>2, <2>1, <2>2, KeptClean
<1> QED BY <1>3, <1>4

\* The cleanup of a recovery passes an entry when nothing is left of it.
LEMMA CleanupClean ==
  ASSUME IInv, StagingInv, CleanInv, CleanTemporary \/ CleanNext \/ CleanSync
  PROVE  CleanInv'
<1>1. pc = "clean" /\ UNCHANGED <<jr, kind>> /\ fs \in [Entry -> Names]
  BY DEF CleanTemporary, CleanNext, CleanSync, disk, env, IInv, TypeOK, DiskTypeOK
<1>2. CASE CleanTemporary
  <2> DEFINE t == First(Present(cur))
  <2>1. cur \in Entry /\ t \in Temp /\ (UNCHANGED fs \/ SetNames(cur, [fs[cur] EXCEPT ![t] = "none"]))
    BY <1>2, FirstType DEF CleanTemporary
  <2>2. Shrinking
    BY <1>1, <2>1, PresentWithout DEF Shrinking, Present
  <2>3. CASE Exit
    BY <2>2, <2>3, RaiseClean
  <2>4. CASE ~Exit
    <3>1. UNCHANGED <<pc, cur, owned, active>>
      BY <1>2, <2>4 DEF CleanTemporary
    <3>2. \A e \in Entry : e < cur => Present(e)' = {}
      BY <1>1, <2>2 DEF Shrinking, CleanInv, Cleaned
    <3>3. Cleaned'
      BY <1>1, <3>1, <3>2 DEF Cleaned
    <3> QED BY <1>1, <2>2, <3>1, <3>3, KeptClean
  <2> QED BY <2>3, <2>4
<1>3. CASE CleanNext \/ CleanSync
  <2>1. /\ UNCHANGED <<fs, owned, active>>
        /\ \/ pc' = "clean" /\ cur' = cur + 1 /\ cur \in Entry /\ Present(cur) = {}
           \/ pc' = "dropJournal" /\ cur = N + 1
    BY <1>3 DEF CleanNext, CleanSync, Goto, KeepMemory, disk
  <2>2. Shrinking
    BY <1>1, <2>1 DEF Shrinking, Present
  <2>3. \A e \in Entry : (cur \in Entry /\ e < cur + 1 => e < cur \/ e = cur) /\ (cur = N + 1 => e < cur)
    BY ConstantsAssumption DEF Entry
  <2>4. /\ pc' = "clean" => \A e \in Entry : e < cur' => Present(e) = {}
        /\ pc' = "dropJournal" => \A e \in Entry : Present(e) = {}
    BY <1>1, <2>1, <2>3 DEF CleanInv, Cleaned
  <2>5. \A e \in Entry : Present(e)' = Present(e)
    BY <2>1 DEF Present
  <2>6. Cleaned'
    BY <2>1, <2>4, <2>5 DEF Cleaned
  <2> QED BY <1>1, <2>1, <2>2, <2>6, KeptClean
<1> QED BY <1>2, <1>3

\* The journal goes when nothing is left.
LEMMA DropJournalClean ==
  ASSUME IInv, StagingInv, CleanInv, DropJournal \/ DropJournalSync
  PROVE  CleanInv'
<1>1. \A e \in Entry : Present(e)' = Present(e)
  BY DEF DropJournal, DropJournalSync, Present
<1>2. CASE DropJournal
  <2>1. pc = "dropJournal" /\ pc' = "dropSync" /\ UNCHANGED <<owned, active>>
    BY <1>2 DEF DropJournal, Goto, KeepMemory
  <2> QED BY <1>1, <2>1 DEF CleanInv, NoneLeft, Registered, Cleaned
<1>3. CASE DropJournalSync
  <2>1. pc = "dropSync" /\ jr' = jr /\ (Exit \/ (pc' = "plan" /\ UNCHANGED <<owned, active>>))
    BY <1>3 DEF DropJournalSync, Goto, KeepMemory
  <2>2. Shrinking
    BY <1>1, <2>1 DEF Shrinking
  <2>3. pc' = "plan" => Cleaned'
    BY DEF Cleaned
  <2> QED BY <2>1, <2>2, <2>3, RaiseClean, KeptClean
<1> QED BY <1>2, <1>3

\* Planning, and writing the journal.
LEMMA JournalClean ==
  ASSUME IInv, StagingInv, CleanInv, Plan \/ JournalSwap \/ JournalSync
  PROVE  CleanInv'
<1>1. CASE Plan
  <2>1. \A e \in Entry : \A t \in Temp : fs'[e][t] = "none"
    BY <1>1 DEF Plan, NoFile, Temp
  <2>2. \A e \in Entry : Present(e)' = {}
    BY <2>1 DEF Present
  <2>3. pc' = "jStage"
    BY <1>1 DEF Plan, Goto
  <2> QED BY <2>2, <2>3 DEF CleanInv, NoneLeft, Registered, Cleaned
<1>2. CASE JournalSwap
  <2>1. /\ pc = "jSwap" /\ pc' = "jSync" /\ UNCHANGED <<fs, owned, active, want>> /\ jr'.phase = want
    BY <1>2 DEF JournalSwap, SetJournal, Goto, KeepMemory
  <2>2. Precedes(jr.phase, want)
    BY <2>1 DEF IInv, PhaseInv
  <2>3. \A e \in Entry : Present(e)' = Present(e)
    BY <2>1 DEF Present
  <2>4. want # "none" /\ (want = "preparing" => \A e \in Entry : Present(e) = {})
    BY <2>2 DEF Precedes, CleanInv, NoneLeft
  <2> QED BY <2>1, <2>3, <2>4 DEF CleanInv, NoneLeft, Registered, Cleaned
<1>3. CASE JournalSync
  <2>1. /\ pc = "jSync" /\ UNCHANGED <<fs, owned, jr>>
        /\ pc' \in {"stage", "pubCheck", "doneTomb"}
    BY <1>3 DEF JournalSync, Goto
  <2>2. \A e \in Entry : Present(e)' = Present(e)
    BY <2>1 DEF Present
  <2>3. \A e \in Entry : Present(e) \subseteq owned[e]
    BY <2>1 DEF StagingInv, MemoryInv, CleanInv, Registered, Cleaned, JournalLabel
  <2> QED BY <2>1, <2>2, <2>3 DEF CleanInv, NoneLeft, Registered, Cleaned
<1> QED BY <1>1, <1>2, <1>3

\* Staging: the new temporary is registered at the next step.
LEMMA StageClean ==
  ASSUME IInv, StagingInv, CleanInv, StageFile \/ RegisterFile
  PROVE  CleanInv'
<1> DEFINE t == First(Needs(cur) \ owned[cur])
<1>1. /\ cur \in Entry /\ t \in Temp /\ owned \in [Entry -> SUBSET (Temp \cup {"orig"})]
      /\ jr.phase = "preparing" /\ UNCHANGED <<jr, kind>> /\ active
  BY FirstType DEF StageFile, RegisterFile, IInv, IndexInv, EntryLabel, PhaseInv, PreparingLabel, TypeOK,
    MemTypeOK, disk, env, StagingInv, MemoryInv, IdleLabel, JournalLabel, DropLabel
<1>2. CASE StageFile
  <2> DEFINE Refused == t # "tomb" /\ Existed(cur) /\ fs[cur].dest = "none"
  <2>1. CASE Refused
    <3>1. Raise /\ UNCHANGED fs /\ pc = "stage"
      BY <1>2, <2>1 DEF StageFile
    <3> QED BY <1>1, <3>1, RaiseClean DEF Shrinking, Present
  <2>2. CASE ~Refused
    <3>1. /\ SetNames(cur, [fs[cur] EXCEPT ![t] = Staged(t)]) /\ pc = "stage" /\ pc' = "register"
          /\ UNCHANGED <<cur, owned, active>>
      BY <1>2, <2>2 DEF StageFile, Goto, KeepMemory
    <3>2. \A e \in Entry : Present(e)' \subseteq Present(e) \cup (IF e = cur THEN {t} ELSE {})
      <4> HIDE DEF t
      <4> QED BY <1>1, <3>1, PresentWith
    <3>3. \A e \in Entry : Present(e) \subseteq owned[e]
      BY <1>1, <3>1 DEF CleanInv, Registered
    <3>4. \A e \in Entry : Needs(e)' = Needs(e)
      BY <1>1 DEF Needs
    <3>5. \A e \in Entry : Present(e)' \subseteq owned'[e] \cup
                             (IF e = cur' THEN {First(Needs(e)' \ owned'[e])} ELSE {})
      BY <3>1, <3>2, <3>3, <3>4
    <3> QED BY <1>1, <3>1, <3>5 DEF CleanInv, NoneLeft, Registered, Cleaned
  <2> QED BY <2>1, <2>2
<1>3. CASE RegisterFile
  <2>1. /\ pc = "register" /\ pc' \in {"source", "stage"} /\ UNCHANGED fs
        /\ owned' = [owned EXCEPT ![cur] = @ \cup {t}]
    BY <1>3 DEF RegisterFile, Goto, disk
  <2>2. \A e \in Entry : Present(e)' = Present(e)
    BY <2>1 DEF Present
  <2>3. \A e \in Entry : Present(e) \subseteq owned[e] \cup (IF e = cur THEN {t} ELSE {})
    BY <1>1, <2>1 DEF CleanInv, Registered
  <2>4. \A e \in Entry : Present(e)' \subseteq owned'[e]
    BY <1>1, <2>1, <2>2, <2>3
  <2> QED BY <1>1, <2>1, <2>4 DEF CleanInv, NoneLeft, Registered, Cleaned
<1> QED BY <1>2, <1>3

\* Publication: the temporaries it adds or drops are the registered ones.
LEMMA PublishClean ==
  ASSUME IInv, StagingInv, CleanInv,
         TombstoneDrop \/ TombstoneLink \/ PublishUnlink \/ PublishSwap
  PROVE  CleanInv'
<1> USE DEF PublishLabel
<1>1. /\ cur \in Entry /\ pc \in {"pubDrop", "pubLink", "pubUnlink", "pubSwap"}
      /\ jr.phase = "prepared" /\ UNCHANGED <<jr, kind>> /\ fs \in [Entry -> Names] /\ fs[cur] \in Names
  BY DEF TombstoneDrop, TombstoneLink, PublishUnlink, PublishSwap, IInv, IndexInv, EntryLabel, PhaseInv,
    PreparedLabel, TypeOK, DiskTypeOK, env
<1>2. active /\ \A e \in Entry : Present(e) \subseteq owned[e]
  BY <1>1 DEF StagingInv, MemoryInv, IdleLabel, JournalLabel, DropLabel, CleanInv, Registered
<1>3. "none" \in Inode /\ {"tomb", "new"} \subseteq Temp
  BY DEF Inode, Temp
<1>4. CASE UNCHANGED fs /\ Raise
  BY <1>1, <1>4, RaiseClean DEF Shrinking, Present
<1>5. CASE TombstoneDrop /\ ~Raise
  <2>1. /\ SetNames(cur, [fs[cur] EXCEPT !["tomb"] = "none"]) /\ pc = "pubDrop" /\ pc' = "pubLink"
        /\ UNCHANGED <<cur, owned, active>>
    BY <1>5 DEF TombstoneDrop, Goto, KeepMemory
  <2>2. Shrinking
    BY <1>1, <1>3, <2>1, PresentWithout DEF Shrinking
  <2>3. Cleaned'
    BY <1>1, <2>1 DEF Cleaned, CleanInv
  <2> QED BY <2>1, <2>2, <2>3, KeptClean
<1>6. CASE TombstoneLink /\ ~Raise
  <2>1. /\ SetNames(cur, [fs[cur] EXCEPT !["tomb"] = fs[cur].dest]) /\ pc = "pubLink" /\ pc' = "pubLinked"
        /\ UNCHANGED <<cur, owned, active>>
    BY <1>6 DEF TombstoneLink, Goto, KeepMemory
  <2>2. "tomb" \in owned[cur]
    BY <2>1 DEF CleanInv, Cleaned, StagingInv, StagedInv, Needs, Temp
  <2>3. \A e \in Entry : Present(e)' \subseteq owned'[e]
    BY <1>1, <1>2, <1>3, <2>1, <2>2, PresentWith
  <2> QED BY <1>1, <2>1, <2>3 DEF CleanInv, NoneLeft, Registered, Cleaned
<1>7. CASE PublishUnlink
  <2>1. /\ SetNames(cur, [fs[cur] EXCEPT !["new"] = "none"]) /\ pc = "pubUnlink" /\ pc' = "pubUnlinked"
        /\ UNCHANGED <<cur, owned, active>>
    BY <1>7 DEF PublishUnlink, Goto, KeepMemory
  <2>2. Shrinking /\ "new" \notin Present(cur)'
    BY <1>1, <1>3, <2>1, PresentWithout DEF Shrinking
  <2>3. \A e \in Entry : e = cur' => "new" \notin Present(e)'
    BY <2>1, <2>2 DEF Present
  <2>4. Cleaned'
    BY <1>1, <2>1, <2>3 DEF Cleaned
  <2> QED BY <2>1, <2>2, <2>4, KeptClean
<1>8. CASE PublishSwap /\ ~(UNCHANGED fs /\ Raise)
  <2>1. /\ pc = "pubSwap" /\ pc' = "pubVerify" /\ UNCHANGED <<cur, owned, active>>
        /\ \A e \in Entry : e # cur => fs'[e] = fs[e]
        /\ fs'[cur].old = fs[cur].old
        /\ kind[cur] = "update" => fs'[cur].new = "none" /\ fs'[cur].tomb = fs[cur].tomb
        /\ kind[cur] = "delete" => fs'[cur].new = fs[cur].new
        /\ kind[cur] = "create" => fs'[cur].new = fs[cur].new /\ fs'[cur].tomb = fs[cur].tomb
    BY <1>8, SwapNames DEF PublishSwap
  <2>2. kind[cur] \in Kind /\ (kind[cur] = "delete" => "tomb" \in owned[cur])
    BY <1>1, <2>1 DEF StagingInv, StagedInv, Needs, IInv, TypeOK, EnvTypeOK
  <2>3. \A t \in Temp : fs'[cur][t] # "none" => t \in owned[cur]
    <3>1. \A t \in Temp : fs[cur][t] # "none" => t \in owned[cur]
      BY <1>1, <1>2 DEF Present
    <3> QED BY <2>1, <2>2, <3>1 DEF Temp, Kind
  <2>4. \A e \in Entry : Present(e)' \subseteq owned'[e]
    BY <1>2, <2>1, <2>3 DEF Present
  <2>5. Cleaned'
    BY <1>1, <2>1 DEF Cleaned, Present
  <2> QED BY <1>1, <2>1, <2>4, <2>5 DEF CleanInv, NoneLeft, Registered
<1>9. Raise /\ (TombstoneDrop \/ TombstoneLink) => UNCHANGED fs
  BY <1>1 DEF Raise, Exit, TombstoneDrop, TombstoneLink, Goto
<1> QED BY <1>4, <1>5, <1>6, <1>7, <1>8, <1>9

\* staged_paths forgets a temporary only when it is gone.
LEMMA ForgetClean ==
  ASSUME IInv, StagingInv, CleanInv,
         TombstoneLinked \/ PublishVerify \/ PublishUnlinked \/ DoneSync
  PROVE  CleanInv'
<1>1. /\ cur \in Entry /\ pc \in {"pubLinked", "pubVerify", "pubUnlinked", "doneSync"}
      /\ UNCHANGED <<fs, jr, kind>> /\ owned \in [Entry -> SUBSET (Temp \cup {"orig"})]
  BY DEF TombstoneLinked, PublishVerify, PublishUnlinked, DoneSync, IInv, IndexInv, EntryLabel, TypeOK, MemTypeOK, env
<1>2. active /\ \A e \in Entry : Present(e) \subseteq owned[e]
  BY <1>1 DEF StagingInv, MemoryInv, IdleLabel, JournalLabel, DropLabel, CleanInv, Registered
<1>3. \A e \in Entry : Present(e)' = Present(e)
  BY <1>1 DEF Present
<1>4. CASE Raise
  BY <1>1, <1>3, <1>4, RaiseClean DEF Shrinking
<1>5. CASE ~Raise
  <2>1. /\ pc' \in {"pubReady", "pubUnlink", "pubCheck", "final", "doneTomb"} /\ active' = active
        /\ \E X \in {{}, {"orig"}}, Y \in {{}, {"new"}, {"tomb", "orig"}} :
             /\ owned' = [owned EXCEPT ![cur] = (@ \cup X) \ Y]
             /\ Y = {"new"} => pc = "pubUnlinked" \/ (pc = "pubVerify" /\ kind[cur] = "update")
             /\ Y = {"tomb", "orig"} => pc = "doneSync"
    <3>1. CASE TombstoneLinked
      BY <1>1, <1>5, <3>1 DEF TombstoneLinked, Goto
    <3>2. CASE PublishVerify
      BY <1>1, <1>5, <3>2 DEF PublishVerify, PublishNext, Goto
    <3>3. CASE PublishUnlinked
      BY <1>1, <1>5, <3>3 DEF PublishUnlinked, PublishNext, Goto
    <3>4. CASE DoneSync
      BY <1>1, <1>5, <3>4 DEF DoneSync, Goto
    <3> QED BY <3>1, <3>2, <3>3, <3>4
  <2>2. \A e \in Entry : Present(e) \subseteq owned'[e]
    <3>1. "orig" \notin Temp /\ Present(cur) \subseteq Temp
      BY DEF Temp, Present
    <3>2. pc = "doneSync" => "tomb" \notin Present(cur)
      BY <1>1 DEF CleanInv, Cleaned
    <3>3. pc = "pubUnlinked" \/ (pc = "pubVerify" /\ kind[cur] = "update") => "new" \notin Present(cur)
      BY <1>1 DEF CleanInv, Cleaned
    <3> QED BY <1>1, <1>2, <2>1, <3>1, <3>2, <3>3
  <2> QED BY <1>1, <1>3, <2>1, <2>2 DEF CleanInv, NoneLeft, Registered, Cleaned
<1> QED BY <1>4, <1>5

\* After the commit or a rollback the loops remove what is registered.
LEMMA RemoveClean ==
  ASSUME IInv, StagingInv, CleanInv, DoneTombstone \/ DropOwned \/ DropOwnedSync
  PROVE  CleanInv'
<1>1. /\ cur \in Entry /\ pc \in {"doneTomb", "dropOwned", "finally"} /\ UNCHANGED <<jr, kind>>
      /\ fs \in [Entry -> Names] /\ owned \in [Entry -> SUBSET (Temp \cup {"orig"})]
  BY DEF DoneTombstone, DropOwned, DropOwnedSync, IInv, TypeOK, MemTypeOK, DiskTypeOK, env
<1>2. active /\ \A e \in Entry : Present(e) \subseteq owned[e]
  BY <1>1 DEF StagingInv, MemoryInv, IdleLabel, JournalLabel, DropLabel, CleanInv, Registered
<1>3. CASE DoneTombstone
  <2>1. UNCHANGED <<owned, active>>
    BY <1>3 DEF DoneTombstone
  <2>2. CASE Existed(cur) /\ fs[cur].tomb = "orig"
    <3>1. SetNames(cur, [fs[cur] EXCEPT !["tomb"] = "none"]) /\ pc' = "doneSync" /\ cur' = cur
      BY <1>3, <2>2 DEF DoneTombstone, Goto
    <3>2. "tomb" \in Temp
      BY DEF Temp
    <3>3. Shrinking /\ "tomb" \notin Present(cur)'
      BY <1>1, <3>1, <3>2, PresentWithout DEF Shrinking
    <3>4. \A e \in Entry : e = cur' => "tomb" \notin Present(e)'
      BY <3>1, <3>3 DEF Present
    <3>5. Cleaned'
      BY <1>1, <3>1, <3>4 DEF Cleaned
    <3> QED BY <1>1, <2>1, <3>1, <3>3, <3>5, KeptClean
  <2>3. CASE ~(Existed(cur) /\ fs[cur].tomb = "orig")
    <3>1. UNCHANGED fs /\ pc' = "doneTomb"
      BY <1>3, <2>3 DEF DoneTombstone, Goto
    <3>2. Shrinking /\ Cleaned'
      BY <1>1, <3>1 DEF Shrinking, Cleaned, Present
    <3> QED BY <1>1, <2>1, <3>1, <3>2, KeptClean
  <2> QED BY <2>2, <2>3
<1>4. CASE DropOwned
  <2> DEFINE t == First(owned[cur] \cap Present(cur))
  <2>1. t \in Temp /\ (UNCHANGED fs \/ SetNames(cur, [fs[cur] EXCEPT ![t] = "none"]))
    BY <1>4, FirstType DEF DropOwned
  <2>2. Shrinking
    BY <1>1, <2>1, PresentWithout DEF Shrinking, Present
  <2>3. CASE Exit
    BY <2>2, <2>3, RaiseClean
  <2>4. CASE ~Exit
    <3>1. UNCHANGED <<pc, owned, active>> /\ pc \in {"dropOwned", "finally"}
      BY <1>4, <2>4 DEF DropOwned, mem
    <3>2. Cleaned'
      BY <3>1 DEF Cleaned
    <3> QED BY <2>2, <3>1, <3>2, KeptClean
  <2> QED BY <2>3, <2>4
<1>5. CASE DropOwnedSync
  <2>1. /\ pc = "dropOwned" /\ UNCHANGED <<fs, active>> /\ owned' = [owned EXCEPT ![cur] = {}]
        /\ owned[cur] \cap Present(cur) = {}
        /\ pc' = "dropOwned" \/ (pc' = "dropJournal" /\ ~(cur < N))
    BY <1>5 DEF DropOwnedSync, Goto
  <2>2. \A e \in Entry : Present(e)' = Present(e)
    BY <2>1 DEF Present
  <2>3. \A e \in Entry : Present(e) \subseteq owned'[e]
    BY <1>1, <1>2, <2>1
  <2>4. pc' = "dropJournal" => \A e \in Entry : Present(e) = {}
    <3>1. \A e \in Entry : e < cur => owned[e] = {}
      BY <2>1 DEF StagingInv, BackupsInv
    <3>2. \A e \in Entry : ~(cur < N) => e < cur \/ e = cur
      BY <1>1, ConstantsAssumption DEF Entry
    <3> QED BY <1>1, <1>2, <2>1, <3>1, <3>2
  <2> QED BY <1>1, <2>1, <2>2, <2>3, <2>4 DEF CleanInv, NoneLeft, Registered, Cleaned
<1> QED BY <1>3, <1>4, <1>5

\* Errors and crashes: a call that raises right after a file was staged, before it
\* was registered, is the one exception.
LEMMA FaultClean ==
  ASSUME LateFaults = FALSE, IInv, CleanInv, Fail \/ Crash
  PROVE  CleanInv'
<1>1. Shrinking
  <2>1. fs' = fs
    BY DEF Fail, Crash, disk
  <2>2. jr'.phase = jr.phase
    <3>1. jr' = jr \/ jr' = [jr EXCEPT !.pending = FALSE]
      BY DEF Fail, Crash, SetJournal, disk
    <3> QED BY <3>1 DEF IInv, TypeOK, DiskTypeOK, Journal
  <2> QED BY <2>1, <2>2 DEF Shrinking, Present
<1>2. CASE Exit
  BY <1>1, <1>2, RaiseClean
<1>3. CASE ~Exit
  <2>1. Fail /\ pc # "register"
    BY <1>3 DEF Fail, Crash
  <2>2. CASE Raise
    BY <1>1, <2>1, <2>2, RaiseClean
  <2>3. CASE ~Raise
    <3>1. pc' \in {"rbEntry", "doneTomb", "finally"} /\ UNCHANGED <<owned, active>>
      BY <1>3, <2>1, <2>3 DEF Fail, Escape, KeepMemory, RollbackError, Goto
    <3>2. Cleaned'
      BY <3>1 DEF Cleaned
    <3> QED BY <1>1, <2>1, <3>1, <3>2, KeptClean
  <2> QED BY <2>2, <2>3
<1> QED BY <1>2, <1>3

\* The user creates no temporary.
LEMMA UserClean ==
  ASSUME IInv, CleanInv, User
  PROVE  CleanInv'
<1>1. PICK e \in Entry : UserEdit(e) \/ UserReplace(e) \/ UserDelete(e) \/ UserSweep(e)
  BY DEF User
<1>2. UNCHANGED <<pc, cur, want, owned, active, jr, kind>>
  BY <1>1 DEF UserEdit, UserReplace, UserDelete, UserSweep, UserStep, mem
<1>3. fs \in [Entry -> Names] /\ fs[e] \in Names
  BY DEF IInv, TypeOK, DiskTypeOK
<1>4. \A x \in Entry : Present(x)' \subseteq Present(x)
  <2>1. CASE UserEdit(e)
    BY <2>1 DEF UserEdit, Present
  <2>2. CASE UserReplace(e)
    <3>1. fs' = [fs EXCEPT ![e] = [fs[e] EXCEPT !.dest = "user"]]
      BY <2>2 DEF UserReplace, SetNames
    <3>2. \A t \in Temp : [fs[e] EXCEPT !.dest = "user"][t] = fs[e][t]
      BY <1>3 DEF Names, Temp
    <3> QED BY <1>3, <3>1, <3>2 DEF Present
  <2>3. CASE UserDelete(e)
    <3>1. fs' = [fs EXCEPT ![e] = [fs[e] EXCEPT !.dest = "none"]]
      BY <2>3 DEF UserDelete, SetNames
    <3>2. \A t \in Temp : [fs[e] EXCEPT !.dest = "none"][t] = fs[e][t]
      BY <1>3 DEF Names, Temp
    <3> QED BY <1>3, <3>1, <3>2 DEF Present
  <2>4. CASE UserSweep(e)
    <3>1. SetNames(e, [fs[e] EXCEPT !["tomb"] = "none"]) /\ "tomb" \in Temp
      BY <2>4 DEF UserSweep, Temp
    <3> QED BY <3>1, PresentWithout
  <2> QED BY <1>1, <2>1, <2>2, <2>3, <2>4
<1>5. NoneLeft'
  BY <1>2, <1>4 DEF CleanInv, NoneLeft
<1>6. Registered'
  <2>1. \A x \in Entry : Needs(x)' = Needs(x)
    BY <1>2 DEF Needs
  <2> QED BY <1>2, <1>4, <2>1 DEF CleanInv, Registered
<1>7. Cleaned'
  <2>1. \A x \in Entry : x = cur => Present(x)' = Present(cur)'
    BY <1>2 DEF Present
  <2>2. pc \in {"pubVerify", "pubUnlinked", "doneSync"} => cur \in Entry
    BY DEF IInv, IndexInv, EntryLabel
  <2> QED BY <1>2, <1>4, <2>1, <2>2 DEF CleanInv, Cleaned
<1> QED BY <1>5, <1>6, <1>7 DEF CleanInv

\* Every temporary is one the program still knows, in memory or in the journal.
LEMMA CleanPreserved ==
  ASSUME PowerFails = FALSE, LateFaults = FALSE
  PROVE  IInv /\ StagingInv /\ CleanInv /\ [Next]_vars => CleanInv'
<1> SUFFICES ASSUME IInv, StagingInv, CleanInv, [Next]_vars PROVE CleanInv'
  OBVIOUS
<1>1. CASE Recover
  BY <1>1, QuietClean, RestoreClean, CleanupClean, DropJournalClean DEF Recover
<1>2. CASE Apply
  BY <1>2, QuietClean, JournalClean, StageClean, PublishClean, ForgetClean, RemoveClean DEF Apply
<1>3. CASE Rollback
  BY <1>3, QuietClean, RestoreClean DEF Rollback
<1>4. CASE Fail \/ Crash \/ User
  BY <1>4, FaultClean, UserClean
<1>5. CASE PowerLoss
  BY <1>5 DEF PowerLoss
<1>6. CASE UNCHANGED vars
  <2>1. UNCHANGED <<fs, jr, kind, pc, cur, want, owned, active>>
    BY <1>6 DEF vars, disk, mem, env
  <2> QED BY <2>1 DEF CleanInv, NoneLeft, Registered, Cleaned, Present, Needs
<1> QED BY <1>1, <1>2, <1>3, <1>4, <1>5, <1>6 DEF Next, Step

\* When the journal is gone no temporary is left, whoever else edits the files and
\* wherever the program is killed.  Two faults are excluded, each of which can
\* leave one: a call that raises between staging a file and registering it, and
\* a power loss that brings back a temporary an interrupted recovery removed.  An
\* error that escapes the except clause is not excluded.
THEOREM NothingIsLeft ==
  ASSUME PowerFails = FALSE, LateFaults = FALSE
  PROVE  Spec => []NothingLeftBehind
<1>1. Init => CleanInv
  BY DEF Init, CleanInv, NoneLeft, Registered, Cleaned, Present, Temp, NoFile
<1>2. Init => IInv /\ StagingInv
  BY InitInv, InitFiles
<1>3. IInv /\ StagingInv /\ CleanInv /\ [Next]_vars => (IInv /\ StagingInv /\ CleanInv)'
  BY NextInv, StagingNext, CleanPreserved
<1>4. IInv /\ StagingInv /\ CleanInv => NothingLeftBehind
  BY DEF CleanInv, NoneLeft, NothingLeftBehind, AtRest, NoEntry
<1> QED BY <1>1, <1>2, <1>3, <1>4, PTL DEF Spec

--------------------------------------------------------------------------------
(* Refinement                                                               *)

\* The files are seen all old, or all new, when the phase of the journal says so.
LEMMA ViewOf ==
  ASSUME touched = {}
  PROVE  /\ AllOld => View = Abstract!All("old")
         /\ AllNew => View = Abstract!All("new")
<1>1. Ours = Entry
  BY DEF Ours
<1>2. ASSUME AllOld PROVE View = Abstract!All("old")
  <2>1. \A e \in Entry : ~NewIn(e, fs[e])
    BY <1>1, <1>2, OldNotNew DEF AllOld, New
  <2> QED BY <2>1 DEF View, Abstract!All
<1>3. ASSUME AllNew PROVE View = Abstract!All("new")
  BY <1>1, <1>3 DEF AllNew, New, View, Abstract!All
<1> QED BY <1>2, <1>3

\* A step that changes neither a destination nor the phase is invisible.
LEMMA Invisible ==
  ASSUME SameDestinations, kind' = kind, jr'.phase = jr.phase
  PROVE  UNCHANGED <<Status, View>>
<1>1. \A e \in Entry : NewIn(e, fs[e])' <=> NewIn(e, fs[e])
  BY DEF SameDestinations, NewIn
<1> QED BY <1>1 DEF Status, View

\* Steps of recovery and of the except clause that restore nothing.
LEMMA RecoverInvisible ==
  ASSUME IInv, Recover \/ Rollback, ~RecoverAct, ~RollbackAct, ~DropJournal
  PROVE  UNCHANGED <<Status, View>>
<1>1. kind' = kind /\ jr \in Journal
  BY DEF Recover, Rollback, Start, RecoverPending, RecoverPendingSync, RecoverDispatch, RecoverEntry,
    RecoverSync, CleanTemporary, CleanNext, CleanSync, DropJournalSync, Handler, RollbackEntry,
    RollbackSync, RollbackDone, FinallyNext, env, IInv, TypeOK, DiskTypeOK
<1>2. CASE RecoverPending
  <2>1. fs' = fs /\ jr' = [jr EXCEPT !.pending = FALSE]
    BY <1>2 DEF RecoverPending, SetJournal
  <2> QED BY <1>1, <2>1, Invisible DEF SameDestinations, Journal
<1>3. CASE CleanTemporary
  <2>1. cur \in Entry /\ First(Present(cur)) \in Temp /\ "none" \in Inode /\ jr' = jr
    BY <1>3, FirstType DEF CleanTemporary, Inode
  <2>2. SameDestinations
    BY <1>3, <2>1, TempUpdate DEF CleanTemporary, IInv, TypeOK, SameDestinations
  <2> QED BY <1>1, <2>1, <2>2, Invisible
<1>4. CASE ~RecoverPending /\ ~CleanTemporary
  <2>1. fs' = fs /\ jr' = jr
    BY <1>4 DEF Recover, Rollback, Start, RecoverPendingSync, RecoverDispatch, RecoverEntry,
      RecoverSync, CleanNext, CleanSync, DropJournalSync, Handler, RollbackEntry,
      RollbackSync, RollbackDone, FinallyNext, disk
  <2> QED BY <1>1, <2>1, Invisible DEF SameDestinations
<1> QED BY <1>2, <1>3, <1>4

\* Steps of the transaction that neither plan, nor write the phase, nor replace a file.
LEMMA ApplyInvisible ==
  ASSUME IInv, Apply, ~Plan, ~JournalSwap, ~PublishSwap
  PROVE  UNCHANGED <<Status, View>>
<1>1. kind' = kind /\ jr \in Journal
  BY DEF Apply, PlanNothing, JournalStage, JournalSync, StageFile, RegisterFile, CheckSource, StageSync,
    PublishCheck, TombstoneDrop, TombstoneLink, TombstoneLinked, PublishReady, PublishVerify,
    PublishUnlink, PublishUnlinked, FinalCheck, DoneTombstone, DoneSync, DoneTombstones, DropOwned,
    DropOwnedSync, env, IInv, TypeOK, DiskTypeOK
<1>2. CASE JournalStage
  <2>1. fs' = fs /\ jr' = [jr EXCEPT !.pending = TRUE]
    BY <1>2 DEF JournalStage, SetJournal
  <2> QED BY <1>1, <2>1, Invisible DEF SameDestinations, Journal
<1>3. CASE DropOwned \/ StageFile
  <2> DEFINE d == First(owned[cur] \cap Present(cur))  s == First(Needs(cur) \ owned[cur])
  <2>1. /\ cur \in Entry /\ jr' = jr
        /\ \/ UNCHANGED fs
           \/ SetNames(cur, [fs[cur] EXCEPT ![d] = "none"])
           \/ SetNames(cur, [fs[cur] EXCEPT ![s] = Staged(s)])
    BY <1>3 DEF DropOwned, StageFile, IInv, IndexInv, EntryLabel
  <2>2. d \in Temp /\ s \in Temp /\ "none" \in Inode /\ Staged(s) \in Inode
    BY FirstType DEF Inode, Staged, Temp
  <2> HIDE DEF d, s
  <2>3. SameDestinations
    BY <2>1, <2>2, TempUpdate DEF IInv, TypeOK, SameDestinations
  <2> QED BY <1>1, <2>1, <2>3, Invisible
<1>4. CASE TombstoneDrop \/ TombstoneLink \/ PublishUnlink \/ DoneTombstone
  <2>1. /\ cur \in Entry /\ jr' = jr /\ fs \in [Entry -> Names]
        /\ \/ UNCHANGED fs
           \/ SetNames(cur, [fs[cur] EXCEPT !.tomb = "none"])
           \/ SetNames(cur, [fs[cur] EXCEPT !.tomb = fs[cur].dest])
           \/ SetNames(cur, [fs[cur] EXCEPT !.new = "none"])
    BY <1>4 DEF TombstoneDrop, TombstoneLink, PublishUnlink, DoneTombstone, IInv, IndexInv, EntryLabel,
      TypeOK, DiskTypeOK
  <2>2. SameDestinations
    BY <2>1 DEF SameDestinations, SetNames, Names
  <2> QED BY <1>1, <2>1, <2>2, Invisible
<1>5. CASE ~JournalStage /\ ~DropOwned /\ ~StageFile
           /\ ~(TombstoneDrop \/ TombstoneLink \/ PublishUnlink \/ DoneTombstone)
  <2>1. fs' = fs /\ jr' = jr
    BY <1>5 DEF Apply, PlanNothing, JournalSync, RegisterFile, CheckSource, StageSync,
      PublishCheck, TombstoneLinked, PublishReady, PublishVerify, PublishUnlinked, FinalCheck,
      DoneSync, DoneTombstones, DropOwnedSync, disk
  <2> QED BY <1>1, <2>1, Invisible DEF SameDestinations
<1> QED BY <1>2, <1>3, <1>4, <1>5

\* A fault changes at most the pending journal.
LEMMA FaultInvisible ==
  ASSUME IInv, Fail \/ Crash
  PROVE  UNCHANGED <<Status, View>>
<1>1. kind' = kind /\ jr \in Journal /\ fs' = fs
  BY DEF Fail, Crash, disk, IInv, TypeOK, DiskTypeOK
<1>2. jr' = jr \/ jr' = [jr EXCEPT !.pending = FALSE]
  BY DEF Fail, Crash, SetJournal, disk
<1> QED BY <1>1, <1>2, Invisible DEF SameDestinations, Journal

\* Writing the journal opens the update, goes on with it, or decides it.
LEMMA SwapRefines ==
  ASSUME IInv, FilesInv, touched = {}, JournalSwap
  PROVE  Abstract!Next \/ UNCHANGED <<Status, View>>
<1>1. pc = "jSwap" /\ fs' = fs /\ kind' = kind /\ jr'.phase = want /\ Precedes(jr.phase, want)
  BY DEF JournalSwap, SetJournal, env, IInv, PhaseInv
<1>2. View' = View
  BY <1>1 DEF View, NewIn
<1>3. CASE want = "preparing"
  <2>1. Status = "rest" /\ Status' = "open"
    BY <1>1, <1>3 DEF Status, Precedes
  <2>2. View = Abstract!All("old")
    BY <1>1, <1>3, ViewOf DEF FilesInv, JournalFiles
  <2> QED BY <1>2, <2>1, <2>2 DEF Abstract!Next, Abstract!Open
<1>4. CASE want = "prepared"
  BY <1>1, <1>2, <1>4 DEF Status, Precedes
<1>5. CASE want = "committed"
  <2>1. Status = "open" /\ Status' = "decided"
    BY <1>1, <1>5 DEF Status, Precedes
  <2>2. View = Abstract!All("new")
    BY <1>1, <1>5, ViewOf DEF FilesInv, JournalFiles
  <2> QED BY <1>2, <2>1, <2>2 DEF Abstract!Next, Abstract!Decide
<1> QED BY <1>1, <1>3, <1>4, <1>5 DEF Precedes

\* Removing it ends the update.
LEMMA DropRefines ==
  ASSUME IInv, FilesInv, touched = {}, DropJournal
  PROVE  Abstract!Next \/ UNCHANGED <<Status, View>>
<1>1. /\ pc = "dropJournal" /\ fs' = fs /\ kind' = kind /\ jr'.phase = "none"
      /\ jr.phase \in Phase
  BY DEF DropJournal, SetJournal, NoEntry, env, IInv, TypeOK, DiskTypeOK, Journal
<1>2. View' = View /\ Status' = "rest"
  BY <1>1 DEF View, NewIn, Status
<1>3. CASE jr.phase = "none"
  BY <1>2, <1>3 DEF Status
<1>4. CASE jr.phase \in {"preparing", "prepared"}
  <2>1. AllOld
    BY <1>1, <1>4 DEF FilesInv, PhaseFiles, UndoFiles
  <2>2. Status = "open"
    BY <1>4 DEF Status
  <2> QED BY <1>2, <2>1, <2>2, ViewOf DEF Abstract!Next, Abstract!Close
<1>5. CASE jr.phase = "committed"
  <2>1. AllNew
    BY <1>5 DEF FilesInv, PhaseFiles
  <2>2. Status = "decided"
    BY <1>5 DEF Status
  <2> QED BY <1>2, <2>1, <2>2, ViewOf DEF Abstract!Next, Abstract!Close
<1> QED BY <1>1, <1>3, <1>4, <1>5 DEF Phase

\* Replacing or restoring a file writes in an open update; planning proposes one.
LEMMA WriteRefines ==
  ASSUME IInv, RecoverAct \/ RollbackAct \/ PublishSwap \/ Plan
  PROVE  Abstract!Next
<1>1. jr' = jr
  BY DEF RecoverAct, RollbackAct, PublishSwap, Plan
<1>2. CASE RecoverAct \/ RollbackAct \/ PublishSwap
  <2>1. jr.phase = "prepared"
    BY <1>2 DEF RecoverAct, RollbackAct, PublishSwap, IInv, PhaseInv, PreparedLabel
  <2>2. Status = "open" /\ Status' = Status
    BY <1>1, <2>1 DEF Status
  <2>3. View' \in [Entry -> {"old", "new"}]
    BY DEF View
  <2> QED BY <2>2, <2>3 DEF Abstract!Next, Abstract!Write
<1>3. CASE Plan
  <2>1. jr.phase = "none"
    BY <1>3 DEF Plan, IInv, PhaseInv
  <2>2. Status = "rest" /\ Status' = Status
    BY <1>1, <2>1 DEF Status
  <2>3. \A e \in Entry : /\ kind'[e] \in Kind
                         /\ fs'[e].dest = IF kind'[e] = "create" THEN "none" ELSE "orig"
    BY <1>3 DEF Plan, NoFile
  <2>4. View' = Abstract!All("old")
    BY <2>3 DEF View, NewIn, Abstract!All, Kind
  <2> QED BY <2>2, <2>4 DEF Abstract!Next, Abstract!Propose
<1> QED BY <1>2, <1>3

\* Without a user no file is touched.
LEMMA NobodyTouches ==
  ASSUME PowerFails = FALSE, MaxMoves = 0, IInv, touched = {}, [Next]_vars
  PROVE  touched' = {}
<1>1. moves = 0
  BY DEF IInv, TypeOK, EnvTypeOK
<1>2. ~User /\ ~PowerLoss
  BY <1>1 DEF PowerLoss, User, UserEdit, UserReplace, UserDelete, UserSweep, UserStep
<1>3. CASE Plan
  BY <1>3 DEF Plan
<1>4. CASE ~Plan
  BY <1>2, <1>4 DEF Next, Step, Recover, Apply, Rollback, Start, RecoverPending, RecoverPendingSync,
    RecoverDispatch, RecoverEntry, RecoverAct, RecoverSync, CleanTemporary, CleanNext, CleanSync,
    DropJournal, DropJournalSync, PlanNothing, JournalStage, JournalSwap, JournalSync, StageFile,
    RegisterFile, CheckSource, StageSync, PublishCheck, TombstoneDrop, TombstoneLink,
    TombstoneLinked, PublishReady, PublishSwap, PublishVerify, PublishUnlink, PublishUnlinked,
    FinalCheck, DoneTombstone, DoneSync, DoneTombstones, DropOwned, DropOwnedSync, Handler,
    RollbackEntry, RollbackAct, RollbackSync, RollbackDone, FinallyNext, Fail, Crash, vars, env
<1> QED BY <1>3, <1>4

\* Each step of the transaction is a step of the atomic update or invisible.
LEMMA NextRefines ==
  ASSUME PowerFails = FALSE, MaxMoves = 0
  PROVE  IInv /\ FilesInv /\ touched = {} /\ [Next]_vars => [Abstract!Next]_<<Status, View>>
<1> SUFFICES ASSUME IInv, FilesInv, touched = {}, [Next]_vars
             PROVE  Abstract!Next \/ UNCHANGED <<Status, View>>
  OBVIOUS
<1>1. moves = 0
  BY DEF IInv, TypeOK, EnvTypeOK
<1>2. CASE Step
  BY <1>1, <1>2, RecoverInvisible, ApplyInvisible, SwapRefines, DropRefines, WriteRefines
     DEF Step
<1>3. CASE Fail \/ Crash
  BY <1>3, FaultInvisible
<1>4. CASE PowerLoss \/ User
  BY <1>1, <1>4 DEF PowerLoss, User, UserEdit, UserReplace, UserDelete, UserSweep, UserStep
<1>5. CASE UNCHANGED vars
  BY <1>5, Invisible DEF vars, disk, env, SameDestinations
<1> QED BY <1>2, <1>3, <1>4, <1>5 DEF Next

\* The transaction implements the atomic update of AtomicUpdate.tla: however often
\* it is killed, raises or is recovered, what is seen of any number of files goes
\* from all old to all new at the commit point, or back.  Power is not lost, and
\* nobody else writes to the files: the atomic update has no such steps.
THEOREM Refinement ==
  ASSUME PowerFails = FALSE, MaxMoves = 0
  PROVE  Spec => ImplementsAtomicUpdate
<1>1. Init => Abstract!Init
  <2> SUFFICES ASSUME Init PROVE Abstract!Init
    OBVIOUS
  <2>1. AllOld /\ touched = {} /\ jr.phase = "none"
    BY DEF Init, AllOld, Ours, Old, OldIn, Existed, NoFile, NoEntry
  <2> QED BY <2>1, ViewOf DEF Abstract!Init, Status
<1>2. Init => IInv /\ StagingInv /\ FilesInv /\ touched = {}
  BY InitInv, InitFiles DEF Init
<1>3. IInv /\ StagingInv /\ FilesInv /\ touched = {} /\ [Next]_vars
        => (IInv /\ StagingInv /\ FilesInv /\ touched = {})'
  <2>1. ~PowerLoss
    BY DEF PowerLoss
  <2>2. IInv /\ touched = {} /\ [Next]_vars => touched' = {}
    BY NobodyTouches
  <2> QED BY <2>1, <2>2, NextInv, StagingNext, FilesNext
<1>4. IInv /\ FilesInv /\ touched = {} /\ [Next]_vars => [Abstract!Next]_<<Status, View>>
  BY NextRefines
<1> QED BY <1>1, <1>2, <1>3, <1>4, PTL DEF Spec, ImplementsAtomicUpdate, Abstract!Spec

--------------------------------------------------------------------------------
(* What the user wrote is kept                                              *)

\* A destination that may go: there is none, or it is the program's own new file
\* as it was written.
Replaceable(e) == fs[e].dest \in {"none", "new"} \ dirty[e]

\* Between the checks on an entry and the call they allow, what the call takes
\* away is not the user's.
GapInv ==
  /\ \A e \in Entry : "none" \notin dirty[e]
  /\ pc \in {"recAct", "rbAct"} /\ op \in {"tombBack", "oldBack", "dropDest"}
       => Replaceable(cur)
  /\ pc = "pubSwap" => Intact(cur)

\* The user changes inodes, so "none" is never among them.
LEMMA GapInodes ==
  ASSUME IInv, GapInv, [Next]_vars
  PROVE  \A e \in Entry : "none" \notin dirty'[e]
<1>1. CASE User
  <2>1. dirty \in [Entry -> SUBSET Inode]
    BY DEF IInv, TypeOK, DiskTypeOK
  <2>2. PICK e \in Entry : UserEdit(e) \/ UserReplace(e) \/ UserDelete(e) \/ UserSweep(e)
    BY <1>1 DEF User
  <2> QED BY <2>1, <2>2 DEF UserEdit, UserReplace, UserDelete, UserSweep, GapInv
<1>2. CASE Plan
  BY <1>2 DEF Plan
<1>3. CASE ~User /\ ~Plan
  <2>1. dirty' = dirty
    BY <1>3 DEF Next, Step, Recover, Apply, Rollback, Start, RecoverPending, RecoverPendingSync,
      RecoverDispatch, RecoverEntry, RecoverAct, RecoverSync, CleanTemporary, CleanNext, CleanSync,
      DropJournal, DropJournalSync, PlanNothing, JournalStage, JournalSwap, JournalSync, StageFile,
      RegisterFile, CheckSource, StageSync, PublishCheck, TombstoneDrop, TombstoneLink,
      TombstoneLinked, PublishReady, PublishSwap, PublishVerify, PublishUnlink, PublishUnlinked,
      FinalCheck, DoneTombstone, DoneSync, DoneTombstones, DropOwned, DropOwnedSync, Handler,
      RollbackEntry, RollbackAct, RollbackSync, RollbackDone, FinallyNext, Fail, Crash, PowerLoss, disk, vars
  <2> QED BY <2>1 DEF GapInv
<1> QED BY <1>1, <1>2, <1>3

\* The checks of recovery and of a rollback choose such a call.
LEMMA ChosenReplaces ==
  ASSUME IInv, GapInv, NEW e \in Entry
  PROVE  /\ RecoverAccepts(e) /\ RecoverOp(e) \in {"tombBack", "oldBack", "dropDest"}
              => Replaceable(e)
         /\ RollbackOp(e) \in {"tombBack", "oldBack", "dropDest"} => Replaceable(e)
<1>1. "none" \notin dirty[e] /\ kind[e] \in Kind
  BY DEF GapInv, IInv, TypeOK, EnvTypeOK
<1>2. RestoreOp(e) = "tombBack" => fs[e].dest \in {"none"} \cup Installed(e)
  BY DEF RestoreOp
<1>3. RestoreOp(e) \notin {"oldBack", "dropDest"}
  BY DEF RestoreOp
<1>4. Installed(e) = IF kind[e] = "delete" THEN {} ELSE {"new"}
  BY DEF Installed
<1>5. kind[e] = "create" => Installed(e) = {"new"}
  BY <1>4
<1> HIDE DEF RestoreOp, Installed
<1>6. RecoverAccepts(e) /\ RecoverOp(e) \in {"tombBack", "oldBack", "dropDest"}
        => Replaceable(e)
  BY <1>1, <1>2, <1>3, <1>4, <1>5 DEF RecoverAccepts, RecoverOp, CanUseBackup, Replaceable,
    Existed, Kind
<1>7. RollbackOp(e) \in {"tombBack", "oldBack", "dropDest"} => Replaceable(e)
  BY <1>1, <1>2, <1>3, <1>4, <1>5 DEF RollbackOp, Replaceable, Existed, Kind
<1> QED BY <1>6, <1>7

\* Only the checks lead into a gap.
LEMMA GapEntered ==
  ASSUME IInv, Next, ~User, pc' \in {"recAct", "rbAct", "pubSwap"}
  PROVE  RecoverEntry \/ RollbackEntry \/ PublishCheck \/ PublishReady
<1>1. ~(Raise \/ Exit)
  BY RaiseAtStake DEF SwapLabel
<1>2. jr.phase \in Phase
  BY DEF IInv, TypeOK, DiskTypeOK, Journal
<1>3. SUFFICES ASSUME ~(RecoverEntry \/ RollbackEntry \/ PublishCheck \/ PublishReady)
               PROVE  pc' \notin {"recAct", "rbAct", "pubSwap"}
  OBVIOUS
<1>4. CASE Recover
  BY <1>1, <1>2, <1>3, <1>4 DEF Recover, Start, RecoverPending, RecoverPendingSync,
    RecoverDispatch, RecoverAct, RecoverSync, CleanTemporary, CleanNext, CleanSync,
    DropJournal, DropJournalSync, Goto, Phase
<1>5. CASE Apply
  BY <1>1, <1>3, <1>5 DEF Apply, Plan, PlanNothing, JournalStage, JournalSwap, JournalSync,
    StageFile, RegisterFile, CheckSource, StageSync, TombstoneDrop, TombstoneLink,
    TombstoneLinked, PublishSwap, PublishVerify, PublishUnlink, PublishUnlinked, PublishNext,
    FinalCheck, DoneTombstone, DoneSync, DoneTombstones, DropOwned, DropOwnedSync, Goto, mem
<1>6. CASE Rollback
  BY <1>1, <1>3, <1>6 DEF Rollback, Handler, RollbackAct, RollbackSync, RollbackDone, FinallyNext,
    RollbackError, Goto
<1>7. CASE Fail
  BY <1>1, <1>7 DEF Fail, Escape, RollbackError, Goto
<1>8. CASE Crash \/ PowerLoss
  BY <1>1, <1>8 DEF Crash, PowerLoss
<1> QED BY <1>4, <1>5, <1>6, <1>7, <1>8 DEF Next, Step

\* Where the user stays out of the gaps, the checks still hold at the call.
LEMMA GapNext ==
  ASSUME Racy = FALSE, IInv, GapInv, [Next]_vars
  PROVE  GapInv'
<1>1. \A e \in Entry : "none" \notin dirty'[e]
  BY GapInodes
<1>2. CASE UNCHANGED vars
  BY <1>2 DEF vars, disk, mem, env, GapInv, Replaceable, Intact, Existed
<1>3. CASE User
  <2>1. pc' = pc /\ pc \notin {"recAct", "rbAct", "pubSwap"}
    BY <1>3 DEF User, UserEdit, UserReplace, UserDelete, UserSweep, UserStep, InGap, mem
  <2> QED BY <1>1, <2>1 DEF GapInv
<1>4. CASE Next /\ ~User /\ pc' \in {"recAct", "rbAct", "pubSwap"}
  <2>1. /\ UNCHANGED <<fs, dirty, kind>>
        /\ RecoverEntry \/ RollbackEntry \/ PublishCheck \/ PublishReady
    BY <1>4, GapEntered DEF RecoverEntry, RollbackEntry, PublishCheck, PublishReady, disk, env
  <2>2. CASE RecoverEntry
    <3>1. cur \in Entry /\ RecoverAccepts(cur) /\ cur' = cur /\ pc' = "recAct"
          /\ op' = RecoverOp(cur)
      BY <1>4, <2>2 DEF RecoverEntry, Exit, Goto
    <3>2. op' \in {"tombBack", "oldBack", "dropDest"} => Replaceable(cur)
      BY <3>1, ChosenReplaces
    <3> QED BY <1>1, <2>1, <3>1, <3>2 DEF GapInv, Replaceable
  <2>3. CASE RollbackEntry
    <3>1. cur \in Entry /\ cur' = cur /\ pc' = "rbAct" /\ op' = RollbackOp(cur)
      BY <1>4, <2>3 DEF RollbackEntry, RollbackError, Goto
    <3>2. op' \in {"tombBack", "oldBack", "dropDest"} => Replaceable(cur)
      BY <3>1, ChosenReplaces
    <3> QED BY <1>1, <2>1, <3>1, <3>2 DEF GapInv, Replaceable
  <2>4. CASE PublishCheck \/ PublishReady
    <3>1. Intact(cur) /\ cur' = cur /\ pc' = "pubSwap"
      BY <1>4, <2>4 DEF PublishCheck, PublishReady, Raise, Exit, Goto
    <3> QED BY <1>1, <2>1, <3>1 DEF GapInv, Intact, Existed
  <2> QED BY <2>1, <2>2, <2>3, <2>4
<1>5. CASE pc' \notin {"recAct", "rbAct", "pubSwap"}
  BY <1>1, <1>5 DEF GapInv
<1> QED BY <1>2, <1>3, <1>4, <1>5

\* Every other step, an error in one included, leaves the destinations alone.
LEMMA OthersKeep ==
  ASSUME IInv, Step \/ Fail, ~Plan, ~RecoverAct, ~RollbackAct, ~PublishSwap
  PROVE  SameDestinations
<1>1. DiskTypeOK /\ {"none", "new", "old", "ph"} \subseteq Inode
  BY DEF IInv, TypeOK, Inode
<1>2. CASE CleanTemporary
  <2>1. cur \in Entry /\ First(Present(cur)) \in Temp
    BY <1>2, FirstType DEF CleanTemporary
  <2> QED BY <1>1, <1>2, <2>1, TempUpdate DEF CleanTemporary, SameDestinations
<1>3. CASE DropOwned
  <2>1. cur \in Entry /\ First(owned[cur] \cap Present(cur)) \in Temp
    BY <1>3, FirstType DEF DropOwned
  <2> QED BY <1>1, <1>3, <2>1, TempUpdate DEF DropOwned, SameDestinations
<1>4. CASE StageFile
  <2> DEFINE t == First(Needs(cur) \ owned[cur])
  <2>1. cur \in Entry /\ t \in Temp
    BY <1>4, FirstType DEF StageFile, IInv, IndexInv, EntryLabel
  <2>2. Staged(t) \in Inode
    BY <1>1, <2>1 DEF Staged, Temp
  <2>3. SetNames(cur, [fs[cur] EXCEPT ![t] = Staged(t)]) \/ UNCHANGED fs
    BY <1>4 DEF StageFile
  <2> HIDE DEF t
  <2> QED BY <1>1, <2>1, <2>2, <2>3, TempUpdate DEF SameDestinations
<1>5. CASE TombstoneDrop \/ TombstoneLink \/ PublishUnlink \/ DoneTombstone
  <2>1. cur \in Entry /\ fs[cur] \in Names
    BY <1>1, <1>5 DEF TombstoneDrop, TombstoneLink, PublishUnlink, DoneTombstone, IInv, IndexInv,
      EntryLabel, DiskTypeOK
  <2>2. /\ [fs[cur] EXCEPT !.tomb = "none"].dest = fs[cur].dest
        /\ [fs[cur] EXCEPT !.tomb = fs[cur].dest].dest = fs[cur].dest
        /\ [fs[cur] EXCEPT !.new = "none"].dest = fs[cur].dest
    BY <2>1 DEF Names
  <2> QED BY <1>1, <1>5, <2>1, <2>2 DEF TombstoneDrop, TombstoneLink, PublishUnlink,
      DoneTombstone, SetNames, SameDestinations, DiskTypeOK
<1>6. CASE /\ ~CleanTemporary /\ ~DropOwned /\ ~StageFile
           /\ ~(TombstoneDrop \/ TombstoneLink \/ PublishUnlink \/ DoneTombstone)
  BY <1>6 DEF Step, Recover, Apply, Rollback, Start, RecoverPending, RecoverPendingSync,
    RecoverDispatch, RecoverEntry, RecoverSync, CleanNext, CleanSync, DropJournal,
    DropJournalSync, PlanNothing, JournalStage, JournalSwap, JournalSync, RegisterFile,
    CheckSource, StageSync, PublishCheck, TombstoneLinked, PublishReady, PublishVerify,
    PublishUnlinked, FinalCheck, DoneSync, DoneTombstones, DropOwnedSync, Handler,
    RollbackEntry, RollbackSync, RollbackDone, FinallyNext, Fail, disk, SameDestinations
<1> QED BY <1>2, <1>3, <1>4, <1>5, <1>6

\* What a step may do to the file under a destination.
Spares(e) ==
  /\ fs[e].dest = "user" => fs'[e].dest = "user"
  /\ fs[e].dest \in dirty[e] =>
       \E n \in {"dest"} \cup Temp : fs'[e][n] = fs[e].dest

\* The calls that change a destination spare the user's.
LEMMA CallsSpare ==
  ASSUME IInv, GapInv, RecoverAct \/ RollbackAct \/ PublishSwap
  PROVE  \A e \in Entry : Spares(e)
<1>1. cur \in Entry /\ fs \in [Entry -> Names] /\ kind[cur] \in Kind
  BY DEF RecoverAct, RollbackAct, PublishSwap, IInv, IndexInv, EntryLabel, TypeOK, DiskTypeOK,
    EnvTypeOK
<1>2. \A e \in Entry \ {cur} : fs'[e] = fs[e]
  BY <1>1 DEF RecoverAct, RollbackAct, PublishSwap, SetNames
<1>3. CASE RecoverAct \/ RollbackAct
  <2>1. fs'[cur] = fs[cur] \/ fs'[cur] = Performed(cur)
    BY <1>1, <1>3 DEF RecoverAct, RollbackAct, SetNames
  <2>2. op \in {"tombBack", "oldBack", "dropDest"} => Replaceable(cur)
    BY <1>3 DEF RecoverAct, RollbackAct, GapInv
  <2>3. op \notin {"tombBack", "oldBack", "dropDest"} => fs'[cur].dest = fs[cur].dest
    BY <1>1, <2>1 DEF Performed, Names
  <2>4. Spares(cur)
    BY <2>2, <2>3 DEF Spares, Replaceable
  <2> QED BY <1>2, <2>4 DEF Spares
<1>4. CASE PublishSwap
  <2>1. Intact(cur) /\ "none" \notin dirty[cur]
    BY <1>1, <1>4 DEF PublishSwap, GapInv
  <2>2. Spares(cur)
    BY <2>1 DEF Spares, Intact
  <2> QED BY <1>2, <2>2 DEF Spares
<1> QED BY <1>3, <1>4

\* Nothing is in hand and nothing was edited at the start.
LEMMA InitGap == Init => GapInv
<1> SUFFICES ASSUME Init PROVE GapInv
  OBVIOUS
<1>1. pc = "idle" /\ \A e \in Entry : dirty[e] = {}
  BY DEF Init
<1> QED BY <1>1 DEF GapInv

\* The checks hold at every call.
LEMMA GapHolds ==
  ASSUME Racy = FALSE
  PROVE  Spec => [](IInv /\ GapInv)
<1>1. Init => IInv /\ GapInv
  BY InitInv, InitGap
<1>2. ASSUME IInv, GapInv, [Next]_vars
      PROVE  IInv' /\ GapInv'
  <2>1. GapInv'
    BY <1>2, GapNext, Zenon
  <2> QED BY <1>2, <2>1, NextInv
<1>3. IInv /\ GapInv /\ [Next]_vars => (IInv /\ GapInv)'
  BY <1>2
<1> QED BY <1>1, <1>3, PTL DEF Spec

\* Where the user does not act between a check and the call it guards, no step of
\* the program and no error in one takes away what the user wrote: neither
\* publication, nor rollback, nor a recovery after any crashes or losses of power.
THEOREM UserFilesKept ==
  ASSUME Racy = FALSE
  PROVE  Spec => UserDataKept
<1>1. IInv /\ GapInv => ((Step \/ Fail) /\ pc # "plan" => \A e \in Entry : Spares(e))
  <2> SUFFICES ASSUME IInv, GapInv, Step \/ Fail, pc # "plan"
               PROVE  \A e \in Entry : Spares(e)
    OBVIOUS
  <2>1. ~Plan
    BY DEF Plan
  <2>2. SameDestinations => \A e \in Entry : Spares(e)
    BY DEF SameDestinations, Spares
  <2> QED BY <2>1, <2>2, OthersKeep, CallsSpare
<1>2. IInv /\ GapInv /\ [Next]_vars
        => [(Step \/ Fail) /\ pc # "plan" =>
              \A e \in Entry :
                /\ fs[e].dest = "user" => fs'[e].dest = "user"
                /\ fs[e].dest \in dirty[e] =>
                     \E n \in {"dest"} \cup Temp : fs'[e][n] = fs[e].dest]_vars
  BY <1>1 DEF Spares
<1> QED BY <1>2, GapHolds, PTL DEF Spec, UserDataKept

================================================================================
