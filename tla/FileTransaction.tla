---------------------------- MODULE FileTransaction ----------------------------
(***************************************************************************)
(* The journaled multi-file transaction of configure_orchestration.py:     *)
(* recover_incomplete_transaction, apply_changes_transactionally and the   *)
(* helpers they call.  One configurator runs at a time (it holds the lock  *)
(* on the transaction root); it may be killed, or lose power, at any step, *)
(* any of its system calls may raise, and the user may edit, replace,      *)
(* create or delete the managed files meanwhile.                           *)
(*                                                                         *)
(* An entry is one file of the change set.  Every entry lives in its own   *)
(* directory, with four names: the destination and three temporaries.      *)
(* A name is bound to an inode, or to "none".                              *)
(***************************************************************************)
EXTENDS Naturals, FiniteSets

CONSTANTS
  N,            \* number of files in a change set
  MaxMoves,     \* bound: steps of the user
  MaxFaults,    \* bound: crashes, power losses and raising system calls
  PowerFails,   \* whether a crash may also lose unsynced directory updates
  LateFaults,   \* whether the checks on a freshly staged file may raise
  Escapes,      \* whether an error may leave the except clause unhandled
  Racy          \* whether the user may step between a check and its system call

ASSUME ConstantsAssumption ==
  /\ N \in Nat \ {0} /\ MaxMoves \in Nat /\ MaxFaults \in Nat
  /\ PowerFails \in BOOLEAN /\ LateFaults \in BOOLEAN
  /\ Escapes \in BOOLEAN /\ Racy \in BOOLEAN

Entry == 1..N
Kind  == {"update", "create", "delete"}

\* Inodes of an entry: the file found by the plan, its replacement, the backup
\* copy, the tombstone placeholder, and a file the user put there.
Inode == {"none", "orig", "new", "old", "ph", "user"}
Temp  == {"new", "old", "tomb"}
Names == [dest : Inode, new : Inode, old : Inode, tomb : Inode]

Phase   == {"none", "preparing", "prepared", "committed"}
Journal == [phase : Phase, pending : BOOLEAN]

VARIABLES
  \* What is on disk.
  fs,       \* fs[e]: the inode each name of entry e is bound to
  surv,     \* surv[e]: the directory states of e a power loss may leave
  jr,       \* the journal and its pending file
  jsurv,    \* the journal states a power loss may leave
  dirty,    \* dirty[e]: the inodes whose bytes or metadata the user changed
  \* Memory of the running configurator.
  pc, mode, \* next step; "recover" or "apply"
  cur,      \* index of the entry in a loop
  op,       \* the restoring system call chosen by the checks on entry cur
  want,     \* phase being written to the journal
  active,   \* journal_active
  owned,    \* owned[e]: staged_paths, the temporaries it knows to remove; "orig"
            \* stands for the tombstone being recorded under the original's identity
  tried,    \* the entries attempted are 1..tried
  failed,   \* rollback_errors, or cleanup_errors
  resync,   \* recovery_directories
  \* The change set, and what the environment did.
  kind, touched, moves, faults

disk == <<fs, surv, jr, jsurv, dirty>>
mem  == <<pc, mode, cur, op, want, active, owned, tried, failed, resync>>
env  == <<kind, touched, moves, faults>>
vars == <<disk, mem, env>>

Existed(e) == kind[e] # "create"
Needs(e) == CASE kind[e] = "update" -> Temp
              [] kind[e] = "create" -> {"new"}
              [] kind[e] = "delete" -> {"old", "tomb"}

BugInstalled(e) == {}  \* forgets the identity that was installed
\* installed_identity: only entries with new content have one.
Installed(e) == IF kind[e] = "delete" THEN {} ELSE {"new"}

\* The inode staged under each temporary name, and the inodes its removal accepts.
Staged(t)  == IF t = "tomb" THEN "ph" ELSE t
Allowed(t) == IF t = "tomb" THEN {"ph", "orig"} ELSE {t}

\* The inode staged_paths records for a temporary of the running transaction.
Recorded(e, t) == IF t = "tomb" THEN IF "orig" \in owned[e] THEN "orig" ELSE "ph"
                                ELSE t

Present(e) == {t \in Temp : fs[e][t] # "none"}
Sole(e, n) == \A m \in {"dest"} \cup Temp : m # n => fs[e][m] # fs[e][n]

\* Temporaries are handled in the order new, old, tombstone.
First(S) == IF "new" \in S THEN "new" ELSE IF "old" \in S THEN "old" ELSE "tomb"

NoFile  == [dest |-> "none", new |-> "none", old |-> "none", tomb |-> "none"]
NoEntry == [phase |-> "none", pending |-> FALSE]

Init ==
  /\ kind \in [Entry -> Kind]
  /\ fs = [e \in Entry |-> [NoFile EXCEPT !.dest =
                              IF kind[e] = "create" THEN "none" ELSE "orig"]]
  /\ surv = [e \in Entry |-> {fs[e]}]
  /\ jr = NoEntry /\ jsurv = {NoEntry}
  /\ dirty = [e \in Entry |-> {}]
  /\ pc = "idle" /\ mode = "recover" /\ cur = 0 /\ op = "keep" /\ want = "none"
  /\ active = FALSE /\ owned = [e \in Entry |-> {}] /\ tried = 0
  /\ failed = FALSE /\ resync = {}
  /\ touched = {} /\ moves = 0 /\ faults = 0

--------------------------------------------------------------------------------
(* Building blocks.  A directory update is visible at once and survives a  *)
(* power loss for certain only after the directory was synced.             *)

SetNames(e, f) ==
  /\ fs' = [fs EXCEPT ![e] = f]
  /\ surv' = [surv EXCEPT ![e] = @ \cup {f}]

SetJournal(j) == jr' = j /\ jsurv' = jsurv \cup {j}

BugSync(E) == surv' = surv  \* directories are never synced

Sync(E) == surv' = [e \in Entry |-> IF e \in E THEN {fs[e]} ELSE surv[e]]

SyncRoot == jsurv' = {jr}

Goto(label, index) == pc' = label /\ cur' = index

KeepMemory == UNCHANGED <<mode, op, want, active, owned, tried, failed, resync>>

\* The configurator returns or dies: its memory is gone.  Where it returns from a
\* transaction by this, preserve_staged is set or staged_paths is empty, and the
\* finally clause removes nothing; the other way out is Escape.
Exit ==
  /\ pc' = "idle" /\ mode' = "recover" /\ cur' = 0 /\ op' = "keep"
  /\ want' = "none" /\ active' = FALSE /\ owned' = [e \in Entry |-> {}]
  /\ tried' = 0 /\ failed' = FALSE /\ resync' = {}

\* A check fails or a call raises: the except clause of the transaction, or,
\* outside it, the caller, which reports the error and exits.
Raise ==
  IF mode = "apply" /\ active
  THEN /\ pc' = "handler"
       /\ KeepMemory /\ UNCHANGED cur
  ELSE Exit

\* An error the except clause does not catch: the journal cannot be read for
\* another reason than its contents, or the user interrupts the clause.  The
\* finally clause is what is left to run.
Escape == Escapes /\ Goto("finally", 1) /\ KeepMemory

\* Restores over whatever occupies the destination.
BugRestoreOp(e) ==
  IF fs[e].tomb = "orig" /\ fs[e].dest = "orig" THEN "dropTomb"
  ELSE IF fs[e].tomb = "orig" THEN "tombBack"
  ELSE IF fs[e].dest = "orig" THEN "keep" ELSE "refuse"

\* _restore_original_from_tombstone: the system call its checks select.
RestoreOp(e) ==
  IF fs[e].tomb = "orig" /\ fs[e].dest = "orig" THEN "dropTomb"
  ELSE IF fs[e].tomb = "orig" /\ fs[e].dest \in {"none"} \cup Installed(e)
       THEN "tombBack"
  ELSE IF fs[e].tomb # "orig" /\ fs[e].dest = "orig" THEN "keep"
  ELSE "refuse"

\* The system call itself, on whatever the names are bound to by now.  Only
\* dropTomb looks again at what it removes; a rename finds its source or raises.
CanPerform(e) ==
  CASE op = "dropTomb" -> fs[e].tomb = "orig"
    [] op = "tombBack" -> fs[e].tomb # "none"
    [] op = "oldBack"  -> fs[e].old # "none"
    [] op = "dropDest" -> fs[e].dest # "none"
    [] OTHER -> TRUE

Performed(e) ==
  CASE op = "dropTomb" -> [fs[e] EXCEPT !.tomb = "none"]
    [] op = "tombBack" -> [fs[e] EXCEPT !.dest = fs[e].tomb, !.tomb = "none"]
    [] op = "oldBack"  -> [fs[e] EXCEPT !.dest = fs[e].old, !.old = "none"]
    [] op = "dropDest" -> [fs[e] EXCEPT !.dest = "none"]
    [] OTHER -> fs[e]

--------------------------------------------------------------------------------
(* recover_incomplete_transaction                                          *)

\* Any run of the configurator recovers first.
Start ==
  /\ pc = "idle" /\ Goto("recStart", 0)
  /\ KeepMemory /\ UNCHANGED <<disk, env>>

\* A pending journal is discarded, with or without a journal beside it.
RecoverPending ==
  /\ pc = "recStart" /\ jr.pending
  /\ SetJournal([jr EXCEPT !.pending = FALSE])
  /\ Goto("recSync", 0)
  /\ KeepMemory /\ UNCHANGED <<fs, surv, dirty, env>>

RecoverPendingSync ==
  /\ pc = "recSync" /\ SyncRoot /\ Goto("recStart", 0)
  /\ KeepMemory /\ UNCHANGED <<fs, surv, jr, dirty, env>>

BugIntact(e) == fs[e].dest = "orig"  \* forgets the files that are created

\* Before publication nothing was changed, so every destination must be intact.
Intact(e) ==
  IF Existed(e) THEN fs[e].dest = "orig" /\ "orig" \notin dirty[e]
                ELSE fs[e].dest = "none"

\* Cleans up after a prepared transaction without restoring anything.
BugRecoverNothing ==
  /\ pc = "recStart" /\ ~jr.pending
  /\ Goto(IF jr.phase = "none" THEN "plan" ELSE "clean", IF jr.phase = "none" THEN 0 ELSE 1)
  /\ KeepMemory /\ UNCHANGED <<disk, env>>

\* Removes the journal of an unfinished staging without its files.
BugRecoverNoCleanup ==
  /\ pc = "recStart" /\ ~jr.pending
  /\ CASE jr.phase = "none" -> Goto("plan", 0)
       [] jr.phase = "preparing" -> Goto("dropJournal", 0)
       [] jr.phase = "prepared" -> Goto("recEntry", N)
       [] jr.phase = "committed" -> Goto("clean", 1)
  /\ KeepMemory /\ UNCHANGED <<disk, env>>

RecoverDispatch ==
  /\ pc = "recStart" /\ ~jr.pending
  /\ CASE jr.phase = "none" -> Goto("plan", 0)
       [] jr.phase = "preparing" /\ (\A e \in Entry : Intact(e)) -> Goto("clean", 1)
       [] jr.phase = "preparing" /\ ~(\A e \in Entry : Intact(e)) -> Goto("idle", 0)
       [] jr.phase = "prepared" -> Goto("recEntry", N)
       [] jr.phase = "committed" -> Goto("clean", 1)
  /\ KeepMemory /\ UNCHANGED <<disk, env>>

\* The staged backup replaces the destination only when the tombstone is gone
\* and the destination is exactly as the transaction left it.
CanUseBackup(e) ==
  /\ fs[e].tomb = "none"
  /\ fs[e].dest \in IF kind[e] = "delete" THEN {"none"} ELSE Installed(e)
  /\ fs[e].old = "old" /\ "old" \notin dirty[e]

\* A previous recovery already put the staged backup in place.
BackupInPlace(e) == Existed(e) /\ fs[e].dest = "old"

RecoverOp(e) ==
  IF Existed(e)
  THEN IF RestoreOp(e) # "refuse" THEN RestoreOp(e)
       ELSE IF CanUseBackup(e) THEN "oldBack" ELSE "refuse"
  ELSE IF fs[e].dest = "new" THEN "dropDest"
       ELSE IF fs[e].dest = "none" THEN "keep" ELSE "refuse"

\* The checks on an entry before recovery changes anything of it.
RecoverAccepts(e) ==
  /\ ~(fs[e].dest \in Installed(e) /\ "new" \in dirty[e])
  /\ ~(Existed(e) /\ fs[e].dest = "orig" /\ "orig" \in dirty[e])
  /\ ~(kind[e] = "update" /\ fs[e].dest = "none")
  /\ BackupInPlace(e) => "old" \notin dirty[e] /\ fs[e].tomb = "none"
  /\ BackupInPlace(e) \/ RecoverOp(e) # "refuse"

RecoverEntry ==
  /\ pc = "recEntry" /\ cur \in Entry
  /\ IF ~RecoverAccepts(cur)
     THEN Exit
     ELSE /\ UNCHANGED <<mode, want, active, owned, tried, failed>>
          /\ IF BackupInPlace(cur)
             THEN /\ Goto("recEntry", cur - 1) /\ op' = "keep"
                  /\ resync' = resync \cup {cur}
             ELSE /\ op' = RecoverOp(cur) /\ UNCHANGED resync
                  /\ Goto("recAct", cur)
  /\ UNCHANGED <<disk, env>>

\* What the destination must be once the entry is restored.
Restored(e, f) ==
  IF Existed(e) THEN /\ f.dest = (IF op = "oldBack" THEN "old" ELSE "orig")
                     /\ f.dest \notin dirty[e]
                ELSE TRUE

\* The parent directory is remembered for a sync, except when the destination
\* of a created file was already absent.
RecoverAct ==
  /\ pc = "recAct"
  /\ IF CanPerform(cur)
     THEN /\ SetNames(cur, Performed(cur))
          /\ IF Restored(cur, Performed(cur))
             THEN /\ Goto("recEntry", cur - 1) /\ op' = "keep"
                  /\ resync' = (IF ~Existed(cur) /\ op = "keep"
                                THEN resync ELSE resync \cup {cur})
                  /\ UNCHANGED <<mode, want, active, owned, tried, failed>>
             ELSE Exit
     ELSE Exit /\ UNCHANGED <<fs, surv>>
  /\ UNCHANGED <<jr, jsurv, dirty, env>>

RecoverSync ==
  /\ pc = "recEntry" /\ cur = 0
  /\ Sync(resync) /\ resync' = {} /\ Goto("clean", 1)
  /\ UNCHANGED <<fs, jr, jsurv, dirty, env, mode, op, want, active, owned, tried, failed>>

\* _cleanup_journal_temporaries: identities are compared with the journal's,
\* unless the journal was written before anything was staged.
CleanTemporary ==
  /\ pc = "clean" /\ cur \in Entry /\ Present(cur) # {}
  /\ LET t == First(Present(cur)) IN
       IF jr.phase = "preparing" \/ fs[cur][t] \in Allowed(t)
       THEN /\ SetNames(cur, [fs[cur] EXCEPT ![t] = "none"])
            /\ resync' = resync \cup {cur}
            /\ UNCHANGED <<pc, mode, cur, op, want, active, owned, tried, failed>>
       ELSE Exit /\ UNCHANGED <<fs, surv>>
  /\ UNCHANGED <<jr, jsurv, dirty, env>>

CleanNext ==
  /\ pc = "clean" /\ cur \in Entry /\ Present(cur) = {}
  /\ Goto("clean", cur + 1)
  /\ KeepMemory /\ UNCHANGED <<disk, env>>

CleanSync ==
  /\ pc = "clean" /\ cur = N + 1
  /\ Sync(resync) /\ resync' = {} /\ Goto("dropJournal", 0)
  /\ UNCHANGED <<fs, jr, jsurv, dirty, env, mode, op, want, active, owned, tried, failed>>

\* _remove_transaction_journal, the last step of recovery, commit and rollback.
DropJournal ==
  /\ pc = "dropJournal"
  /\ SetJournal(NoEntry) /\ Goto("dropSync", 0)
  /\ KeepMemory /\ UNCHANGED <<fs, surv, dirty, env>>

DropJournalSync ==
  /\ pc = "dropSync" /\ SyncRoot
  /\ IF mode = "recover"
     THEN /\ Goto("plan", 0)
          /\ KeepMemory
     ELSE Exit
  /\ UNCHANGED <<fs, surv, jr, dirty, env>>

--------------------------------------------------------------------------------
(* _apply_changes_transactionally_locked, once recovery left no journal     *)

\* The change set is computed from the files as they are: an existing file is
\* updated or deleted, a missing one created.  What a file holds now is its
\* original from here on; temporaries of older transactions have other names.
\* Directory updates of older transactions are taken to be durable by now.
Plan ==
  /\ pc = "plan"
  /\ kind' \in [Entry -> Kind]
  /\ \A e \in Entry : kind'[e] = "create" <=> fs[e].dest = "none"
  /\ fs' = [e \in Entry |-> [NoFile EXCEPT !.dest =
                               IF kind'[e] = "create" THEN "none" ELSE "orig"]]
  /\ surv' = [e \in Entry |-> {fs'[e]}]
  /\ jsurv' = {jr} /\ dirty' = [e \in Entry |-> {}] /\ touched' = {}
  /\ mode' = "apply" /\ want' = "preparing" /\ Goto("jStage", 0)
  /\ UNCHANGED <<jr, op, active, owned, tried, failed, resync, moves, faults>>

\* Nothing to change, or a file changed between planning and applying.
PlanNothing ==
  /\ pc = "plan" /\ Exit /\ UNCHANGED <<disk, env>>

\* _write_transaction_journal: stage the pending file, rename it, sync the root.
JournalStage ==
  /\ pc = "jStage" /\ SetJournal([jr EXCEPT !.pending = TRUE]) /\ Goto("jSwap", 0)
  /\ KeepMemory /\ UNCHANGED <<fs, surv, dirty, env>>

JournalSwap ==
  /\ pc = "jSwap"
  /\ SetJournal([phase |-> want, pending |-> FALSE]) /\ Goto("jSync", 0)
  /\ KeepMemory /\ UNCHANGED <<fs, surv, dirty, env>>

JournalSync ==
  /\ pc = "jSync" /\ SyncRoot /\ active' = TRUE
  /\ Goto(CASE want = "preparing" -> "stage"
            [] want = "prepared" -> "pubCheck"
            [] OTHER -> "doneTomb", 1)
  /\ UNCHANGED <<fs, surv, jr, dirty, env, mode, op, want, owned, tried, failed, resync>>

\* stage_text, or stage_existing_file, which also reads the live destination.
StageFile ==
  /\ pc = "stage"
  /\ LET t == First(Needs(cur) \ owned[cur]) IN
       IF t # "tomb" /\ Existed(cur) /\ fs[cur].dest = "none"
       THEN Raise /\ UNCHANGED <<fs, surv>>
       ELSE /\ SetNames(cur, [fs[cur] EXCEPT ![t] = Staged(t)])
            /\ Goto("register", cur)
            /\ KeepMemory
  /\ UNCHANGED <<jr, jsurv, dirty, env>>

\* Checks on the staged file, then staged_paths learns of it.
RegisterFile ==
  /\ pc = "register"
  /\ owned' = [owned EXCEPT ![cur] = @ \cup {First(Needs(cur) \ @)}]
  /\ Goto(IF owned'[cur] = Needs(cur) THEN "source" ELSE "stage", cur)
  /\ UNCHANGED <<disk, env, mode, op, want, active, tried, failed, resync>>

CheckSource ==
  /\ pc = "source"
  /\ IF Existed(cur) /\ ~Intact(cur)
     THEN Raise
     ELSE /\ IF cur < N THEN Goto("stage", cur + 1) ELSE Goto("stageSync", 0)
          /\ KeepMemory
  /\ UNCHANGED <<disk, env>>

StageSync ==
  /\ pc = "stageSync" /\ Sync(Entry)
  /\ want' = "prepared" /\ Goto("jStage", 0)
  /\ UNCHANGED <<fs, jr, jsurv, dirty, env, mode, op, active, owned, tried, failed, resync>>

\* The publication loop, entry by entry.
BugPublishCheck ==  \* counts one entry too many as attempted
  /\ pc = "pubCheck" /\ tried' = cur + 1 /\ Intact(cur) /\ Goto("pubDrop", cur)
  /\ UNCHANGED <<disk, env, mode, op, want, active, owned, failed, resync>>

PublishCheck ==
  /\ pc = "pubCheck" /\ tried' = cur
  /\ IF Intact(cur) /\ (Existed(cur) => Sole(cur, "dest"))
     THEN /\ Goto(CASE kind[cur] = "update" -> "pubDrop"
                    [] kind[cur] = "delete" -> "pubReady"
                    [] OTHER -> "pubSwap", cur)
          /\ UNCHANGED <<mode, op, want, active, owned, failed, resync>>
     ELSE /\ pc' = "handler"
          /\ UNCHANGED <<mode, cur, op, want, active, owned, failed, resync>>
  /\ UNCHANGED <<disk, env>>

\* _link_original_tombstone
TombstoneDrop ==
  /\ pc = "pubDrop"
  /\ IF fs[cur].tomb = "ph"
     THEN /\ SetNames(cur, [fs[cur] EXCEPT !.tomb = "none"]) /\ Goto("pubLink", cur)
          /\ KeepMemory
     ELSE Raise /\ UNCHANGED <<fs, surv>>
  /\ UNCHANGED <<jr, jsurv, dirty, env>>

TombstoneLink ==
  /\ pc = "pubLink"
  /\ IF fs[cur].dest # "none"
     THEN /\ SetNames(cur, [fs[cur] EXCEPT !.tomb = fs[cur].dest])
          /\ Goto("pubLinked", cur)
          /\ KeepMemory
     ELSE Raise /\ UNCHANGED <<fs, surv>>
  /\ UNCHANGED <<jr, jsurv, dirty, env>>

TombstoneLinked ==
  /\ pc = "pubLinked"
  /\ IF fs[cur].dest = "orig" /\ fs[cur].tomb = "orig"
     THEN /\ Sync({cur}) /\ Goto("pubReady", cur)
          /\ owned' = [owned EXCEPT ![cur] = @ \cup {"orig"}]
          /\ UNCHANGED <<mode, op, want, active, tried, failed, resync>>
     ELSE Raise /\ UNCHANGED surv
  /\ UNCHANGED <<fs, jr, jsurv, dirty, env>>

\* The last checks before the destination is replaced or moved away.
PublishReady ==
  /\ pc = "pubReady"
  /\ IF /\ Intact(cur)
        /\ kind[cur] = "update" => fs[cur].new = "new"
        /\ kind[cur] = "delete" => fs[cur].tomb = "ph"
     THEN /\ Goto("pubSwap", cur)
          /\ KeepMemory
     ELSE Raise
  /\ UNCHANGED <<disk, env>>

\* os.replace of the destination, its rename to the tombstone, or the link that
\* creates it, which raises when the name is taken.
PublishSwap ==
  /\ pc = "pubSwap"
  /\ LET f == fs[cur]
         g == CASE kind[cur] = "update" -> [f EXCEPT !.dest = f.new, !.new = "none"]
                [] kind[cur] = "delete" -> [f EXCEPT !.tomb = f.dest, !.dest = "none"]
                [] OTHER -> [f EXCEPT !.dest = "new"]
     IN IF (kind[cur] = "delete" => f.dest # "none")
           /\ (kind[cur] = "create" => f.dest = "none")
        THEN /\ SetNames(cur, g) /\ Goto("pubVerify", cur)
             /\ KeepMemory
        ELSE Raise /\ UNCHANGED <<fs, surv>>
  /\ UNCHANGED <<jr, jsurv, dirty, env>>

\* The original must be in the tombstone, unchanged; then on to the next entry.
PublishNext == IF cur < N THEN Goto("pubCheck", cur + 1) ELSE Goto("final", 0)

PublishVerify ==
  /\ pc = "pubVerify" /\ Sync({cur})
  /\ IF /\ kind[cur] # "delete" => fs[cur].dest = "new"
        /\ Existed(cur) => fs[cur].tomb = "orig" /\ "orig" \notin dirty[cur]
     THEN /\ IF kind[cur] = "create" THEN Goto("pubUnlink", cur) ELSE PublishNext
          /\ owned' = [owned EXCEPT ![cur] = CASE kind[cur] = "update" -> @ \ {"new"}
                                                [] kind[cur] = "delete" -> @ \cup {"orig"}
                                                [] OTHER -> @]
          /\ UNCHANGED <<mode, op, want, active, tried, failed, resync>>
     ELSE Raise
  /\ UNCHANGED <<fs, jr, jsurv, dirty, env>>

PublishUnlink ==
  /\ pc = "pubUnlink"
  /\ SetNames(cur, [fs[cur] EXCEPT !.new = "none"]) /\ Goto("pubUnlinked", cur)
  /\ KeepMemory /\ UNCHANGED <<jr, jsurv, dirty, env>>

PublishUnlinked ==
  /\ pc = "pubUnlinked" /\ Sync({cur}) /\ PublishNext
  /\ owned' = [owned EXCEPT ![cur] = @ \ {"new"}]
  /\ UNCHANGED <<fs, jr, jsurv, dirty, env, mode, op, want, active, tried, failed, resync>>

\* Identity, metadata and read-back of every destination, before the commit.
Published(e) ==
  IF kind[e] = "delete" THEN fs[e].dest = "none"
  ELSE fs[e].dest = "new" /\ "new" \notin dirty[e] /\ Sole(e, "dest")

FinalCheck ==
  /\ pc = "final"
  /\ IF \A e \in Entry : Published(e)
     THEN /\ Sync(Entry) /\ want' = "committed" /\ Goto("jStage", 0)
          /\ UNCHANGED <<mode, op, active, owned, tried, failed, resync>>
     ELSE Raise /\ UNCHANGED surv
  /\ UNCHANGED <<fs, jr, jsurv, dirty, env>>

\* After the commit: the tombstones go, each synced.  A tombstone that is not
\* the original is an error that is collected; the journal is then kept.
DoneTombstone ==
  /\ pc = "doneTomb" /\ cur \in Entry
  /\ IF Existed(cur) /\ fs[cur].tomb = "orig"
     THEN /\ SetNames(cur, [fs[cur] EXCEPT !.tomb = "none"])
          /\ Goto("doneSync", cur) /\ UNCHANGED failed
     ELSE /\ Goto("doneTomb", cur + 1) /\ UNCHANGED <<fs, surv>>
          /\ failed' = (failed \/ Existed(cur))
  /\ UNCHANGED <<jr, jsurv, dirty, env, mode, op, want, active, owned, tried, resync>>

DoneSync ==
  /\ pc = "doneSync" /\ Sync({cur}) /\ Goto("doneTomb", cur + 1)
  /\ owned' = [owned EXCEPT ![cur] = @ \ {"tomb", "orig"}]
  /\ UNCHANGED <<fs, jr, jsurv, dirty, env, mode, op, want, active, tried, failed, resync>>

DoneTombstones ==
  /\ pc = "doneTomb" /\ cur = N + 1
  /\ IF failed THEN Exit
     ELSE /\ Goto("dropOwned", 1)
          /\ KeepMemory
  /\ UNCHANGED <<disk, env>>

\* The temporaries in staged_paths go, after the commit, after a rollback, and in
\* the finally clause; each must still be the inode that was recorded.
DropOwned ==
  /\ pc \in {"dropOwned", "finally"} /\ cur \in Entry /\ owned[cur] \cap Present(cur) # {}
  /\ LET t == First(owned[cur] \cap Present(cur)) IN
       IF fs[cur][t] = Recorded(cur, t)
       THEN /\ SetNames(cur, [fs[cur] EXCEPT ![t] = "none"])
            /\ UNCHANGED mem
       ELSE Exit /\ UNCHANGED <<fs, surv>>
  /\ UNCHANGED <<jr, jsurv, dirty, env>>

DropOwnedSync ==
  /\ pc = "dropOwned" /\ cur \in Entry /\ owned[cur] \cap Present(cur) = {}
  /\ IF owned[cur] = {} THEN UNCHANGED surv ELSE Sync({cur})
  /\ owned' = [owned EXCEPT ![cur] = {}]
  /\ IF cur < N THEN Goto("dropOwned", cur + 1) ELSE Goto("dropJournal", 0)
  /\ UNCHANGED <<fs, jr, jsurv, dirty, env, mode, op, want, active, tried, failed, resync>>

--------------------------------------------------------------------------------
(* The except clause: the phase on disk decides what may be undone          *)

\* Trusts that a transaction that raised was not committed.
BugHandlerUndoesCommit ==
  /\ pc = "handler" /\ Goto("rbEntry", tried)
  /\ KeepMemory /\ UNCHANGED <<disk, env>>

\* Cleans up without rolling back what was published.
BugHandlerNoRollback ==
  /\ pc = "handler" /\ Goto("dropOwned", 1)
  /\ KeepMemory /\ UNCHANGED <<disk, env>>

Handler ==
  /\ pc = "handler"
  /\ CASE jr.phase = "prepared" -> Goto("rbEntry", tried)
       [] jr.phase = "preparing" -> Goto("dropOwned", 1)
       [] OTHER -> Goto("idle", 0)
  /\ IF jr.phase \in {"prepared", "preparing"}
     THEN KeepMemory
     ELSE Exit
  /\ UNCHANGED <<disk, env>>

RollbackOp(e) ==
  IF fs[e].dest \in Installed(e) /\ "new" \in dirty[e] THEN "refuse"
  ELSE IF Existed(e) THEN RestoreOp(e)
  ELSE IF fs[e].dest = "new" THEN "dropDest"
  ELSE IF fs[e].dest = "none" THEN "keep" ELSE "refuse"

\* An entry that cannot be rolled back is recorded; the others still are.
RollbackError ==
  /\ failed' = TRUE /\ op' = "keep" /\ Goto("rbEntry", cur - 1)

RollbackEntry ==
  /\ pc = "rbEntry" /\ cur \in Entry
  /\ IF RollbackOp(cur) = "refuse" THEN RollbackError
     ELSE Goto("rbAct", cur) /\ op' = RollbackOp(cur) /\ UNCHANGED failed
  /\ UNCHANGED <<disk, env, mode, want, active, owned, tried, resync>>

RollbackAct ==
  /\ pc = "rbAct"
  /\ IF CanPerform(cur)
     THEN /\ SetNames(cur, Performed(cur))
          /\ IF Existed(cur) => Performed(cur).dest = "orig"
             THEN Goto("rbSync", cur) /\ op' = "keep" /\ UNCHANGED failed
             ELSE RollbackError
     ELSE RollbackError /\ UNCHANGED <<fs, surv>>
  /\ UNCHANGED <<jr, jsurv, dirty, env, mode, want, active, owned, tried, resync>>

RollbackSync ==
  /\ pc = "rbSync" /\ Sync({cur}) /\ Goto("rbEntry", cur - 1)
  /\ KeepMemory /\ UNCHANGED <<fs, jr, jsurv, dirty, env>>

RollbackDone ==
  /\ pc = "rbEntry" /\ cur = 0
  /\ IF failed THEN Exit
     ELSE /\ Goto("dropOwned", 1)
          /\ KeepMemory
  /\ UNCHANGED <<disk, env>>

\* The finally clause, when nothing told it to preserve the staged files: DropOwned
\* removes them whatever the journal says; nothing is synced, the journal stays.
FinallyNext ==
  /\ pc = "finally" /\ cur \in Entry /\ owned[cur] \cap Present(cur) = {}
  /\ IF cur < N THEN Goto("finally", cur + 1) /\ KeepMemory ELSE Exit
  /\ UNCHANGED <<disk, env>>

--------------------------------------------------------------------------------
(* Faults and the user                                                      *)

\* A system call raises.  Each labelled step is one call or one group of checks,
\* so a raise after the call's effect is a raise at the next label.
Fail ==
  /\ faults < MaxFaults /\ faults' = faults + 1
  /\ pc \notin {"idle", "plan"} /\ (pc = "register" => LateFaults)
  /\ CASE pc \in {"jStage", "jSwap", "jSync"} ->
            /\ SetJournal([jr EXCEPT !.pending = FALSE]) /\ Raise
       [] pc \in {"rbAct", "rbSync"} ->
            /\ RollbackError /\ UNCHANGED <<mode, want, active, owned, tried, resync>>
            /\ UNCHANGED <<jr, jsurv>>
       [] pc = "rbEntry" ->
            /\ \/ /\ cur \in Entry /\ RollbackError
                  /\ UNCHANGED <<mode, want, active, owned, tried, resync>>
               \/ Escape
            /\ UNCHANGED <<jr, jsurv>>
       [] pc \in {"doneTomb", "doneSync"} ->
            /\ cur \in Entry /\ failed' = TRUE /\ Goto("doneTomb", cur + 1)
            /\ UNCHANGED <<jr, jsurv, mode, op, want, active, owned, tried, resync>>
       [] pc = "handler" -> Escape /\ UNCHANGED <<jr, jsurv>>
       [] pc \in {"dropOwned", "dropJournal", "dropSync", "finally"} ->
            Exit /\ UNCHANGED <<jr, jsurv>>
       [] OTHER -> Raise /\ UNCHANGED <<jr, jsurv>>
  /\ UNCHANGED <<fs, surv, dirty, kind, touched, moves>>

Crash ==
  /\ pc # "idle" /\ faults < MaxFaults /\ faults' = faults + 1
  /\ Exit /\ UNCHANGED <<disk, kind, touched, moves>>

\* Every directory comes back in a state it went through since its last sync.
PowerLoss ==
  /\ PowerFails /\ faults < MaxFaults /\ faults' = faults + 1
  /\ fs' \in [Entry -> UNION {surv[e] : e \in Entry}]
  /\ \A e \in Entry : fs'[e] \in surv[e]
  /\ jr' \in jsurv
  /\ surv' = [e \in Entry |-> {fs'[e]}] /\ jsurv' = {jr'}
  /\ Exit /\ UNCHANGED <<dirty, kind, touched, moves>>

\* Between these checks and the call they guard no lock keeps the user away.
InGap == pc \in {"recAct", "rbAct", "pubSwap"}

UserStep ==
  /\ moves < MaxMoves /\ moves' = moves + 1 /\ (Racy \/ ~InGap)
  /\ UNCHANGED <<mem, jr, jsurv, kind, faults>>

\* The user edits a managed file in place, saves over it by rename (or creates
\* it), deletes it, or sweeps a tombstone away with other hidden files.
UserEdit(e) ==
  /\ UserStep /\ fs[e].dest # "none" /\ touched' = touched \cup {e}
  /\ dirty' = [dirty EXCEPT ![e] = @ \cup {fs[e].dest}]
  /\ UNCHANGED <<fs, surv>>

UserReplace(e) ==
  /\ UserStep /\ fs[e].dest # "user" /\ touched' = touched \cup {e}
  /\ SetNames(e, [fs[e] EXCEPT !.dest = "user"]) /\ UNCHANGED dirty

UserDelete(e) ==
  /\ UserStep /\ fs[e].dest # "none" /\ touched' = touched \cup {e}
  /\ SetNames(e, [fs[e] EXCEPT !.dest = "none"]) /\ UNCHANGED dirty

UserSweep(e) ==
  /\ UserStep /\ fs[e].tomb # "none"
  /\ SetNames(e, [fs[e] EXCEPT !.tomb = "none"]) /\ UNCHANGED <<dirty, touched>>

--------------------------------------------------------------------------------
Recover ==
  \/ Start \/ RecoverPending \/ RecoverPendingSync \/ RecoverDispatch
  \/ RecoverEntry \/ RecoverAct \/ RecoverSync
  \/ CleanTemporary \/ CleanNext \/ CleanSync \/ DropJournal \/ DropJournalSync

Apply ==
  \/ Plan \/ PlanNothing \/ JournalStage \/ JournalSwap \/ JournalSync
  \/ StageFile \/ RegisterFile \/ CheckSource \/ StageSync
  \/ PublishCheck \/ TombstoneDrop \/ TombstoneLink \/ TombstoneLinked
  \/ PublishReady \/ PublishSwap \/ PublishVerify \/ PublishUnlink \/ PublishUnlinked
  \/ FinalCheck \/ DoneTombstone \/ DoneSync \/ DoneTombstones
  \/ DropOwned \/ DropOwnedSync

Rollback ==
  \/ Handler \/ RollbackEntry \/ RollbackAct \/ RollbackSync \/ RollbackDone
  \/ FinallyNext

User == \E e \in Entry : UserEdit(e) \/ UserReplace(e) \/ UserDelete(e) \/ UserSweep(e)

Step == Recover \/ Apply \/ Rollback

Next == Step \/ Fail \/ Crash \/ PowerLoss \/ User

Spec == Init /\ [][Next]_vars

\* The operating system runs the configurator, and somebody runs it again.
FairSpec == Spec /\ WF_vars(Step)

--------------------------------------------------------------------------------
(* Properties                                                               *)

Label == {"idle", "recStart", "recSync", "recEntry", "recAct", "clean",
          "dropJournal", "dropSync", "plan", "jStage", "jSwap", "jSync", "stage",
          "register", "source", "stageSync", "pubCheck", "pubDrop", "pubLink",
          "pubLinked", "pubReady", "pubSwap", "pubVerify", "pubUnlink", "pubUnlinked",
          "final", "doneTomb", "doneSync", "dropOwned", "handler", "rbEntry",
          "rbAct", "rbSync", "finally"}

Op == {"keep", "refuse", "dropTomb", "tombBack", "oldBack", "dropDest"}

DiskTypeOK ==
  /\ fs \in [Entry -> Names] /\ surv \in [Entry -> SUBSET Names]
  /\ jr \in Journal /\ jsurv \in SUBSET Journal
  /\ dirty \in [Entry -> SUBSET Inode]

MemTypeOK ==
  /\ pc \in Label /\ mode \in {"recover", "apply"} /\ cur \in 0..(N + 1)
  /\ op \in Op /\ want \in Phase /\ active \in BOOLEAN
  /\ owned \in [Entry -> SUBSET (Temp \cup {"orig"})] /\ tried \in 0..N /\ failed \in BOOLEAN
  /\ resync \in SUBSET Entry

EnvTypeOK ==
  /\ kind \in [Entry -> Kind] /\ touched \in SUBSET Entry
  /\ moves \in 0..MaxMoves /\ faults \in 0..MaxFaults

\* Every variable keeps its type.
TypeOK == DiskTypeOK /\ MemTypeOK /\ EnvTypeOK

AtRest == pc = "idle" /\ jr = NoEntry

OldIn(e, f) == f.dest \in IF Existed(e) THEN {"orig", "old"} ELSE {"none"}
NewIn(e, f) == f.dest = (IF kind[e] = "delete" THEN "none" ELSE "new")

\* All or nothing: when no configurator runs and no journal is left, the files
\* the user did not touch all have their old contents or all their new ones,
\* whatever was killed, raised or lost power on the way.
AllOrNothing ==
  AtRest => \/ \A e \in Entry \ touched : OldIn(e, fs[e])
            \/ \A e \in Entry \ touched : NewIn(e, fs[e])

\* The original bytes of a file are never lost while a journal asks for them:
\* they are under the destination, the tombstone or the backup.  An error that
\* escapes the except clause breaks this: the finally clause sweeps them away.
OriginalSafe ==
  jr.phase \in {"preparing", "prepared"} =>
    \A e \in Entry \ touched : Existed(e) =>
      \/ fs[e].dest \in {"orig", "old"} \/ fs[e].tomb = "orig" \/ fs[e].old = "old"

\* Recovery refuses an entry only because of what the user did: whatever was
\* interrupted, including an earlier recovery, can be undone, unless an error
\* escaped the except clause.
RecoveryAccepts ==
  pc = "recEntry" /\ cur \in Entry /\ moves = 0 => RecoverAccepts(cur)

\* The commit point: no journal that may come back says "committed" before the
\* new contents of every file are sure to come back as well.
CommitIsDurable ==
  (\E j \in jsurv : j.phase = "committed") =>
    \A e \in Entry \ touched : \A f \in surv[e] : NewIn(e, f)

\* Once the journal says "committed" the program changes no destination: neither
\* the cleanup, nor a late error, nor a later recovery takes the commit back.
CommitIsFinal ==
  [][(Step \/ Fail) /\ jr.phase = "committed" =>
       \A e \in Entry : fs'[e].dest = fs[e].dest]_vars

\* A file the user put in place of a managed file stays where it is, and a managed
\* file edited in place keeps a name, until a later change set plans over them.
UserDataKept ==
  [][(Step \/ Fail) /\ pc # "plan" =>
       \A e \in Entry :
         /\ fs[e].dest = "user" => fs'[e].dest = "user"
         /\ fs[e].dest \in dirty[e] =>
              \E n \in {"dest"} \cup Temp : fs'[e][n] = fs[e].dest]_vars

\* When the journal is gone no temporary with file contents is left behind.
NothingLeftBehind == AtRest => \A e \in Entry : Present(e) = {}

\* An interrupted transaction on files nobody touched does not stay interrupted:
\* running the configurator again gets rid of the journal, unless an error escaped
\* the except clause.
Recovers ==
  (jr.phase # "none" /\ moves = 0) ~> (jr.phase = "none" \/ moves > 0)

\* The transaction is an atomic update of the files, as long as only the program
\* writes to them: the journal says where it is, the destinations what is seen.
Status == CASE jr.phase = "none" -> "rest"
            [] jr.phase \in {"preparing", "prepared"} -> "open"
            [] jr.phase = "committed" -> "decided"

View == [e \in Entry |-> IF NewIn(e, fs[e]) THEN "new" ELSE "old"]

Abstract == INSTANCE AtomicUpdate WITH File <- Entry, status <- Status, view <- View

\* Every behaviour of the transaction is one of the atomic update.
ImplementsAtomicUpdate == Abstract!Spec

================================================================================
