------------------------ MODULE ConcurrentConfigurators ------------------------
(***************************************************************************)
(* Several configurators over one transaction root.  Each plans a change   *)
(* of all files, recovers what an earlier one left, and applies its change *)
(* under _transaction_directory_lock.  external_configurator.py recovers   *)
(* without that lock: its processes are in Unlocked.                       *)
(*                                                                         *)
(* FileTransaction has the transaction in full; here its steps are         *)
(* coarser: a check and the call it guards are one step, directories are   *)
(* durable, every change is an update, and the backup copy, used only when *)
(* somebody removed a tombstone, is left out.                              *)
(***************************************************************************)
EXTENDS Naturals

CONSTANTS
  Proc,        \* configurator processes; each makes one run
  Unlocked,    \* those of external_configurator.py
  N,           \* number of files
  MaxFaults    \* bound: crashes and raising calls

ASSUME ConcurrencyAssumption ==
  Unlocked \subseteq Proc /\ N \in Nat \ {0} /\ MaxFaults \in Nat
  /\ {"base", "free", "nobody", "none", "ph"} \cap Proc = {}

File    == 1..N
Version == Proc \cup {"base"}   \* who wrote a file; its inode
Contents == [File -> Version]

\* The journal names its transaction and so, with the plan, the originals.
Journal   == [owner : Proc, phase : {"preparing", "prepared", "committed"}]
NoJournal == [owner |-> "nobody", phase |-> "none"]
NoPlan    == [f \in File |-> "none"]

VARIABLES
  dest,      \* dest[f]: the version of file f
  new,       \* new[p]: the files whose replacement by p is staged
  tomb,      \* tomb[p][f]: p's tombstone of f: "none", "ph" or a version
  jr,        \* the journal
  pending,   \* whether its pending file exists
  lock,      \* holder of the directory lock
  pc, cur,   \* next step of p, and its file
  want,      \* phase p writes next
  seen,      \* the contents p's change was computed from, or NoPlan
  snap,      \* the journal p recovers from
  failed,    \* rollback_errors of p
  faults,
  subject, commits  \* history: whose change is in hand, who committed

disk == <<dest, new, tomb, jr, pending>>
mem  == <<pc, cur, want, seen, snap, failed>>
hist == <<subject, commits>>
vars == <<disk, lock, mem, faults, hist>>

Init ==
  /\ dest = [f \in File |-> "base"] /\ new = [p \in Proc |-> {}]
  /\ tomb = [p \in Proc |-> [f \in File |-> "none"]]
  /\ jr = NoJournal /\ pending = FALSE /\ lock = "free"
  /\ pc = [p \in Proc |-> "start"] /\ cur = [p \in Proc |-> 0]
  /\ want = [p \in Proc |-> "none"] /\ seen = [p \in Proc |-> NoPlan]
  /\ snap = [p \in Proc |-> NoJournal] /\ failed = [p \in Proc |-> FALSE]
  /\ faults = 0 /\ subject = "nobody" /\ commits = {}

Goto(p, label, i) == pc' = [pc EXCEPT ![p] = label] /\ cur' = [cur EXCEPT ![p] = i]

Release(p) == lock' = IF lock = p THEN "free" ELSE lock

\* The process returns, raises out of the program or dies.
Leave(p) == Goto(p, "done", 0) /\ Release(p)

BeforeJournal(p) == want[p] = "preparing" /\ pc[p] \in {"jStage", "jSwap"}

\* A failure in the transaction: its except clause, once a journal was written.
Raise(p) ==
  IF BeforeJournal(p) THEN Leave(p)
  ELSE Goto(p, "handler", cur[p]) /\ UNCHANGED lock

\* The transaction whose files p handles: the one it recovers, or its own.
Target(p) == IF snap[p] = NoJournal THEN p ELSE snap[p].owner

BugSame(p, f) == TRUE  \* compares nothing
\* File f is as it was when p's change was computed.
Same(p, f) == dest[f] = seen[p][f]

--------------------------------------------------------------------------------
(* Lock, recovery                                                           *)

\* External processes recover at once; the others first look for a journal.
Start(p) ==
  /\ pc[p] = "start"
  /\ Goto(p, IF p \in Unlocked THEN "read"
             ELSE IF jr = NoJournal /\ ~pending THEN "plan" ELSE "lock", 0)
  /\ UNCHANGED <<disk, lock, want, seen, snap, failed, faults, hist>>

\* The change set is computed without the lock.
Plan(p) ==
  /\ pc[p] = "plan" /\ seen' = [seen EXCEPT ![p] = dest] /\ Goto(p, "lock", 0)
  /\ UNCHANGED <<disk, lock, want, snap, failed, faults, hist>>

BugAcquire(p) ==  \* does not look whether the lock was taken
  /\ pc[p] = "lock" /\ lock' = p /\ Goto(p, "read", 0)
  /\ UNCHANGED <<disk, want, seen, snap, failed, faults, hist>>

Acquire(p) ==
  /\ pc[p] = "lock"
  /\ IF lock = "free" THEN lock' = p /\ Goto(p, "read", 0) ELSE Leave(p)
  /\ UNCHANGED <<disk, want, seen, snap, failed, faults, hist>>

\* Recovery is over: back to computing the change, or on to applying it.
Recovered(p) ==
  IF seen[p] = NoPlan THEN Goto(p, "plan", 0) /\ Release(p)
  ELSE Goto(p, "check", 0) /\ UNCHANGED lock

BugReadJournal(p) ==  \* undoes nothing
  /\ pc[p] = "read" /\ pending' = FALSE /\ snap' = [snap EXCEPT ![p] = jr]
  /\ IF jr = NoJournal THEN Recovered(p) ELSE Goto(p, "clean", 1) /\ UNCHANGED lock
  /\ UNCHANGED <<dest, new, tomb, jr, want, seen, failed, faults, hist>>

ReadJournal(p) ==
  /\ pc[p] = "read" /\ pending' = FALSE /\ snap' = [snap EXCEPT ![p] = jr]
  /\ CASE jr.phase = "none" -> Recovered(p)
       [] jr.phase = "preparing" ->
            IF \A f \in File : Same(jr.owner, f)
            THEN Goto(p, "clean", 1) /\ UNCHANGED lock ELSE Leave(p)
       [] jr.phase = "prepared" -> Goto(p, "restore", N) /\ UNCHANGED lock
       [] jr.phase = "committed" -> Goto(p, "clean", 1) /\ UNCHANGED lock
  /\ UNCHANGED <<dest, new, tomb, jr, want, seen, failed, faults, hist>>

\* _restore_original_from_tombstone, for file f of the transaction of o.
Restorable(o, f) ==
  \/ tomb[o][f] = seen[o][f] /\ dest[f] \in {seen[o][f], o}
  \/ tomb[o][f] # seen[o][f] /\ Same(o, f)

RestoreFile(o, f) ==
  /\ dest' = [dest EXCEPT ![f] = seen[o][f]]
  /\ tomb' = [tomb EXCEPT ![o][f] = IF @ = seen[o][f] THEN "none" ELSE @]

Restore(p) ==
  /\ pc[p] = "restore"
  /\ LET o == Target(p)  f == cur[p] IN
       IF f = 0 THEN Goto(p, "clean", 1) /\ UNCHANGED <<dest, tomb, lock>>
       ELSE IF Restorable(o, f)
            THEN RestoreFile(o, f) /\ Goto(p, "restore", f - 1) /\ UNCHANGED lock
            ELSE Leave(p) /\ UNCHANGED <<dest, tomb>>
  /\ UNCHANGED <<new, jr, pending, want, seen, snap, failed, faults, hist>>

BugClean(p) ==  \* goes past the last file
  /\ pc[p] = "clean"
  /\ new' = [new EXCEPT ![Target(p)] = @ \ {cur[p]}]
  /\ tomb' = [tomb EXCEPT ![Target(p)] = [f \in File |-> IF f = cur[p] THEN "none" ELSE @[f]]]
  /\ IF cur[p] \in 0..(N + 1) THEN Goto(p, "clean", cur[p] + 1) ELSE Goto(p, "drop", 0)
  /\ UNCHANGED <<dest, jr, pending, lock, want, seen, snap, failed, faults, hist>>

\* The temporaries of one file go, after recovery, commit or rollback.
Clean(p) ==
  /\ pc[p] = "clean"
  /\ IF cur[p] \in File
     THEN /\ new' = [new EXCEPT ![Target(p)] = @ \ {cur[p]}]
          /\ tomb' = [tomb EXCEPT ![Target(p)][cur[p]] = "none"]
          /\ Goto(p, "clean", cur[p] + 1)
     ELSE Goto(p, "drop", 0) /\ UNCHANGED <<new, tomb>>
  /\ UNCHANGED <<dest, jr, pending, lock, want, seen, snap, failed, faults, hist>>

Drop(p) ==
  /\ pc[p] = "drop" /\ jr' = NoJournal /\ pending' = FALSE
  /\ snap' = [snap EXCEPT ![p] = NoJournal]
  /\ IF snap[p] = NoJournal THEN Leave(p) ELSE Recovered(p)
  /\ UNCHANGED <<dest, new, tomb, want, seen, failed, faults, hist>>

--------------------------------------------------------------------------------
(* Apply                                                                    *)

Check(p) ==
  /\ pc[p] = "check"
  /\ IF \A f \in File : Same(p, f)
     THEN /\ want' = [want EXCEPT ![p] = "preparing"] /\ subject' = p
          /\ Goto(p, "jStage", 0) /\ UNCHANGED lock
     ELSE Leave(p) /\ UNCHANGED <<want, subject>>
  /\ UNCHANGED <<disk, seen, snap, failed, faults, commits>>

JournalStage(p) ==
  /\ pc[p] = "jStage"
  /\ IF pending THEN Raise(p)
     ELSE Goto(p, "jSwap", cur[p]) /\ UNCHANGED lock
  /\ pending' = TRUE
  /\ UNCHANGED <<dest, new, tomb, jr, want, seen, snap, failed, faults, hist>>

JournalSwap(p) ==
  /\ pc[p] = "jSwap" /\ pending' = FALSE
  /\ IF pending
     THEN /\ jr' = [owner |-> p, phase |-> want[p]]
          /\ CASE want[p] = "preparing" -> Goto(p, "stage", 0)
               [] want[p] = "prepared" -> Goto(p, "link", 1)
               [] OTHER -> Goto(p, "tombs", N)
          /\ commits' = IF want[p] = "committed" THEN commits \cup {p} ELSE commits
          /\ UNCHANGED lock
     ELSE Raise(p) /\ UNCHANGED <<jr, commits>>
  /\ UNCHANGED <<dest, new, tomb, want, seen, snap, failed, faults, subject>>

\* Everything is staged before the sources are compared once more.
Stage(p) ==
  /\ pc[p] = "stage"
  /\ new' = [new EXCEPT ![p] = File]
  /\ tomb' = [tomb EXCEPT ![p] = [f \in File |-> "ph"]]
  /\ IF \A f \in File : Same(p, f)
     THEN /\ want' = [want EXCEPT ![p] = "prepared"]
          /\ Goto(p, "jStage", 0) /\ UNCHANGED lock
     ELSE Raise(p) /\ UNCHANGED want
  /\ UNCHANGED <<dest, jr, pending, seen, snap, failed, faults, hist>>

Link(p) ==
  /\ pc[p] = "link"
  /\ IF Same(p, cur[p]) /\ tomb[p][cur[p]] = "ph"
     THEN /\ tomb' = [tomb EXCEPT ![p][cur[p]] = dest[cur[p]]]
          /\ Goto(p, "swap", cur[p]) /\ UNCHANGED lock
     ELSE Raise(p) /\ UNCHANGED tomb
  /\ UNCHANGED <<dest, new, jr, pending, want, seen, snap, failed, faults, hist>>

\* The original must still have both its names, or nothing is replaced.
Swap(p) ==
  /\ pc[p] = "swap"
  /\ IF cur[p] \in new[p] /\ Same(p, cur[p]) /\ tomb[p][cur[p]] = dest[cur[p]]
     THEN /\ dest' = [dest EXCEPT ![cur[p]] = p] /\ new' = [new EXCEPT ![p] = @ \ {cur[p]}]
          /\ IF cur[p] < N THEN Goto(p, "link", cur[p] + 1) ELSE Goto(p, "final", N)
          /\ UNCHANGED lock
     ELSE Raise(p) /\ UNCHANGED <<dest, new>>
  /\ UNCHANGED <<tomb, jr, pending, want, seen, snap, failed, faults, hist>>

Final(p) ==
  /\ pc[p] = "final"
  /\ IF \A f \in File : dest[f] = p
     THEN /\ want' = [want EXCEPT ![p] = "committed"]
          /\ Goto(p, "jStage", N) /\ UNCHANGED lock
     ELSE Raise(p) /\ UNCHANGED want
  /\ UNCHANGED <<disk, seen, snap, failed, faults, hist>>

\* Tombstones that are no longer the originals keep the journal.
DoneTombstones(p) ==
  /\ pc[p] = "tombs"
  /\ tomb' = [tomb EXCEPT ![p] = [f \in File |-> IF @[f] = seen[p][f] THEN "none" ELSE @[f]]]
  /\ IF \A f \in File : tomb[p][f] = seen[p][f]
     THEN Goto(p, "clean", 1) /\ UNCHANGED lock ELSE Leave(p)
  /\ UNCHANGED <<dest, new, jr, pending, want, seen, snap, failed, faults, hist>>

BugHandler(p) ==  \* cleans up without rolling back
  /\ pc[p] = "handler"
  /\ IF jr.owner = p /\ jr.phase # "committed"
     THEN Goto(p, "clean", 1) /\ UNCHANGED lock ELSE Leave(p)
  /\ UNCHANGED <<disk, want, seen, snap, failed, faults, hist>>

\* The except clause reads the journal again: it must be its own.
Handler(p) ==
  /\ pc[p] = "handler"
  /\ CASE jr.owner = p /\ jr.phase = "prepared" -> Goto(p, "rollback", cur[p]) /\ UNCHANGED lock
       [] jr.owner = p /\ jr.phase = "preparing" -> Goto(p, "clean", 1) /\ UNCHANGED lock
       [] OTHER -> Leave(p)
  /\ UNCHANGED <<disk, want, seen, snap, failed, faults, hist>>

Rollback(p) ==
  /\ pc[p] = "rollback"
  /\ LET f == cur[p] IN
       IF f = 0
       THEN /\ IF failed[p] THEN Leave(p) ELSE Goto(p, "clean", 1) /\ UNCHANGED lock
            /\ UNCHANGED <<dest, tomb, failed>>
       ELSE /\ Goto(p, "rollback", f - 1) /\ UNCHANGED lock
            /\ IF Restorable(p, f) THEN RestoreFile(p, f) /\ UNCHANGED failed
               ELSE /\ failed' = [failed EXCEPT ![p] = TRUE]
                    /\ UNCHANGED <<dest, tomb>>
  /\ UNCHANGED <<new, jr, pending, want, seen, snap, faults, hist>>

--------------------------------------------------------------------------------
(* Faults                                                                   *)

InApply == {"jStage", "jSwap", "stage", "link", "swap", "final"}

\* A call of the transaction raises.
Fail(p) ==
  /\ pc[p] \in InApply /\ faults < MaxFaults /\ faults' = faults + 1 /\ Raise(p)
  /\ pending' = (pending /\ pc[p] # "jSwap")
  /\ UNCHANGED <<dest, new, tomb, jr, want, seen, snap, failed, hist>>

\* The process is killed, or a call raises where nothing catches it.
Crash(p) ==
  /\ pc[p] # "done" /\ faults < MaxFaults /\ faults' = faults + 1 /\ Leave(p)
  /\ UNCHANGED <<disk, want, seen, snap, failed, hist>>

Step(p) ==
  \/ Start(p) \/ Plan(p) \/ Acquire(p) \/ ReadJournal(p) \/ Restore(p)
  \/ Clean(p) \/ Drop(p) \/ Check(p) \/ JournalStage(p) \/ JournalSwap(p)
  \/ Stage(p) \/ Link(p) \/ Swap(p) \/ Final(p) \/ DoneTombstones(p)
  \/ Handler(p) \/ Rollback(p)

Next == \E p \in Proc : Step(p) \/ Fail(p) \/ Crash(p)

Spec == Init /\ [][Next]_vars

--------------------------------------------------------------------------------
(* Properties                                                               *)

Label == {"start", "plan", "lock", "read", "restore", "clean", "drop", "check",
          "jStage", "jSwap", "stage", "link", "swap", "final", "tombs", "handler",
          "rollback", "done"}

\* Every variable keeps its type.
TypeOK ==
  /\ dest \in Contents /\ new \in [Proc -> SUBSET File]
  /\ tomb \in [Proc -> [File -> Version \cup {"none", "ph"}]]
  /\ jr \in Journal \cup {NoJournal} /\ pending \in BOOLEAN
  /\ lock \in Proc \cup {"free"} /\ pc \in [Proc -> Label] /\ cur \in [Proc -> 0..(N + 1)]
  /\ want \in [Proc -> {"none", "preparing", "prepared", "committed"}]
  /\ seen \in [Proc -> Contents \cup {NoPlan}] /\ snap \in [Proc -> Journal \cup {NoJournal}]
  /\ failed \in [Proc -> BOOLEAN] /\ faults \in 0..MaxFaults
  /\ subject \in Proc \cup {"nobody"} /\ commits \in SUBSET Proc

Resting == {"start", "plan", "lock", "done"}

\* When nobody recovers or applies and no journal is left, all files are of the
\* same version: the processes serialize, and what one leaves half done another
\* completes or undoes (configure_orchestration.py:2051, 2507).
FilesAgree ==
  jr = NoJournal /\ (\A p \in Proc : pc[p] \in Resting) =>
    \A f, g \in File : dest[f] = dest[g]

\* Whoever publishes or rolls back holds the lock, and the journal on disk is his:
\* nobody else recovers, replaces or removes it meanwhile.
OwnJournal ==
  \A p \in Proc : pc[p] \in {"link", "swap", "final", "rollback"} =>
    lock = p /\ jr = [owner |-> p, phase |-> "prepared"]

\* No update is lost: two changes that were both committed were never computed
\* from the same contents, although changes are computed without the lock.
NoLostUpdate ==
  \A p, q \in commits : p # q => seen[p] # seen[q]

Status == CASE jr.phase = "none" -> "rest"
            [] jr.phase \in {"preparing", "prepared"} -> "open"
            [] jr.phase = "committed" -> "decided"

View == [f \in File |-> IF dest[f] = subject THEN "new" ELSE "old"]

Abstract == INSTANCE AtomicUpdate WITH status <- Status, view <- View

\* All processes together behave like one atomic update after another.
ImplementsAtomicUpdate == Abstract!Spec

================================================================================
