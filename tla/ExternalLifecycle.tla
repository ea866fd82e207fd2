-------------------------- MODULE ExternalLifecycle --------------------------
(***************************************************************************)
(* external_configurator.py: the life of external providers and roles.  A  *)
(* provider is a table in the user's Codex configuration, written through  *)
(* the App Server, and a record in the registry; a journal ties the two    *)
(* while prepare or remove changes both.  A role is a registry record and  *)
(* an agent file, changed in one transaction.  Gate 0 qualifies a provider *)
(* and invoke launches a model after attesting all of it again.            *)
(*                                                                         *)
(* Commands run in any number of processes without a common lock; prepare, *)
(* remove and recover read the journal, the others do not.  A command may  *)
(* be refused, raise or be killed at any step and an answer of the App     *)
(* Server may not arrive.  The user edits tables and agent files and       *)
(* replaces the credential helper.                                         *)
(*                                                                         *)
(* A digest stands for what it digests.  A registry file that was never    *)
(* written is the empty registry, and timestamps are left out.  A table is *)
(* its kind of authentication, an agent file the provider it pins, and the *)
(* trust record of a provider is a field of its record.  The App Server    *)
(* compares versions, and a configuration is its version.                  *)
(*                                                                         *)
(* A transaction of configure_orchestration.py is cut at the places where  *)
(* the other commands can see it: it is staged, its agent files are there, *)
(* the registry has a second link, it is replaced.  FileTransaction has it *)
(* in full and ConcurrentConfigurators the recovery without a lock; here a *)
(* check and the call it guards are one step.                              *)
(***************************************************************************)
EXTENDS Naturals, FiniteSets

CONSTANTS
    Proc,           \* processes that run the script
    Provider,       \* native providers of the catalogue
    Role,           \* role names
    Auth,           \* kinds of authentication that are used
    Helper,         \* contents the user's credential helper may have
    Qualified,      \* providers the catalogue declares qualified
    Counts          \* bound: edits, helpers replaced, commands beside another

ASSUME AuthKinds == Auth \subseteq {"secure_store", "user_helper"}
ASSUME NamesAreDistinct ==
    /\ {"none", "absent", "other"} \cap (Provider \cup Helper) = {}
    /\ Qualified \subseteq Provider
ASSUME CountsAreTriples == Counts \subseteq Nat \X Nat \X Nat

VARIABLES
    registry,       \* the registry file
    config,         \* the provider tables of the user configuration
    journal,        \* the provider journal
    agents,         \* the agent files of the roles
    txn,            \* the transaction of the configurator that is not committed
    helper,         \* the content of the user's credential helper
    run,            \* the command each process is running
    probed,         \* history: providers and helpers that passed Gate 0
    mishaps,        \* history: what happened that voids a promise
    edits,          \* tables and agent files the user edited so far
    swaps,          \* helpers the user replaced so far
    beside          \* commands started while another ran so far

vars == <<registry, config, journal, agents, txn, helper, run, probed, mishaps,
          edits, swaps, beside>>

-----------------------------------------------------------------------------
(* Readiness; the states no command stores or passes through are left out. *)

Forward ==
    [UNCONFIGURED |-> {"PROVIDER_DECLARED"},
     PROVIDER_DECLARED |-> {"AUTH_REQUIRED", "AUTH_READY"},
     AUTH_REQUIRED |-> {"AUTH_READY"},
     AUTH_READY |-> {"CAPABILITY_VERIFIED", "AUTH_REQUIRED"},
     CAPABILITY_VERIFIED |-> {"ROLE_STAGED", "AUTH_REQUIRED"},
     ROLE_STAGED |-> {"RESTART_REQUIRED", "AUTH_REQUIRED", "CAPABILITY_VERIFIED"},
     RESTART_REQUIRED |-> {"READY", "AUTH_REQUIRED", "CAPABILITY_VERIFIED"},
     READY |-> {"ROLE_STAGED", "CAPABILITY_VERIFIED", "AUTH_REQUIRED"}]

Moves(from, to) == from = to \/ to \in Forward[from]

Stored == {"AUTH_REQUIRED", "AUTH_READY", "CAPABILITY_VERIFIED",
           "RESTART_REQUIRED", "READY"}

\* The states a provider reaches through Gate 0 only.
Proven == {"CAPABILITY_VERIFIED", "RESTART_REQUIRED", "READY"}

-----------------------------------------------------------------------------
(* The registry, the tables, the journal and the commands. *)

Unregistered ==
    [state |-> "UNCONFIGURED", qualified |-> FALSE, auth |-> "none",
     trust |-> "none"]
ProviderRecord ==
    [state : Stored, qualified : BOOLEAN, auth : Auth,
     trust : Helper \cup {"none"}]

Unconnected == [state |-> "UNCONFIGURED", provider |-> "none"]
RoleRecord == [state : {"RESTART_REQUIRED", "READY"}, provider : Provider]

Registry ==
    [providers : [Provider -> ProviderRecord \cup {Unregistered}],
     roles : [Role -> RoleRecord \cup {Unconnected}]]

NoRegistry ==
    [providers |-> [v \in Provider |-> Unregistered],
     roles |-> [o \in Role |-> Unconnected]]

Config == [Provider -> Auth \cup {"absent", "other"}]
NoConfig == [v \in Provider |-> "absent"]

\* How far the transaction is; stale: another command wrote the registry since.
Stages == {"staged", "published", "linked", "replaced"}
Txn == [stage : Stages, before : Registry, after : Registry, stale : BOOLEAN]
NoTxn == [stage |-> "none"]

NoJournal == [action |-> "none"]
Journal ==
    [action : {"prepare", "remove"}, phase : {"preparing", "applied"},
     provider : Provider, config : Auth, before : Registry, after : Registry]

Order ==
    [command : {"prepare"}, provider : Provider, role : {"none"}, auth : Auth]
    \cup [command : {"remove", "gate0", "retrust"}, provider : Provider,
          role : {"none"}, auth : {"none"}]
    \cup [command : {"connect"}, provider : Provider, role : Role, auth : {"none"}]
    \cup [command : {"ready", "disconnect", "invoke"}, provider : {"none"},
          role : Role, auth : {"none"}]
    \cup {[command |-> "recover", provider |-> "none", role |-> "none",
           auth |-> "none"]}

Journaled == {"prepare", "remove", "recover"}
Transacted == {"prepare", "remove", "connect", "disconnect"}

\* The places under the lock of the transaction root.
Inside == Stages \cup {"revert"}

Idle == [at |-> "idle"]
Place == {"engine", "recover", "clear", "roll back", "rolled back", "read",
          "journal", "write", "check", "applied", "commit", "done", "compare",
          "replace", "probe", "probing", "attest", "launch", "model"} \cup Inside
Command ==
    [at : Place, order : Order, owner : Provider \cup {"none"}, seen : Config,
     base : Registry, after : Registry]

TypeOK ==
    /\ registry \in Registry
    /\ config \in Config
    /\ journal \in Journal \cup {NoJournal}
    /\ agents \in [Role -> Provider \cup {"absent", "other"}]
    /\ txn \in Txn \cup {NoTxn}
    /\ helper \in Helper
    /\ run \in [Proc -> Command \cup {Idle}]
    /\ probed \subseteq Provider \X (Helper \cup {"none"})
    /\ mishaps \subseteq {"overlap", "disturbed", "table edit", "agent edit", "swapped"}
    /\ edits \in Nat
    /\ swaps \in Nat
    /\ beside \in Nat

Init ==
    /\ registry = NoRegistry
    /\ config = NoConfig
    /\ journal = NoJournal
    /\ agents = [o \in Role |-> "absent"]
    /\ txn = NoTxn
    /\ helper \in Helper
    /\ run = [p \in Proc |-> Idle]
    /\ probed = {}
    /\ mishaps = {}
    /\ edits = 0
    /\ swaps = 0
    /\ beside = 0

Registered(r, v) == r.providers[v] # Unregistered
RolesOf(r, v) == {o \in Role : r.roles[o].provider = v}

\* The agent file that belongs to a role of a registry.
FileOf(r, o) ==
    IF r.roles[o] = Unconnected THEN "absent" ELSE r.roles[o].provider

\* No reader accepts a registry file with two links.
Readable == txn # NoTxn /\ txn.stage = "linked" => txn.stale

\* The registry that recovery of the transaction would leave.
View == IF txn = NoTxn THEN registry ELSE txn.before

\* The cross-references that every reader and writer of the file validates.
Valid(r) ==
    /\ \A o \in Role : r.roles[o] # Unconnected => Registered(r, r.roles[o].provider)
    /\ \A v \in Provider : r.providers[v].trust # "none" => Registered(r, v)

\* The table a record stands for.
Expected(record) == IF record = Unregistered THEN "absent" ELSE record.auth

\* The credential helper is the one that is trusted.
HelperTrusted(record) == record.auth = "user_helper" => record.trust = helper

\* What --status says of a provider and of the files of a role.
ProviderStatus(v) ==
    IF config[v] = Expected(registry.providers[v])
       /\ HelperTrusted(registry.providers[v])
    THEN "exact" ELSE "CONFIG_DRIFT"
Integrity(o) ==
    IF agents[o] = registry.roles[o].provider THEN "exact" ELSE "CONFIG_DRIFT"

-----------------------------------------------------------------------------
(* What the commands make of a registry. *)

Prepared(r, v, auth, trusted) ==
    [r EXCEPT !.providers[v] =
        [state |-> "AUTH_REQUIRED", qualified |-> v \in Qualified, auth |-> auth,
         trust |-> IF auth = "user_helper" THEN trusted ELSE "none"]]

Without(r, v) == [r EXCEPT !.providers[v] = Unregistered]

Authenticated(r, v) == [r EXCEPT !.providers[v].state = "AUTH_READY"]

Qualify(r, v) ==
    [r EXCEPT !.providers[v].state = "CAPABILITY_VERIFIED",
              !.providers[v].qualified = TRUE]

BugStaged(r, o, v) ==  \* stops at an intermediate state
    [r EXCEPT !.providers[v].state = "ROLE_STAGED",
              !.roles[o] = [state |-> "RESTART_REQUIRED", provider |-> v]]

Staged(r, o, v) ==
    [r EXCEPT !.providers[v].state = "RESTART_REQUIRED",
              !.roles[o] = [state |-> "RESTART_REQUIRED", provider |-> v]]

MadeReady(r, o) ==
    [r EXCEPT !.roles[o].state = "READY",
              !.providers[r.roles[o].provider].state = "READY"]

BugDisconnected(r, o) ==  \* leaves the provider as it is
    [r EXCEPT !.roles[o] = Unconnected]

\* Without its last role a provider is back at its qualification; a role that
\* was pending no longer blocks those that are ready.
Disconnected(r, o) ==
    LET v == r.roles[o].provider
        left == RolesOf(r, v) \ {o}
        state == r.providers[v].state
    IN  [r EXCEPT !.roles[o] = Unconnected,
                  !.providers[v].state =
                     IF left = {} /\ state \in {"RESTART_REQUIRED", "READY"}
                     THEN "CAPABILITY_VERIFIED"
                     ELSE IF /\ left # {} /\ state = "RESTART_REQUIRED"
                             /\ \A q \in left : r.roles[q].state = "READY"
                          THEN "READY" ELSE state]

BugRetrusted(r, v, trusted) ==  \* keeps the qualification
    [r EXCEPT !.providers[v].trust = trusted]

Retrusted(r, v, trusted) ==
    [r EXCEPT !.providers[v].trust = trusted,
              !.providers[v].state = "AUTH_REQUIRED",
              !.providers[v].qualified = FALSE]

-----------------------------------------------------------------------------
(* The decision of recovery on a journal, the tables and a registry. *)

Applied(j, c) == c[j.provider] = j.config
Absent(j, c) == c[j.provider] = "absent"

BugSettled(j, c, r) ==  \* takes an applied table for a finished prepare
    \/ j.action = "prepare" /\ Applied(j, c)
    \/ j.action = "prepare" /\ Absent(j, c) /\ r = j.before
    \/ j.action = "remove" /\ Absent(j, c) /\ r = j.after
    \/ j.action = "remove" /\ Applied(j, c) /\ r = j.before /\ j.phase = "preparing"

Settled(j, c, r) ==
    \/ j.action = "prepare" /\ Applied(j, c) /\ r = j.after
    \/ j.action = "prepare" /\ Absent(j, c) /\ r = j.before
    \/ j.action = "remove" /\ Absent(j, c) /\ r = j.after
    \/ j.action = "remove" /\ Applied(j, c) /\ r = j.before /\ j.phase = "preparing"

HalfPrepared(j, c, r) ==
    j.action = "prepare" /\ Applied(j, c) /\ r = j.before

BugHalfRemoved(j, c, r) ==  \* asks for the phase it never wrote
    /\ j.action = "remove" /\ Absent(j, c) /\ r = j.before
    /\ j.phase = "applied"

HalfRemoved(j, c, r) ==
    /\ j.action = "remove" /\ Absent(j, c) /\ r = j.before
    /\ RolesOf(r, j.provider) = {}
    /\ Without(r, j.provider) = j.after

-----------------------------------------------------------------------------
(* The first look of the commands that recover nothing. *)

Gate0Accepts(v) ==
    /\ registry.providers[v].state \in {"AUTH_REQUIRED", "AUTH_READY"}
    /\ HelperTrusted(registry.providers[v])

ReadyAccepts(o) ==
    /\ registry.roles[o].state = "RESTART_REQUIRED"
    /\ agents[o] = registry.roles[o].provider

RetrustAccepts(v) == registry.providers[v].auth = "user_helper"

InvokeAccepts(o) ==
    LET role == registry.roles[o]
        record == registry.providers[role.provider]
    IN /\ role.state = "READY"
       /\ record.qualified /\ record.state = "READY"
       /\ config[role.provider] = Expected(record)
       /\ HelperTrusted(record)
       /\ agents[o] = role.provider

\* A command that its first look refuses changes nothing; it is started when it
\* is not refused.
Accepts(order) ==
    CASE order.command = "gate0" -> Gate0Accepts(order.provider)
      [] order.command = "ready" -> ReadyAccepts(order.role)
      [] order.command = "retrust" -> RetrustAccepts(order.provider)
      [] order.command = "invoke" -> InvokeAccepts(order.role)
      [] order.command = "recover" -> TRUE
      [] OTHER -> txn # NoTxn => ~ txn.stale

-----------------------------------------------------------------------------
(* Starting, ending, recovering. *)

Busy(p) == run[p] # Idle
At(p, place) == run[p] # Idle /\ run[p].at = place
Runs(p, command) == run[p] # Idle /\ run[p].order.command = command
Become(p, r) == run' = [run EXCEPT ![p] = r]
Go(p, place) == Become(p, [run[p] EXCEPT !.at = place])
Leave(p) == Become(p, Idle)
User == <<helper, edits, swaps, beside>>

Fresh(order, place) ==
    [at |-> place, order |-> order, owner |-> "none", seen |-> NoConfig,
     base |-> NoRegistry, after |-> NoRegistry]

Start(p) ==
    /\ ~ Busy(p)
    /\ \E order \in Order :
          /\ Accepts(order)
          /\ Become(p, Fresh(order, IF order.command \in Transacted THEN "engine"
                                    ELSE IF order.command = "recover"
                                    THEN "recover" ELSE "read"))
          /\ mishaps' = mishaps \cup
                IF order.command \in Journaled
                   /\ \E q \in Proc : Busy(q) /\ run[q].order.command \in Journaled
                THEN {"overlap"} ELSE {}
    /\ IF \A q \in Proc : ~ Busy(q)
       THEN UNCHANGED beside
       ELSE <<edits, swaps, beside + 1>> \in Counts /\ beside' = beside + 1
    /\ UNCHANGED <<registry, config, journal, agents, txn, helper, probed, edits, swaps>>

\* Refused, raised, killed, or done: nothing is cleaned up.
End(p) ==
    /\ Busy(p)
    /\ Leave(p)
    /\ UNCHANGED <<registry, config, journal, agents, txn, probed, mishaps>>
    /\ UNCHANGED User

\* The decision on a registry that a later recovery of the transaction may take
\* back is noted.
Recover(p) ==
    /\ At(p, "recover")
    /\ IF journal = NoJournal
       THEN /\ IF Runs(p, "recover") THEN Leave(p) ELSE Go(p, "read")
            /\ UNCHANGED mishaps
       ELSE /\ Readable
            /\ \/ Settled(journal, config, registry) /\ Go(p, "clear")
               \/ /\ HalfPrepared(journal, config, registry)
                  /\ Become(p, [run[p] EXCEPT !.at = "roll back", !.seen = config,
                                              !.owner = journal.provider])
               \/ /\ HalfRemoved(journal, config, registry)
                  /\ Become(p, [run[p] EXCEPT !.at = "commit", !.base = registry,
                                              !.after = journal.after,
                                              !.owner = journal.provider])
            /\ mishaps' = mishaps \cup
                  IF txn # NoTxn /\ txn.stage = "replaced" THEN {"disturbed"} ELSE {}
    /\ UNCHANGED <<registry, config, journal, agents, txn, probed>>
    /\ UNCHANGED User

BugRollBack(p) ==  \* writes without a version
    /\ At(p, "roll back")
    /\ config' = [config EXCEPT ![run[p].owner] = "absent"]
    /\ Go(p, "rolled back")
    /\ UNCHANGED <<registry, journal, agents, txn, probed, mishaps>>
    /\ UNCHANGED User

\* The table is removed; the answer may not arrive.
RollBack(p) ==
    /\ At(p, "roll back")
    /\ config = run[p].seen
    /\ config' = [config EXCEPT ![run[p].owner] = "absent"]
    /\ Go(p, "rolled back") \/ Leave(p)
    /\ UNCHANGED <<registry, journal, agents, txn, probed, mishaps>>
    /\ UNCHANGED User

RolledBack(p) ==
    /\ At(p, "rolled back")
    /\ config[run[p].owner] = "absent"
    /\ Go(p, "clear")
    /\ UNCHANGED <<registry, config, journal, agents, txn, probed, mishaps>>
    /\ UNCHANGED User

\* The journal is removed, whichever it is by now.
Clear(p) ==
    /\ At(p, "clear")
    /\ journal' = NoJournal
    /\ IF Runs(p, "recover") THEN Leave(p) ELSE Become(p, Fresh(run[p].order, "read"))
    /\ UNCHANGED <<registry, config, agents, txn, probed, mishaps>>
    /\ UNCHANGED User

-----------------------------------------------------------------------------
(* The transaction of prepare, remove, connect and disconnect, and of the     *)
(* recovery that finishes a remove.  Its recovery runs without the lock at    *)
(* the head of those commands, and under it before they stage their own.      *)

Free(p) == \A q \in Proc \ {p} : Busy(q) => run[q].at \notin Inside

Touched(r, s) == {o \in Role : FileOf(r, o) # FileOf(s, o)}

\* A registry write while another command is between its comparison and its
\* replacement.
Overwrites(p) ==
    IF \E q \in Proc \ {p} : At(q, "replace") THEN {"disturbed"} ELSE {}

Stage(p) ==
    /\ At(p, "commit") /\ Free(p) /\ txn = NoTxn
    /\ registry = run[p].base
    /\ \A o \in Touched(run[p].base, run[p].after) :
          agents[o] = FileOf(run[p].base, o)
    /\ txn' = [stage |-> "staged", before |-> run[p].base,
               after |-> run[p].after, stale |-> FALSE]
    /\ Go(p, "staged")
    /\ UNCHANGED <<registry, config, journal, agents, probed, mishaps>>
    /\ UNCHANGED User

Moved(p, from, to) ==
    /\ At(p, from) /\ txn # NoTxn /\ txn.stage = from
    /\ Go(p, to)
    /\ UNCHANGED <<config, journal, probed>>
    /\ UNCHANGED User

Publish(p) ==
    /\ Moved(p, "staged", "published")
    /\ LET touched == Touched(txn.before, txn.after) IN
       /\ \A o \in touched : agents[o] = FileOf(txn.before, o)
       /\ agents' = [o \in Role |-> IF o \in touched THEN FileOf(txn.after, o)
                                    ELSE agents[o]]
    /\ txn' = [txn EXCEPT !.stage = "published"]
    /\ UNCHANGED <<registry, mishaps>>

Link(p) ==
    /\ Moved(p, "published", "linked")
    /\ ~ txn.stale
    /\ txn' = [txn EXCEPT !.stage = "linked"]
    /\ UNCHANGED <<registry, agents, mishaps>>

\* A registry that is written after the last comparison is overwritten.
Swap(p) ==
    /\ Moved(p, "linked", "replaced")
    /\ registry' = txn.after
    /\ txn' = [txn EXCEPT !.stage = "replaced", !.stale = FALSE]
    /\ mishaps' = mishaps \cup Overwrites(p)
    /\ UNCHANGED agents

\* The committed record is durable; what it leaves behind any recovery removes.
Commit(p) ==
    /\ At(p, "replaced") /\ txn # NoTxn /\ txn.stage = "replaced"
    /\ txn' = NoTxn
    /\ IF run[p].owner # "none" THEN Go(p, "clear")
       ELSE IF run[p].order.command \in Journaled THEN Go(p, "done") ELSE Leave(p)
    /\ UNCHANGED <<registry, config, journal, agents, probed, mishaps>>
    /\ UNCHANGED User

Raise(p) ==
    /\ Busy(p) /\ run[p].at \in Stages
    /\ Go(p, "revert")
    /\ UNCHANGED <<registry, config, journal, agents, txn, probed, mishaps>>
    /\ UNCHANGED User

Reverts(p) ==
    /\ At(p, "engine") \/ At(p, "revert") \/ (At(p, "commit") /\ Free(p))
    /\ txn # NoTxn
    /\ UNCHANGED <<config, journal, probed>>
    /\ UNCHANGED User

\* Another command's transaction is running and its lock is not asked for.
Meddles(p) == IF At(p, "engine") /\ ~ Free(p) THEN {"disturbed"} ELSE {}

UndoRegistry(p) ==
    /\ Reverts(p)
    /\ txn.stage \in {"linked", "replaced"} /\ ~ txn.stale
    /\ registry' = txn.before
    /\ txn' = [txn EXCEPT !.stage = "published"]
    /\ mishaps' = mishaps \cup Overwrites(p) \cup Meddles(p)
    /\ UNCHANGED <<agents, run>>

BugRestoreFiles ==  \* leaves the files that were published
    UNCHANGED agents

\* Agent files that are neither the old nor the new ones are refused.
RestoreFiles ==
    LET touched == Touched(txn.before, txn.after) IN
    /\ \A o \in touched :
          agents[o] \in {FileOf(txn.before, o), FileOf(txn.after, o)}
    /\ agents' = [o \in Role |-> IF o \in touched THEN FileOf(txn.before, o)
                                 ELSE agents[o]]

\* The registry is verified before a file is restored, except by the process
\* that had published nothing.
UndoFiles(p) ==
    /\ Reverts(p)
    /\ txn.stage \in {"staged", "published"}
    /\ txn.stale => At(p, "revert") /\ txn.stage = "staged"
    /\ RestoreFiles
    /\ txn' = NoTxn
    /\ IF At(p, "revert") THEN Leave(p) ELSE UNCHANGED run
    /\ mishaps' = mishaps \cup Meddles(p)
    /\ UNCHANGED registry

\* A process that cannot restore the registry restores the files and keeps the
\* journal, which no recovery accepts from then on.
KeepJournal(p) ==
    /\ Reverts(p) /\ At(p, "revert") /\ txn.stale
    /\ RestoreFiles
    /\ Leave(p)
    /\ UNCHANGED <<registry, txn, mishaps>>

\* Nothing is left to recover at the head of a command.
Recovered(p) ==
    /\ At(p, "engine") /\ txn = NoTxn
    /\ Go(p, IF run[p].order.command \in Journaled THEN "recover" ELSE "read")
    /\ UNCHANGED <<registry, config, journal, agents, txn, probed, mishaps>>
    /\ UNCHANGED User

-----------------------------------------------------------------------------
(* Prepare and remove. *)

Plan(p, place, after) ==
    Become(p, [run[p] EXCEPT !.at = place, !.seen = config, !.base = registry,
                             !.after = after])

ReadPrepare(p) ==
    /\ At(p, "read") /\ Runs(p, "prepare") /\ Readable
    /\ LET v == run[p].order.provider IN
       /\ ~ Registered(registry, v)
       /\ config[v] = "absent"
       /\ Plan(p, "journal", Prepared(registry, v, run[p].order.auth, helper))
    /\ UNCHANGED <<registry, config, journal, agents, txn, probed, mishaps>>
    /\ UNCHANGED User

ReadRemove(p) ==
    /\ At(p, "read") /\ Runs(p, "remove") /\ Readable
    /\ LET v == run[p].order.provider IN
       /\ Registered(registry, v)
       /\ RolesOf(registry, v) = {}
       /\ config[v] = Expected(registry.providers[v])
       /\ Plan(p, "journal", Without(registry, v))
    /\ UNCHANGED <<registry, config, journal, agents, txn, probed, mishaps>>
    /\ UNCHANGED User

Wanted(r) == Expected(r.after.providers[r.order.provider])

Entry(r, phase) ==
    [action |-> r.order.command, phase |-> phase, provider |-> r.order.provider,
     config |-> IF r.order.command = "prepare" THEN r.order.auth
                ELSE r.base.providers[r.order.provider].auth,
     before |-> r.base, after |-> r.after]

WriteJournal(p) ==
    /\ At(p, "journal") \/ At(p, "applied")
    /\ journal' = Entry(run[p], IF run[p].at = "journal" THEN "preparing"
                                ELSE "applied")
    /\ Go(p, IF run[p].at = "journal" THEN "write" ELSE "commit")
    /\ UNCHANGED <<registry, config, agents, txn, probed, mishaps>>
    /\ UNCHANGED User

\* The App Server applies the write; the answer may not arrive.
WriteTable(p) ==
    /\ At(p, "write")
    /\ config = run[p].seen
    /\ config' = [config EXCEPT ![run[p].order.provider] = Wanted(run[p])]
    /\ Go(p, "check") \/ Leave(p)
    /\ UNCHANGED <<registry, journal, agents, txn, probed, mishaps>>
    /\ UNCHANGED User

CheckTable(p) ==
    /\ At(p, "check")
    /\ config[run[p].order.provider] = Wanted(run[p])
    /\ Go(p, "applied")
    /\ UNCHANGED <<registry, config, journal, agents, txn, probed, mishaps>>
    /\ UNCHANGED User

Done(p) ==
    /\ At(p, "done")
    /\ journal' = NoJournal
    /\ Leave(p)
    /\ UNCHANGED <<registry, config, agents, txn, probed, mishaps>>
    /\ UNCHANGED User

-----------------------------------------------------------------------------
(* The commands that read no journal. *)

\* A registry read, checked and copied by the other commands.
Reads(p, command) ==
    /\ At(p, "read") /\ Runs(p, command) /\ Readable
    /\ UNCHANGED <<registry, config, journal, agents, txn, probed, mishaps>>
    /\ UNCHANGED User

Draft(p, place, after) ==
    Become(p, [run[p] EXCEPT !.at = place, !.base = registry, !.after = after])

ReadGate0(p) ==
    /\ Reads(p, "gate0")
    /\ Gate0Accepts(run[p].order.provider)
    /\ Draft(p, "compare", Authenticated(registry, run[p].order.provider))

ReadConnect(p) ==
    /\ Reads(p, "connect")
    /\ LET v == run[p].order.provider
           o == run[p].order.role
       IN /\ registry.providers[v].qualified
          /\ registry.providers[v].state \in {"CAPABILITY_VERIFIED", "READY"}
          /\ registry.roles[o] = Unconnected
          /\ agents[o] = "absent"
          /\ Draft(p, "commit", Staged(registry, o, v))

ReadReady(p) ==
    /\ Reads(p, "ready")
    /\ LET o == run[p].order.role IN
       /\ ReadyAccepts(o)
       /\ Moves(registry.providers[registry.roles[o].provider].state, "READY")
       /\ Draft(p, "compare", MadeReady(registry, o))

ReadDisconnect(p) ==
    /\ Reads(p, "disconnect")
    /\ LET o == run[p].order.role
           role == registry.roles[o]
       IN /\ role # Unconnected
          /\ agents[o] = role.provider
          /\ Draft(p, "commit", Disconnected(registry, o))

ReadRetrust(p) ==
    /\ Reads(p, "retrust")
    /\ RetrustAccepts(run[p].order.provider)
    /\ Draft(p, "compare", Retrusted(registry, run[p].order.provider, helper))

ReadInvoke(p) ==
    /\ Reads(p, "invoke")
    /\ InvokeAccepts(run[p].order.role)
    /\ Draft(p, "attest", registry)

\* write_registry compares twice; nothing holds the file until it is replaced.
Compare(p) ==
    /\ At(p, "compare")
    /\ registry = run[p].base
    /\ Go(p, "replace")
    /\ UNCHANGED <<registry, config, journal, agents, txn, probed, mishaps>>
    /\ UNCHANGED User

Replace(p) ==
    /\ At(p, "replace")
    /\ registry' = run[p].after
    /\ txn' = IF txn = NoTxn THEN txn ELSE [txn EXCEPT !.stale = TRUE]
    /\ mishaps' = mishaps \cup Overwrites(p) \cup
                    IF txn # NoTxn THEN {"disturbed"} ELSE {}
    /\ IF Runs(p, "gate0")
          /\ run[p].after.providers[run[p].order.provider].state = "AUTH_READY"
       THEN Go(p, "probe") ELSE Leave(p)
    /\ UNCHANGED <<config, journal, agents, probed>>
    /\ UNCHANGED User

\* Gate 0 verifies the helper again and starts the model.
Probe(p) ==
    /\ At(p, "probe")
    /\ HelperTrusted(run[p].after.providers[run[p].order.provider])
    /\ Go(p, "probing")
    /\ UNCHANGED <<registry, config, journal, agents, txn, probed, mishaps>>
    /\ UNCHANGED User

\* The model ran the helper that is there and gave the signal.
Probed(p) ==
    /\ At(p, "probing")
    /\ LET v == run[p].order.provider
           record == run[p].after.providers[v]
       IN /\ probed' = probed \cup
                {<<v, IF record.auth = "user_helper" THEN helper ELSE record.trust>>}
          /\ Become(p, [run[p] EXCEPT !.at = "compare", !.base = run[p].after,
                                      !.after = Qualify(run[p].after, v)])
    /\ UNCHANGED <<registry, config, journal, agents, txn, mishaps>>
    /\ UNCHANGED User

\* Invoke reads the instruction and verifies the helper a second time.
Attest(p) ==
    /\ At(p, "attest")
    /\ LET role == run[p].base.roles[run[p].order.role] IN
       /\ agents[run[p].order.role] = role.provider
       /\ HelperTrusted(run[p].base.providers[role.provider])
    /\ Go(p, "launch")
    /\ UNCHANGED <<registry, config, journal, agents, txn, probed, mishaps>>
    /\ UNCHANGED User

BugLaunch(p) ==  \* does not read the registry again
    /\ At(p, "launch")
    /\ Go(p, "model")
    /\ UNCHANGED <<registry, config, journal, agents, txn, probed, mishaps>>
    /\ UNCHANGED User

Launch(p) ==
    /\ At(p, "launch") /\ Readable
    /\ registry = run[p].base
    /\ Go(p, "model")
    /\ UNCHANGED <<registry, config, journal, agents, txn, probed, mishaps>>
    /\ UNCHANGED User

-----------------------------------------------------------------------------
(* The user. *)

Edit(mishap) ==
    /\ <<edits + 1, swaps, beside>> \in Counts
    /\ edits' = edits + 1
    /\ mishaps' = mishaps \cup {mishap}
    /\ UNCHANGED <<registry, journal, txn, helper, run, probed, swaps, beside>>

EditTable ==
    /\ \E v \in Provider, table \in Auth \cup {"absent", "other"} :
          /\ config[v] # table
          /\ config' = [config EXCEPT ![v] = table]
    /\ Edit("table edit")
    /\ UNCHANGED agents

EditAgent ==
    /\ \E o \in Role, file \in {"absent", "other"} :
          /\ agents[o] # file
          /\ agents' = [agents EXCEPT ![o] = file]
    /\ Edit("agent edit")
    /\ UNCHANGED config

ReplaceHelper ==
    /\ <<edits, swaps + 1, beside>> \in Counts
    /\ \E content \in Helper \ {helper} : helper' = content
    /\ swaps' = swaps + 1
    /\ mishaps' = mishaps \cup
          IF \E p \in Proc : At(p, "probing") THEN {"swapped"} ELSE {}
    /\ UNCHANGED <<registry, config, journal, agents, txn, run, probed, edits, beside>>

-----------------------------------------------------------------------------
Step(p) ==
    \/ Start(p) \/ End(p)
    \/ Stage(p) \/ Publish(p) \/ Link(p) \/ Swap(p) \/ Commit(p) \/ Raise(p)
    \/ UndoRegistry(p) \/ UndoFiles(p) \/ KeepJournal(p) \/ Recovered(p)
    \/ Recover(p) \/ RollBack(p) \/ RolledBack(p) \/ Clear(p)
    \/ ReadPrepare(p) \/ ReadRemove(p) \/ WriteJournal(p) \/ WriteTable(p)
    \/ CheckTable(p) \/ Done(p)
    \/ ReadGate0(p) \/ ReadConnect(p) \/ ReadReady(p) \/ ReadDisconnect(p)
    \/ ReadRetrust(p) \/ ReadInvoke(p)
    \/ Compare(p) \/ Replace(p) \/ Probe(p) \/ Probed(p) \/ Attest(p) \/ Launch(p)

UserStep == EditTable \/ EditAgent \/ ReplaceHelper

Next == UserStep \/ \E p \in Proc : Step(p)

Spec == Init /\ [][Next]_vars

-----------------------------------------------------------------------------
(* Properties. *)

\* Under any interleaving of the commands and any lost update, the registry is
\* one its next reader accepts, and a provider is staged or ready only with a
\* role: an unreadable registry would block every command, and a provider left
\* at READY without a role could be neither qualified again nor told apart.
RegistryIsSound ==
    /\ Valid(registry)
    /\ \A v \in Provider :
          registry.providers[v].state \in {"RESTART_REQUIRED", "READY"}
          => RolesOf(registry, v) # {}

\* Under any interleaving and any lost update, a provider that roles may be
\* connected to is qualified, and passed Gate 0 with the helper that is trusted
\* now, unless the helper was replaced while the model of a Gate 0 ran it:
\* trusting another helper takes the qualification away, also while a Gate 0 is
\* running.
ProvenMeansProbed ==
    \A v \in Provider :
        registry.providers[v].state \in Proven =>
            /\ registry.providers[v].qualified
            /\ "swapped" \notin mishaps => <<v, registry.providers[v].trust>> \in probed

Settling == \E p \in Proc : Busy(p) /\ run[p].order.command \in Journaled

\* With no journal left and no command that works on one, every provider is
\* registered exactly if its table is there, once a transaction that was cut off
\* is recovered; wherever commands were cut off and recovered, unless two of
\* them overlapped, an update was lost, a registry that was not committed was
\* recovered on or written over, a running transaction was recovered without
\* its lock, or the user edited a table.
RegisteredIsConfigured ==
    journal = NoJournal /\ ~ Settling
    /\ mishaps \cap {"overlap", "disturbed", "table edit"} = {}
    => \A v \in Provider : config[v] = Expected(View.providers[v])

\* A journal that a cut-off command left can be recovered as long as no other
\* command has changed the registry since, before and after a transaction that
\* was cut off is recovered: there is a case for every place prepare, remove
\* and recovery itself may be cut off at.
RecoveryIsPossible ==
    journal # NoJournal /\ ~ Settling
    /\ mishaps \cap {"overlap", "disturbed", "table edit"} = {}
    => \A r \in {registry, View} \cap {journal.before, journal.after} :
          \/ Settled(journal, config, r)
          \/ HalfPrepared(journal, config, r)
          \/ HalfRemoved(journal, config, r)

\* A role has its agent file exactly while it is connected; while a transaction
\* is not committed, recovery of it accepts every file and leaves that.
\* Excluded are lost updates, a registry that was written over or recovered on
\* before it was committed, a running transaction recovered without its lock,
\* and files the user edited.
AgentsFollowRoles ==
    mishaps \cap {"disturbed", "agent edit"} = {} =>
        IF txn = NoTxn THEN \A o \in Role : agents[o] = FileOf(registry, o)
        ELSE /\ registry \in {txn.before, txn.after} /\ ~ txn.stale
             /\ \A o \in Role : agents[o] \in {FileOf(txn.before, o), FileOf(txn.after, o)}

\* A model is launched only for a role that is ready at that moment, on a
\* qualified and ready provider, although the checks were made on a registry
\* read long before; and its trusted helper passed Gate 0, unless the helper was
\* replaced while the model of a Gate 0 ran it.
LaunchIsAttested ==
    [][\A p \in Proc :
         At(p, "launch") /\ run'[p] # Idle /\ run'[p] # run[p] =>
            LET role == registry.roles[run[p].order.role]
                record == registry.providers[role.provider]
            IN  /\ role.state = "READY"
                /\ record.state = "READY" /\ record.qualified
                /\ "swapped" \notin mishaps => <<role.provider, record.trust>> \in probed]_vars

\* No command overwrites or removes a table that is not what the plugin writes:
\* a step of the plugin turns an absent table into its own or its own into an
\* absent one, also in a recovery of somebody else's journal.
ForeignTableIsKept ==
    [][\A p \in Proc, v \in Provider :
         run'[p] # run[p] /\ config'[v] # config[v] =>
            \/ config[v] = "absent" /\ config'[v] \in Auth
            \/ config[v] \in Auth /\ config'[v] = "absent"]_vars

=============================================================================
