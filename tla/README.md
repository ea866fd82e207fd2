# Codex-Orchestration in TLA+

Specifications of the program in `src/`, model-checked with TLC on small instances and, where
it matters most, proved with TLAPS for every instance. Paths below are relative to
`src/plugins/codex-orchestration/skills/codex-orchestration/scripts/` unless they start with
`src/`.

## 1. The system

Codex-Orchestration is a plugin of command-line programs and one server. Nothing runs in
threads over shared memory, except the readers of child processes: what makes it hard is that
several programs write the same files of the user, that each write is a sequence of system
calls that may stop anywhere, and that the user edits the same files.

| Part | State | Operations | Hard behaviour |
|---|---|---|---|
| File transaction engine (`configure_orchestration.py` 1789-3199) | destination files, three temporaries per file, a journal and its pending file, a lock on the root directory | `apply_changes_transactionally`, `recover_incomplete_transaction` | crashes between any two steps, raising calls, power loss, recovery of an interrupted recovery, the user editing meanwhile |
| Role-file configurator (the rest of `configure_orchestration.py`) | role files, `config.toml` | preview, apply, remove, migrate legacy tables | the change set is computed before it is applied |
| External provider and role lifecycle (`external_configurator.py`) | registry, provider table of Codex, role files, provider journal | prepare and remove a provider, Gate 0, connect, disconnect, retrust, resolve, invoke | a journal of its own, the registry written by several commands, a long process between two writes, transactions that were cut off and that half of the commands do not recover |
| Role registry (`external_registry.py`), readiness (`external_readiness.py`) | one file; a readiness state per role | compare-and-replace write; transition table | lost updates, stale fingerprints |
| Credentials, authentication helper, CLI trust, subscription, provider catalogue | keychain entries, digests | read, verify | none of their own: they accept or refuse |
| Native routing (`configure_native_routing.py`, `routing_state.py`) | configuration held by the app server, saved routing state | setup, status, repair, disable | two stores written one after the other, concurrent sessions, overrides that hide a write |
| Advisor MCP server (`fable_advisor_mcp.py`) | review sessions, a child process tree | `consult`, `review_plan`, the request loop | retries of a round, limits, timeouts, process teardown |
| Model inspection (`inspect_models.py`) | none | one query | none |
| Repository scripts (`src/scripts`) | git hooks path, release files | attestation, release check, preflight, hooks | the rollback of a failed hook installation |

How they interact: the configurator, the lifecycle and native routing are separate processes
that share files. The lifecycle calls the transaction engine for its role files and registry, and
recovers the engine's transactions at the head of prepare, connect, disconnect and remove
(`external_configurator.py` 449, 1122, 1367, 1433, without the lock) but not of the other commands. It
writes one table of the user's Codex configuration through the app server. Native routing talks
to an app server child over JSON-RPC, which replaces the user layer only if it still has the
version the caller read, and keeps its own state file beside it; no lock covers the two. The MCP
server reads native routing's saved state to validate the model it runs.

What makes each correct:

- *transaction engine*: all files old or all new once nothing is in progress; no original lost;
  a commit never taken back; no file of the user overwritten; recovery always ends;
- *lifecycle*: a role is invoked only if the registry, the provider table, the credentials and
  the role file agree; an interrupted preparation is rolled forward or back, never half; a
  provider is qualified only by a Gate 0 with the helper it trusts now;
- *native routing*: the saved state describes the configuration that is in effect, or its
  absence; it holds the values of the user, never those of the plugin, and a failed setup
  restores what it replaced;
- *MCP server*: a plan is approved only by an accepted answer without blockers, never because a
  limit was reached; every child process is gone when a call returns.

`PROJECT.json` lists the hazards one by one with their lines.

## 2. Modules

`FileTransaction` is the core, for one configurator at a time; its control is `pc`, one label per system call or group of
checks, named after the code:

| Labels | Code |
|---|---|
| `recStart` .. `dropSync` | `recover_incomplete_transaction`, `_cleanup_journal_temporaries`, `_remove_transaction_journal` |
| `plan` | the change set and the checks on it (2790-2882) |
| `jStage`, `jSwap`, `jSync` | `_write_transaction_journal`, for each of the three phases |
| `stage`, `register`, `source`, `stageSync` | 2887-2984 |
| `pubCheck`, `pubDrop`, `pubLink`, `pubLinked`, `pubReady`, `pubSwap`, `pubVerify`, `pubUnlink`, `pubUnlinked` | 2986-3045, `_link_original_tombstone`, `_replace_staged_atomically`, `_move_original_to_tombstone` |
| `final`, `doneTomb`, `doneSync`, `dropOwned` | 3047-3107 |
| `handler`, `rbEntry`, `rbAct`, `rbSync` | the except clause, 3109-3195 |
| `finally` | the finally clause, 3196-3199, when an error left the except clause and nothing is preserved (`Escape`) |

The disk is a binding of four names per file (destination, new, old, tombstone) to inodes,
because the code reasons by inode identity: `orig` is what the plan found, `new` its
replacement, `old` the backup copy, `ph` the placeholder of the tombstone, `user` a file put
there by somebody else. Contents and metadata are abstracted to "changed since" (`dirty`).
`surv` and `jsurv` keep, per directory, the states since its last sync: a power loss brings
back one of them. Every step may instead raise (`Fail`), be killed (`Crash`) or, when
`PowerFails`, lose power (`PowerLoss`); the user may edit in place, replace, delete or create a
destination, or sweep away a tombstone.

`AtomicUpdate` is what the engine promises: a set of files goes from old to new as one. The
journal phase gives its status, the destinations its view; `ImplementsAtomicUpdate` says every
behaviour of the engine is one of it. `MCFileTransaction` is the instance for TLC;
`FileTransactionProofs` proves the control, `FileAtomicityProofs` what happens to the files.

`ConcurrentConfigurators` runs several processes over one root, each the path of one command:
look for a journal, recover it (`Start` .. `Drop`), compute the change set without the lock
(`Plan`), take the lock without waiting (`Acquire`, a refused process gives up), recover again
and apply (`Check` .. `Rollback`). The processes of `external_configurator.py`, in `Unlocked`,
recover first and without the lock. A version of a file is named after the process that wrote
it, which stands for both its contents and its inode; a process keeps in memory what its change
was computed from (`seen`) and the journal it recovers from (`snap`). The steps of one
transaction are coarser than in `FileTransaction`: a check and the call after it are one step,
directories are durable, every entry is an update, and recovery's backup copy, needed only when
somebody else removed a tombstone, is left out. In return the interleavings of whole processes
are small enough to check. Processes that die release the lock, as the kernel does for `flock`.
It implements `AtomicUpdate` too, with the view relative to the process whose change is in hand.

`ReviewSession` is the bounded plan review of `fable_advisor_mcp.py` (1480-1984). The server
serves one request at a time, so a review is two steps: `Submit` checks a request and reserves
an attempt (`_validate_review_request`, `_reserve_review_attempt`), then the running `call` ends
with `Commit` (a valid answer, its stop rules and the update of the stored session) or with
`Fail` (a failed call, or an answer refused for any reason). `Restart` may come at any point and
forgets `sessions`, the dictionary `_REVIEW_SESSIONS`; a caller may still present what the old
server issued. `chain` and `launched` are histories, the accepted rounds and the launched
requests, from which the properties recompute what the stored state should say. A request hash
is the request, an attestation a fresh number, a text its length; findings are identifiers, and
whether an answer justifies a new one is left to `Fail`. The code checks `terminal` twice on the
same path, the model once. The branch for a spent budget that is not terminal (1612-1614) is in
`Reserve` and cannot be reached: `HaltsExactly` says why.

`NativeRouting` is setup, repair and disable of `configure_native_routing.py`, in any number of
processes, against the user layer held by the app server (`user`) and the routing state file
(`state`). Each process is at one place (`run[p].at`) of the path through `main`, `_repair` or
`_disable`, and carries what it read there: the layer and its version, the old state, the new one.

| Actions | Code |
|---|---|
| `Start`, `Decide`, `Stop` | `main` up to the write: layer read, state read, decision; every refusal and dry run |
| `Write`, `WriteUnanswered` | `_batch_write`, answered with ok or okOverridden, or applied and never answered |
| `Save`, `SaveFails` | `_write_state`, which first reads the file it replaces, and the rollback it triggers |
| `Verified`, `Overruled`, `Checked` | the readback of setup and of repair |
| `Undo`, `UndoFails`, `Withdraw`, `Unsave` | the three rollbacks, of the layer and then of the state; `Unsave` writes back the old state (2516) with what setup has added to it |
| `Remove`, `StateStays` | the end of disable, `_remove_state` |
| `EditHint`, `EditControls`, `EditLauncher`, `GrowTable`, `PutBack` | the user, in the same layer |

What the plugin decides and computes are operators, not actions: `SetupAllowed`, `RestoreData`,
`Prepared`, `Reinstated`, `Installed`, `RolledBack`, `RepairAllowed`, `DisableAllowed`, `Disabled`
translate `_prepare_setup_state`, `_repair` and `_disable` branch by branch, `Valid` the cross-field
rules of `validate_routing_state`, `Status` what `--status` reports. `Readable` is `Valid` of a file
that is there: every command that reads, replaces or removes the state file validates it first and
is refused if it is not. `Reinstated` is the old state after `_prepare_setup_state` has run: that
copies the restore data shallowly (1647), so the launchers' part (1800), if there is one, is shared by
the old and the new state, and 1831 adds to both. A hint is one of a few texts, with or
without the plugin's marker; spawn metadata and tool namespace, which are set, compared and
restored together, are one field; the feature may be a boolean, which setup converts to a table and
disable converts back. A layer is its own version, so a layer that is changed and changed back
passes for unchanged: the real server would refuse, and the model only allows more. `mine` is a
history, the layer as it would be without the plugin: an edit of the user goes to it unless the
plugin holds that field. `edited` says that a held field is as the user changed it, `clean` that there
was no mishap: no command started beside another; no setup or disable was killed between its write of
the layer and its end, except in the readback; no write or rollback of a setup or a disable went
unanswered or was refused; the disk did not fail after the state file was replaced; and no state file
stayed that was to be written back or removed.

`ExternalLifecycle` is `external_configurator.py`: prepare, remove, Gate 0, connect, ready,
disconnect, retrust, invoke and recover, in any number of processes. Its state is the registry
file, the provider tables of the user's configuration, the provider journal, the agent files, the
transaction of the file engine that is not committed (`txn`) and the user's credential helper; `run[p]` is the command a process runs, with the registry it read
(`base`), the one it is about to write (`after`) and the configuration it names as version (`seen`).

| Actions | Code |
|---|---|
| `UndoRegistry`, `UndoFiles`, `Recovered` | `recover_incomplete_transaction` at the head of prepare, remove, connect and disconnect, without the lock |
| `Stage`, `Publish`, `Link`, `Swap`, `Commit` | `apply_changes_transactionally`: journal and temporaries, agent files, tombstone of the registry, registry, committed record |
| `Raise`, `UndoRegistry`, `UndoFiles`, `KeepJournal` | its except clause |
| `Recover`, `RollBack`, `RolledBack`, `Clear` | `recover_provider_transaction`, at the head of prepare and remove and as a command; the remove it finishes is a transaction |
| `ReadPrepare`, `ReadRemove`, `WriteJournal`, `WriteTable`, `CheckTable`, `WriteJournal`, a transaction, `Done` | `prepare_provider`, `remove_provider` |
| `ReadConnect`, `ReadDisconnect`, a transaction | `connect_role`, `disconnect_role`: registry and agent file |
| `ReadGate0`, `Compare`, `Replace`, `Probe`, `Probed`, `Compare`, `Replace` | `run_gate0`: registry, verification of the helper, the model that runs it, registry |
| `ReadReady`, `ReadRetrust`, `Compare`, `Replace` | `mark_role_ready`, `retrust_user_helper`, `write_registry` |
| `ReadInvoke`, `Attest`, `Launch` | `resolve_role`, then `invoke_role` |
| `End` | any refusal, exception or kill: nothing is cleaned up |
| `EditTable`, `EditAgent`, `ReplaceHelper` | the user |

`Moves` is the transition table of readiness, as far as commands use it. A transaction of
the file engine is cut where another command can see it: it is staged, its agent files are published,
the registry has a second link (which `_safe_existing` of `external_registry.py` refuses: `Readable`),
the registry is replaced, it is committed. At each of these the process may be killed, or raise and
roll back, another command may read or write the registry, and recovery may come, without the lock or
under it; a check and the call it guards are one step, as in `ConcurrentConfigurators`. A `stale`
transaction is one whose registry another command has written since: engine recovery refuses it.
`write_registry`, which uses no transaction, is two steps (`Compare`, `Replace`), so that two writers
may both compare before either replaces. `View` is the registry that recovery of the transaction
would leave. Reads that a command makes one after the other, with nothing written in between, are one step: what
it writes afterwards is refused by version or digest if what it read has changed, and invoke reads
the registry again before the launch. A digest stands for what it digests, timestamps are left out,
a registry that was never written is the empty one, a table is its kind of authentication, and an
agent file the provider it pins. `probed` is a history of the providers and helpers that passed
Gate 0. `mishaps` records what the code does not defend against: "overlap", two journaled
commands at once; "disturbed", a registry written between comparison and replacement of another
write, one that is not committed decided on by provider recovery or written over, and a running
transaction recovered without its lock; "swapped", a helper replaced while the model of a Gate 0 runs
it; and edits of tables and agent files.

The proofs are in modules of their own: `<module>Proofs`, and `NativeRestoreProofs` and
`ExternalJournalProofs` for the invariants that need a second argument.

## 3. Runs

| Run | Bounds | Shows |
|---|---|---|
| `crash` | 2 files, 3 faults (crash or raise), no user | `ImplementsAtomicUpdate`, `CommitIsFinal`, `OriginalSafe`, `RecoveryAccepts`, `NothingLeftBehind`, and under fairness `Recovers` |
| `hostile` | 2 files, 2 user steps, 1 fault: power loss, unregistered files and escaping errors included | `TypeOK`, `AllOrNothing`, `CommitIsDurable`, `UserDataKept` |
| `torn` | 2 files, 3 faults, power loss included | `AllOrNothing` fails, see below |
| `swept` | 1 file, 2 faults, errors may escape the except clause | `OriginalSafe` fails |
| `locked` | 3 processes with the lock, 2 files, 2 faults | `TypeOK`, `FilesAgree`, `OwnJournal`, `NoLostUpdate`, `ImplementsAtomicUpdate` |
| `unlocked` | a process with the lock, one of `external_configurator.py`, 2 files, no faults | `FilesAgree` fails |
| `rounds` | 2 sessions, room for 1; 4 rounds, 4 attempts, 3 findings of which 2 may be kept, 2 plan lengths, 2 scopes, 4 attestations, restarts | `TypeOK`, `Chained`, `Replays`, `Bounded`, `Halts`, `NeverStuck`, `Final` |
| `ledger` | the same with a tighter limit on a request | `NeverStuck` fails |
| `routing` | 2 processes, 3 seat settings (none of Claude, Fable, Opus), 2 launchers, 2 marked texts and 1 of the user, 2 first layers; one command beside another or up to 2 edits; kills, unanswered writes, failing state file | `TypeOK`, `OnlyReinstatedIsRefused`, `PolicyIsNeverRestored`, `OriginalsAreSaved`, `LayerAndStateAgree`, `UserTextIsKept`, `RepairIsNarrow` |
| `silence` | 1 process, 1 launcher, unanswered writes only | `OldTextIsRetained` fails |
| `aliased` | 1 process, 2 launchers, no faults | `EverySavedStateIsRead` fails |
| `lifecycle` | 2 processes, 1 provider with a user helper, 2 roles, 2 helpers; one edit, one helper replaced, or one command beside another | `TypeOK`, `RegistryIsSound`, `ProvenMeansProbed`, `RegisteredIsConfigured`, `RecoveryIsPossible`, `AgentsFollowRoles`, `LaunchIsAttested`, `ForeignTableIsKept` |

Two files are enough for a mixture of old and new, and every combination of update, create and
delete of the two is an initial state. Three faults allow a raise, a kill in the rollback it
causes, and a kill in the recovery of that. Two user steps allow an edit and its undoing, or
one on each file. Three processes allow a change set computed before another process commits and
applied after a third has recovered something. Processes that take the lock are interchangeable,
so `locked` uses symmetry; it checks no liveness. In `rounds` four rounds are the fewest in which
the rule over two consecutive rounds fires before the last; plan lengths 4 and 6 make growth of
more than a quarter and shrinking; two findings kept allow a round that closes one and adds
another, and a third can be refused; one place for two sessions fills the capacity; a caller
raises the version by one (`MaxRaise`), and `MaxIssued` bounds the accepted rounds over all
restarts. Sessions, scopes and findings are only compared, which is why symmetry is sound. The
server rests when its caller stops asking, so these runs do not check deadlock.

`routing` has 2.8 million states and `lifecycle` 3.6 million. Commands one after the other are
unlimited in both; only edits, replaced helpers and commands that start beside another are counted, because each of
them doubles what there is to explore. Two processes are enough for every race of one command with
another: a command's decision depends on the layer or registry it read and on whether that has
changed, not on how many others changed it. The three seat settings are those between which
`_guard_subscription_transition` tells apart; the two first layers are a boolean feature and a
table in which the user has set everything the plugin writes; the second launcher is one the user may
set after a setup that did not find it. In `lifecycle` the second role is
the one that remains when the first is disconnected, and the second helper the one that is not
trusted. Two providers, the other kind of authentication, and a helper replaced while one command runs
beside another would take too long to repeat on every check; the theorems of section 4 cover them.

Fairness: `FairSpec` is weak fairness of the program's steps together. It says that the
operating system runs the configurator and that somebody runs it again after a crash; faults
and the user get none.

What the violations mean:

- `torn`: an in-process rollback removes a created file (3152) and is killed before it syncs the
  directory (3158). The next recovery finds the file absent and, unlike every other branch, does
  not add its directory to those it syncs (2693-2702). It then removes the journal and syncs
  that. A power loss now brings the created file back next to files restored to their old
  contents, with no journal left to resolve it.
- `swept`: a call raises after a file was moved to its tombstone, and the except clause, about to read
  the durable phase, raises as well: `journal.read_text` (2223) fails with an `OSError`, which 3113
  does not catch, or the user interrupts. `preserve_staged` is still false, and the finally clause
  (3196-3199) unlinks whatever `staged_paths` holds, the backup and the tombstone with the only
  copies of the old contents among them, although the journal says "prepared". Recovery refuses from
  then on. `OriginalSafe`, `RecoveryAccepts` and `Recovers` are therefore checked and proved for
  `Escapes = FALSE`; everything else holds for both.
- `unlocked`: one process reads the journal while it says "preparing"; the holder of the lock
  goes on to "prepared" and replaces its first file; the other then removes the temporaries, as
  for an unfinished staging any regular file may go (2493), and the journal. The holder's next
  entry fails, its except clause finds no journal (2218) and stops without a rollback. One file
  is new, the other old.
- `ledger`: the documentation says that the cap of 500 identifiers keeps every accepted round
  representable in the next ledger. The cap counts identifiers; the limit of 1541 is on the
  characters of the whole request, which repeats the immutable scope and must list every
  identifier. With a scope near the limit an accepted round leaves its session open, and no next
  request can be accepted.
- `silence`: setup is told to replace a hint of the user. The app server applies the write but
  answers after the time limit; the request raises (499-541) outside every rollback (2428), and the
  state, which would hold the old text, is only written at 2457. The layer has the policy, and no
  file has the text that the documentation promises to retain. The next setup finds its own marker
  and records the hint as missing.
- `aliased`: a setup with a Claude seat turns its launcher on, and the user turns on another one. A second
  setup, without Claude, turns off both, and is withdrawn because its readback finds the policy not
  effective in the workspace. The message (2526) says that the prior restore state was reinstated. But
  the old state that 2516 writes back shares the dict of launchers with the new one (1647, 1800), and
  1831 has added the launcher of this setup to it.
  Its restore data now names a launcher that its managed part does not, `validate_routing_state`
  (329-333) refuses it, and so do setup, repair, disable and `--status`, until the user repairs or
  removes the file. `OnlyReinstatedIsRefused`, checked and proved, says that this is the one way to
  such a state. The mismatch is of the launchers alone: in everything else the state is the old one.

Further behaviours were found and have no run. Three are about the file engine.

A check on a staged file may raise (2907-2913) before `staged_paths` knows the file (2914): the
rollback removes the journal, and the temporary stays for ever (`NothingLeftBehind` with
`LateFaults = TRUE`).

Between a check and the call it guards nothing keeps the user away. Recovery sees that a created
file is the transaction's own and then unlinks the destination (2694-2695); when the user saves
another file there in between, it is that file which goes. With `Racy = TRUE`, `UserDataKept` fails
in this way; the same gap precedes the replacing calls of publication (1916-1963), rollback (3152)
and `_restore_original_from_tombstone` (2015). The passing runs have `Racy = FALSE`.

The committed journal may be renamed and the process killed before the root is synced (2196-2197). Recovery reads "committed", removes the tombstones
and syncs their directories (2703-2714), but not the root. A power loss can then bring back the
"prepared" journal, whose tombstones are gone: recovery refuses from then on. With
`MaxFaults = 2` and `PowerFails`, `RecoveryAccepts` and `OriginalSafe` fail this way, which is why
these two are checked without power loss.

One is about native routing: disable restores the layer (2182) and then removes the state (2187). If it
is killed in between, the state stays without its fields, and setup, repair and disable all refuse until
the user puts the fields back or removes the file. `LayerAndStateAgree` leaves it out, as `clean` is
false from then on.

The others are about the external lifecycle:

- `recover` (1856), Gate 0, ready, retrust and invoke do not recover a transaction of the file engine. A
  prepare killed after the registry was replaced and before the committed record (3076) leaves a
  registry that is there and not committed. `recover` takes the prepare for finished and removes the
  provider journal (308-310); the next prepare, remove, connect or disconnect recovers the transaction
  and puts the old registry back: a table is left without a record and without a journal.
- A connect or disconnect may be cut off there or before. If Gate 0, ready or retrust then writes the
  registry, engine recovery finds neither the old nor the new one and refuses, and with it prepare,
  remove, connect and disconnect, for good; agent files and roles may be left apart. These two are the
  mishap "disturbed".
- While the registry has the second link of its tombstone, no reader accepts it: after a kill there,
  Gate 0, ready, retrust, invoke and `recover`, if it has a journal to recover, refuse until one of
  the other four has run engine recovery. This is only a refusal, which the properties allow.
- Gate 0 verifies the helper (1009) and then has a model run it for up to 180 seconds (1029-1051). A
  helper that is replaced meanwhile passes Gate 0 in place of the trusted one, and when the trusted one
  is put back it is launched although it never passed. `ProvenMeansProbed` and `LaunchIsAttested`
  exclude this by the mishap "swapped".
- Gate 0, connect, ready, disconnect and retrust do not look for a provider journal. One of them
  after a prepare or remove that was cut off changes the registry, recovery knows neither digest
  (349), and prepare, remove and recover refuse from then on. `RecoveryIsPossible` is therefore
  about a registry nobody else changed.
- Two prepares or removes that overlap recover, overwrite and remove each other's journal (302). If
  one is then cut off, a table stays without a record and without a journal.
  `RegisteredIsConfigured` excludes this by the mishap "overlap".
- `write_registry` compares the registry twice but holds nothing between the second comparison and
  `os.replace` (299-300). An update made in between is lost; an agent file can then be left without
  its role. The registry is sound all the same (`RegistryIsSound` has no such exception).
- After a retrust and another Gate 0 the roles of a provider are still ready and the provider is
  only verified: no role resolves until some role of that provider is connected or disconnected.
- `external-models.md` (112-114, in the skill's `references`) says that existing roles stay blocked until a new role
  is validated or disconnected. With one ready and one new role, a retrust, a Gate 0, and a third
  role connected and made ready make the provider ready (1236-1240): the first role resolves again
  although the second was neither validated nor disconnected.
- The provider journal is renamed into place without a sync of its directory (265). A power loss may
  leave a table with neither record nor journal.

## 4. Proofs

`FileTransactionProofs` proves, for any number of files, user steps and faults (assumption
`ConstantsAssumption` only):

- `TypeCorrect`: `Spec => []TypeOK`;
- `CommitFinal`: `Spec => CommitIsFinal`;
- `CommitDurable`: `Spec => []CommitIsDurable`.

None of them holds by itself step by step: that a restoring rename never runs after the commit
depends on where control is. The inductive invariant `IInv` adds to `TypeOK` that `cur` is an
entry wherever it is used as one (`IndexInv`) and which journal phase each label implies
(`PhaseInv`): recovery and rollback restore only under "prepared", publication runs only under
"prepared", and the journal goes through its phases in order. There is one lemma per action, and
the last steps combine them. `DurabilityInv` is about `surv`, the states a power loss may bring
back: once the commit is sure, they are all new.

`FileAtomicityProofs` extends it to the files, for any number of them:

| Theorem | Property | Hypothesis |
|---|---|---|
| `AtomicFiles` | `AllOrNothing` | power is lost only as the first fault |
| `OriginalBytesSafe` | `OriginalSafe` | the same, and `Escapes = FALSE` |
| `RecoveryIsAccepted` | `RecoveryAccepts` | the same, and `Escapes = FALSE` |
| `FilesAreSafe` | all three | `Escapes = FALSE`, and `PowerFails = FALSE` or `MaxFaults <= 1` |
| `NothingIsLeft` | `NothingLeftBehind` | `PowerFails = FALSE`, `LateFaults = FALSE` |
| `Refinement` | `ImplementsAtomicUpdate` | `PowerFails = FALSE`, `MaxMoves = 0` |
| `UserFilesKept` | `UserDataKept` | `Racy = FALSE` |

The first three are about the behaviours of `LossFirst`, which is `Spec` with
`[][PowerLoss => faults = 0]_vars`: power may be lost at any step, at rest, in a transaction, in a
rollback or in a recovery, as long as nothing was killed, raised or lost before; what follows may be
killed and may raise any number of times. `FilesAreSafe` restates them of `Spec` itself where the
constants leave no other behaviours, as in the run `crash`.

Each hypothesis excludes something that does violate the property. When power is lost after
another fault, TLC finds `AllOrNothing` violated (`torn`), and `RecoveryAccepts` and
`OriginalSafe` (section 3). `NothingLeftBehind` falls to a recovery killed between the removal of a
temporary and the sync of its directory: the next one sees nothing to remove and syncs nothing, and
a power loss after the journal is gone brings the temporary back. `swept` shows the need for
`Escapes = FALSE`, section 3 that for `LateFaults = FALSE` and `Racy = FALSE`, and `AtomicUpdate` has
no steps of the user. Errors, kills at any step, repeated recoveries and, where moves are not
excluded, the user are unlimited in all of them. So the theorems also say that a power loss after
another fault is the only cause of `torn`, and an error that escapes the except clause, without such a
loss, the only one of `swept`. What such an error cannot do is in `AtomicFiles`, `NothingIsLeft` and
`Refinement`, which have no hypothesis on `Escapes`.

The argument: `StagingInv` (in `FileTransactionProofs`) ties what the configurator remembers, the temporaries and backups
it staged, to the disk. `FilesInv` says where the files are at each phase of the
journal: untouched under "preparing"; under "prepared" each is old or can be undone
from its backup (`Undoable`), with the entries before `cur` already published or already restored
according to the label (`PublishFiles`, `UndoFiles`); new under "committed"; with no journal,
all old or all new. Files the user touched are excluded one by one (`Ours`), which is what lets
the invariant survive him. `TombstoneInv`, needed only while the user did nothing, says in
which of two places an original is, so that recovery finds one of the cases it accepts.
`CleanInv` accounts for every temporary: it is known to the process or named in a journal, and
recovery's walk leaves none behind it. `GapInv` carries the outcome of a check to
the call after it: what the call takes away is none, or the program's own file as it wrote it.

What a power loss brings back is a choice of one state per directory, and of a journal, from `surv`
and `jsurv`. `LossInv` says of all of these, as long as there was no fault, what `FilesInv` says of
the files as they are: every state of every directory fits every journal that may come back with it
(`PhaseLoss`, `JournalLoss`), so any choice satisfies `FilesInv` again (`PowerLossFiles`). What makes
it inductive is which entries are not only old but sure to come back old (`SureOld`): those
publication has not reached, those a rollback has restored and synced (`UndoneSure`), and those
recovery has restored or not needed to, except for the directories it will sync in the end
(`RecoverLoss`). Recovery does not sync the directory of a created file that is already gone, which
is safe only because whoever removed it synced it; a recovery killed before its sync breaks just
this, and `torn` goes on from there. `SureTombstones` is the counterpart for `RecoveryAccepts`.

For the refinement, `ViewOf` computes the abstract view from the phase, and one lemma per action
shows a step of `AtomicUpdate` or a stutter.

`ConcurrentConfiguratorsProofs` proves, for any number of processes, files and faults, and from
the assumption that every process takes the lock (`Unlocked = {}`, the very thing the run
`unlocked` lacks):

- `Typed`, `Exclusive`, `Agreement`, `NoneLost`: `Spec => []P` for `TypeOK`, `OwnJournal`,
  `FilesAgree` and `NoLostUpdate`;
- `Refinement`: `Spec => ImplementsAtomicUpdate`.

The argument: the holder of the lock is the only process whose step touches files or journal
(`LockInv`), so the invariants of all others are vacuous (`Idle`, `HolderStep`). `OwnInv`,
`WriteInv` and `FileInv` say, label by label, which journal the holder finds and which files are
still, or again, as they were. `Settled` is what counts: the originals of a prepared journal, or
else the files. `HistoryInv` says that what counts was written by one committed process, and that
no committed change was computed from it; only the commit changes it (`CommitHistory`). Without a
journal what counts is the files, so they agree. `EarlyInv`, nobody has seen anything of a process
that has not written, is what makes the new contents of a commit differ from all earlier ones,
and what lets an abstract update begin with every file old.

`ReviewSessionProofs` proves, for any number of sessions, findings, rounds, attempts and
restarts:

- `Typed`, `ChainHolds`, `OneRequest`, `HaltsExactly`, `BoundsHold`: `Spec => []P` for `TypeOK`,
  `Chained`, `Replays`, `Halts` and `Bounded`;
- `OverIsFinal`: `Spec => Final`;
- `NotStuckWithRoom`: `Spec => []NeverStuck`, if the longest ledger fits beside the scope and
  some plan (`RoomForLedger`), which is what the run `ledger` lacks.

The argument: `Good` ties what is stored of one session to its histories. The stored state
summarises the chain (`Summary`), a waiting request is the next in line (`Waiting`), the attempts
are the launches and the last of them are for the waiting request (`Tries`), and `terminal` is
the verdict recomputed from the histories (`Verdict`). One lemma per step shows `Good` for the
session it changes (`GoodLaunch`, `GoodFail`, `GoodCommit`), and `OneSession` that the others are
left alone. The counter of non-converging rounds need not be known exactly: that it is positive
exactly after a churning round is enough for the rule over two rounds.

`NativeRoutingProofs` proves, for any processes, seat settings, launchers, texts, edits and faults,
from the assumptions that a seat setting has marked policy texts (`SeatsHavePolicies`), that texts
with and without the marker differ (`TextsAreDistinct`) and that the bounds are numbers:

- `TypeCorrect`, `PolicyNotRestored`: `Spec => []P` for `TypeOK` and `PolicyIsNeverRestored`;
- `SavedStatesAreRead`, `UserTextKept`, `RepairNarrow`: `Spec => P` for `OnlyReinstatedIsRefused`,
  `UserTextIsKept` and `RepairIsNarrow`.

The argument: a state is good (`GoodState`) if the next command accepts it and no text of the plugin
is saved in it as the user's, and fair (`FairState`) if it may be refused for its launchers. The file
holds a fair state or none, and as every command validates it before it works with it, the old and new
state of each command are good (`GoodRun`); `PreparedIsGood` shows that setup makes good states of good
ones, and that the new one keeps the restore data of every launcher of the old one. So what `Reinstated`
makes of the two differs from the old state in further launchers only: it is fair, and good again with
the old state's launchers. The
two properties about hints need that a write was decided on the very layer it replaces: the place "write"
keeps the decision together with the layer it names as version, and the places of the rollbacks keep
that the layer they name has the marker.

`NativeRestoreProofs` proves, from the same assumptions:

- `OriginalsSaved`, `LayerAgrees`: `Spec => []P` for `OriginalsAreSaved` and `LayerAndStateAgree`;
- `TextRetained`: `Spec => [](clean => OldTextIsRetained)`. `silence` violates `OldTextIsRetained` by
  an unanswered write; without one, a kill or a command beside another, it holds.

The argument: while `clean`, at most one command is under way, and at each of its places one state is
the one whose fields are in the layer (`Holder`): the saved one, the one setup has yet to save, the
one it goes back to, or none once disable has restored the layer. `Rest` ties that state, the layer
and the layer the user would have without the plugin (`mine`); it is preserved by edits,
because an edit goes to `mine` unless the field is held. A setup that may still be rolled back
also knows what it replaced (`Before`): the user's layer, or that of the setup it follows. The state a
rollback writes back still rests on the layer, as what was added to it is saved as the user has it
(`ReinstatedRests`). Lemmas
about what the plugin computes (`Installed`, `RolledBack`, `Disabled`, the repair) take `Rest` from
the layer it read to the one it writes.

`ExternalLifecycleProofs` proves, for any processes, providers, roles, helpers, kinds of
authentication and bounds:

- `TypeCorrect`, `RegistryStaysSound`, `ProvenProvidersWereProbed`, `AgentsAlwaysFollow`:
  `Spec => []P` for `TypeOK`, `RegistryIsSound`, `ProvenMeansProbed` and `AgentsFollowRoles`;
- `LaunchAttested`, `ForeignTablesAreKept`: `Spec => LaunchIsAttested` and
  `Spec => ForeignTableIsKept`.

The argument: a registry is good (`Good`) if its readers accept it, its staged and ready providers
have roles, and its proven providers passed Gate 0 with the helper they trust; once a helper was
replaced while a Gate 0 had it run, every helper counts as passed (`Passed`), which leaves the rest of
the claim in force. The invariant is that every registry in sight is good (`RegistriesAreGood`): the
file, the old and new one of the transaction, and what each command read and is about to write. One
lemma per command shows that it makes good registries of good ones; no lemma needs the registry on disk
to be the one that was read, and this is why neither a lost update nor a recovery at the wrong moment
can make it unsound. That the helper which passes is the one the record trusts is an invariant of its own
(`SInv`): at "probing" it is still the one that was verified, or the mishap is noted. Commands about to
write a table know its kind (`Planned`), and invoke keeps what it attested (`Attested`) until the launch
finds the registry unchanged. Agent files need a second invariant (`FInv`): unless something disturbed
them, the stage of the transaction says which files and which registry are there (`FilesThere`,
`RegistryThere`), what Gate 0, ready and retrust are about to write pins every role as the registry they
compared does (`Drafted`), and the registry a replacement meets is the one that was compared (`Compared`).

`ExternalJournalProofs` proves, from the same assumptions:

- `RegisteredAreConfigured`, `RecoveryStaysPossible`: `Spec => []P` for `RegisteredIsConfigured` and
  `RecoveryIsPossible`.

The argument: `JInv` keeps two things. Whatever happens, a journal records a change some command was
allowed to make, a command knows what its transaction will make of the tables, and one process at most
is under the lock (`Kept`). As long as no two journaled commands overlapped, nothing was disturbed and
nobody edited a table (`Calm`), tables and journal fit one another in one of the ways in which a
prepare, a remove or a recovery may have been cut off (`Torn`). They do so for two registries, the one
that is there and the one that recovery of the transaction would leave (`View`), because a command may
meet either; between commands that recover the transaction and those that do not, only the latter may
find the two different (`Unrecovered`). The one command at work is at the place that says which case
it is (`Stands`), and a process in its transaction owns the one there is (`Owns`). Each case of `Torn`
is one that recovery accepts, unless a command that does not look for journals has changed the
registry since.

So every safety and action property of the runs is a theorem, under the hypotheses named here.
Only model-checked: `Recovers`, which is liveness under fairness and needs ENABLED.

## 5. Left out, and why

- Windows: `_windows_*` and security descriptors; a failure there is a `Fail`.
- Symlinks, hard links from outside, and directories created and removed by the transaction:
  the code refuses the first two and ignores failures of the third.
- Metadata is part of `dirty`; which metadata the code compares where is not modelled.
- A journal that does not parse, or an unknown schema: the code refuses and changes nothing.
- `Plan` takes the directory updates of older transactions to be durable, and gives each entry a
  directory of its own.
- Native routing: the checks of binaries, model catalogue, agent files and Claude prerequisites
  before the write are one refusal (`Stop`); states of earlier schemas, which `--status` only asks to
  migrate; a user configuration that does not exist yet; symlinks and foreign state files, which are
  refused.
- External lifecycle: the checks of binaries, workspaces, packets, catalogue entries and keychain
  entries are refusals (`End`); what a transaction leaves behind once it is committed, which any
  recovery removes; a power loss within it, which is `FileTransaction`'s; readiness states no command stores (drift, collision, route
  accepted, used), which `inspect_status` only prints.
- Credentials, authentication helper, CLI trust, subscription lane, provider catalogue: they read,
  compare and accept or refuse, and keep nothing that another part decides on, except the content of
  the helper, which `ExternalLifecycle` has.
- Request loop, model process and teardown of the MCP server: the loop serves one request at a
  time; whether a process tree is gone depends on which process numbers the operating system reuses,
  which the code cannot know and a model would only assume.
- Model inspection and the repository scripts: single passes over files, without concurrency;
  the rollback of a failed hook installation is the one step of them that could fail half-way.
- The TOML line scan and the migration of legacy tables: their result is the change set that
  `FileTransaction` takes as given; what they do is text, character by character.

## 6. Order of the work

1. `FileTransaction`, `AtomicUpdate` and the first theorems.
2. `ConcurrentConfigurators`: locked publication against unlocked recovery, with its theorems.
3. `ReviewSession`: rounds, attempts, replays, findings, limits and stop reasons, with its theorems.
4. `NativeRouting`: setup, repair and disable against app server and state file, with its theorems.
5. `ExternalLifecycle`: providers, roles, registry, readiness, journal and invoke, with its theorems.

6. The files of `FileTransaction`, what `NativeRouting` restores and the provider journal of
   `ExternalLifecycle`, as theorems.

What would add most from here: `NothingLeftBehind` with a loss of power as the first fault, which has
to say of every state a directory may come back in what `CleanInv` says of the current one; and the
composition of `ExternalLifecycle` with the temporaries and inodes of `FileTransaction`, where recovery
without the lock may meet a transaction of the lifecycle between a check and its call, which `unlocked`
shows by itself.
