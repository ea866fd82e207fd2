---------------------------- MODULE NativeRouting ----------------------------
(***************************************************************************)
(* configure_native_routing.py: setup, repair and disable of the routing   *)
(* policy in the user's Codex configuration.  A command reads the user     *)
(* layer through the App Server, reads the routing state file, decides,    *)
(* writes the layer by compare-and-swap, then writes or removes the state  *)
(* file, and rolls back what a later step refuses.  Several commands may   *)
(* run at once, the user edits the layer at any time, a command may be     *)
(* killed, an answer of the App Server may not arrive in time, and the     *)
(* state file may fail to be written before or after its replacement.      *)
(*                                                                         *)
(* The App Server is external: a write succeeds only if the layer is still *)
(* the one the caller names, so a layer is its own version.  The user      *)
(* configuration file exists.  Spawn metadata and tool namespace are set,  *)
(* compared, saved and restored together and are one field here, controls. *)
(***************************************************************************)
EXTENDS Naturals, FiniteSets

CONSTANTS
    Proc,           \* processes that run the script
    Seats,          \* complete seat settings a setup may ask for
    Mode, Usage,    \* the two policy texts of a seat setting
    Claude,         \* the bundled Claude seat of a seat setting, or NoClaude
    Launcher,       \* bundled MCP launchers
    Marked, Text,   \* texts with the marker of the plugin, and without it
    First,          \* layers the user may start from
    Typed,          \* what an edit may leave in a hint
    Faults,         \* which of "kill", "silence" and "disk" may happen
    Counts          \* bound: pairs of edits, commands started beside another

NoClaude == [seat |-> "none", model |-> "none"]
ClaudeRoute ==
    [seat : {"planner", "advisor"}, model : {"fable", "opus"},
     launcher : Launcher]

ASSUME SeatsHavePolicies ==
    /\ Mode \in [Seats -> Marked]
    /\ Usage \in [Seats -> Marked]
    /\ Claude \in [Seats -> ClaudeRoute \cup {NoClaude}]
ASSUME TextsAreDistinct ==
    /\ Marked \cap Text = {}
    /\ {"missing", "unknown"} \cap (Marked \cup Text) = {}
ASSUME CountsArePairs == Counts \subseteq Nat \X Nat

VARIABLES
    user,           \* the user layer of the configuration
    state,          \* the routing state file
    run,            \* the command each process is running
    mine,           \* history: the layer as it is without the plugin
    edited,         \* history: a field the plugin holds is as the user changed it
    clean,          \* history: no mishap so far, see below
    edits,          \* edits so far
    beside          \* commands started while another ran so far

\* A mishap is a command that runs beside another, and a setup or disable that
\* is cut off after its write, whose answer is late, whose rollback is refused,
\* or whose state file fails after its replacement or is not put back or removed.
vars == <<user, state, run, mine, edited, clean, edits, beside>>

Hint == Marked \cup Text \cup {"missing"}
Control == {"missing", "ours", "other"}
Enabled == {"missing", "on", "off"}

\* The feature is a boolean, a table, the table a boolean was converted to, or
\* that table with more keys.
Feature == {"scalar", "table", "converted", "grown"}

Config ==
    [feature : Feature, mode : Hint, usage : Hint, controls : Control,
     mcp : [Launcher -> Enabled]]

Previous ==
    [mode : Hint, usage : Hint, controls : Control \cup {"unknown"},
     mcp : [Launcher -> Enabled \cup {"untouched"}]]

State ==
    [seats : Seats, mode : Hint, usage : Hint,
     mcp : [Launcher -> {"on", "off", "untouched"}],
     previous : Previous, scalar : BOOLEAN]

NoState == [seats |-> "none"]
NoSeats == "no seats"
Idle == [at |-> "idle"]

Command ==
    [at : {"read", "write", "save", "verify", "check", "undo", "withdraw",
           "unsave", "remove"},
     action : {"setup", "repair", "disable"},
     seats : Seats \cup {NoSeats}, replace : BOOLEAN,
     base : Config, seen : Config,
     old : State \cup {NoState}, new : State \cup {NoState}]

TypeOK ==
    /\ user \in Config
    /\ state \in State \cup {NoState}
    /\ run \in [Proc -> Command \cup {Idle}]
    /\ mine \in Config
    /\ edited \in BOOLEAN
    /\ clean \in BOOLEAN
    /\ edits \in Nat
    /\ beside \in Nat

\* A layer without the plugin; a boolean feature holds no fields.
Own ==
    {c \in Config :
        /\ c.feature \in {"scalar", "table"}
        /\ {c.mode, c.usage} \subseteq Text \cup {"missing"}
        /\ c.feature = "scalar" =>
              {c.mode, c.usage, c.controls} = {"missing"}}

Init ==
    /\ user \in First \cap Own
    /\ mine = user
    /\ state = NoState
    /\ run = [p \in Proc |-> Idle]
    /\ edited = FALSE
    /\ clean = TRUE
    /\ edits = 0
    /\ beside = 0

-----------------------------------------------------------------------------
(* What the plugin holds, and what it decides on a layer and a state. *)

Matches(s, c) ==
    /\ c.mode = s.mode
    /\ c.usage = s.usage
    /\ c.controls = "ours"
    /\ \A l \in Launcher : s.mcp[l] # "untouched" => c.mcp[l] = s.mcp[l]
    /\ s.scalar => c.feature = "converted"

\* Replacing, moving or removing Opus needs a disable first.
MayMove(old, new) ==
    old # NoClaude /\ "opus" \in {old.model, new.model}
        => new.seat = old.seat /\ new.model = old.model

BugSetupAllowed(c, s, seats, replace) ==  \* replaces without being asked
    IF s # NoState THEN MayMove(Claude[s.seats], Claude[seats]) /\ Matches(s, c)
                   ELSE TRUE

SetupAllowed(c, s, seats, replace) ==
    IF s # NoState
    THEN MayMove(Claude[s.seats], Claude[seats]) /\ Matches(s, c)
    ELSE replace \/ {c.mode, c.usage} \cap Text = {}

Touches(c, s, seats) ==
    LET held == IF s = NoState THEN {}
                ELSE {l \in Launcher : s.mcp[l] # "untouched"}
    IN  IF Claude[seats] = NoClaude
        THEN IF held = {} THEN {}
             ELSE held \cup {l \in Launcher : c.mcp[l] # "missing"}
        ELSE held \cup {l \in Launcher : c.mcp[l] # "missing"}
                  \cup {Claude[seats].launcher}

BugRestoreData(c, s, touched) ==  \* takes the marked text for the user's
    IF s # NoState
    THEN [s.previous EXCEPT !.mcp =
            [l \in Launcher |->
                IF l \in touched /\ s.previous.mcp[l] = "untouched"
                THEN c.mcp[l] ELSE s.previous.mcp[l]]]
    ELSE [mode |-> c.mode, usage |-> c.usage, controls |-> c.controls,
          mcp |-> [l \in Launcher |->
                     IF l \in touched THEN c.mcp[l] ELSE "untouched"]]

BugFreshData(c, s, touched) ==  \* saves what the plugin wrote before
    [mode |-> IF c.mode \in Marked THEN "missing" ELSE c.mode,
     usage |-> IF c.usage \in Marked THEN "missing" ELSE c.usage,
     controls |-> c.controls,
     mcp |-> [l \in Launcher |->
                IF l \in touched THEN c.mcp[l] ELSE "untouched"]]

\* A marker proves that a text is the plugin's; without a state the controls
\* beside it are nobody's.
RestoreData(c, s, touched) ==
    IF s # NoState
    THEN [s.previous EXCEPT !.mcp =
            [l \in Launcher |->
                IF l \in touched /\ s.previous.mcp[l] = "untouched"
                THEN c.mcp[l] ELSE s.previous.mcp[l]]]
    ELSE [mode |-> IF c.mode \in Marked THEN "missing" ELSE c.mode,
          usage |-> IF c.usage \in Marked THEN "missing" ELSE c.usage,
          controls |-> IF {c.mode, c.usage} \cap Marked # {} THEN "unknown"
                       ELSE c.controls,
          mcp |-> [l \in Launcher |->
                     IF l \in touched THEN c.mcp[l] ELSE "untouched"]]

BugPrepared(c, s, seats) ==  \* forgets the launchers it already holds
    LET touched == Touches(c, NoState, seats)
    IN  [seats |-> seats, mode |-> Mode[seats], usage |-> Usage[seats],
         mcp |-> [l \in Launcher |->
                    IF l \notin touched THEN "untouched"
                    ELSE IF Claude[seats] # NoClaude
                            /\ Claude[seats].launcher = l
                         THEN "on" ELSE "off"],
         previous |-> RestoreData(c, s, touched),
         scalar |-> IF s # NoState THEN s.scalar ELSE c.feature = "scalar"]

Prepared(c, s, seats) ==
    LET touched == Touches(c, s, seats)
    IN  [seats |-> seats, mode |-> Mode[seats], usage |-> Usage[seats],
         mcp |-> [l \in Launcher |->
                    IF l \notin touched THEN "untouched"
                    ELSE IF Claude[seats] # NoClaude
                            /\ Claude[seats].launcher = l
                         THEN "on" ELSE "off"],
         previous |-> RestoreData(c, s, touched),
         scalar |-> IF s # NoState THEN s.scalar ELSE c.feature = "scalar"]

Installed(c, s) ==
    [feature |-> IF c.feature = "scalar" THEN "converted" ELSE c.feature,
     mode |-> s.mode, usage |-> s.usage, controls |-> "ours",
     mcp |-> [l \in Launcher |->
                IF s.mcp[l] = "untouched" THEN c.mcp[l] ELSE s.mcp[l]]]

\* The rollback of a setup that read base and wrote s.
RolledBack(c, base, s) ==
    [feature |-> IF s.scalar THEN base.feature ELSE c.feature,
     mode |-> base.mode, usage |-> base.usage, controls |-> base.controls,
     mcp |-> [l \in Launcher |->
                IF s.mcp[l] = "untouched" THEN c.mcp[l] ELSE base.mcp[l]]]

BugRepairAllowed(c, s) ==  \* does not ask for the marker
    /\ s # NoState
    /\ c.mode # s.mode \/ c.usage # s.usage
    /\ Matches(s, [c EXCEPT !.mode = s.mode, !.usage = s.usage])

RepairAllowed(c, s) ==
    /\ s # NoState
    /\ c.mode # s.mode \/ c.usage # s.usage
    /\ {c.mode, c.usage} \subseteq Marked
    /\ Matches(s, [c EXCEPT !.mode = s.mode, !.usage = s.usage])

Repaired(c, s) == [c EXCEPT !.mode = s.mode, !.usage = s.usage]

DisableAllowed(c, s) ==
    IF s = NoState THEN {c.mode, c.usage} \cap Marked # {} ELSE Matches(s, c)

BugDisabled(c, s) ==  \* restores what was never known
    IF s = NoState
    THEN [c EXCEPT !.mode = IF @ \in Marked THEN "missing" ELSE @,
                   !.usage = IF @ \in Marked THEN "missing" ELSE @]
    ELSE [feature |-> IF s.scalar THEN "scalar" ELSE c.feature,
          mode |-> s.previous.mode, usage |-> s.previous.usage,
          controls |-> s.previous.controls,
          mcp |-> [l \in Launcher |->
                     IF s.previous.mcp[l] = "untouched" THEN c.mcp[l]
                     ELSE s.previous.mcp[l]]]

Disabled(c, s) ==
    IF s = NoState
    THEN [c EXCEPT !.mode = IF @ \in Marked THEN "missing" ELSE @,
                   !.usage = IF @ \in Marked THEN "missing" ELSE @]
    ELSE [feature |-> IF s.scalar THEN "scalar" ELSE c.feature,
          mode |-> IF s.scalar THEN "missing" ELSE s.previous.mode,
          usage |-> IF s.scalar THEN "missing" ELSE s.previous.usage,
          controls |-> IF s.scalar THEN "missing"
                       ELSE IF s.previous.controls = "unknown" THEN c.controls
                       ELSE s.previous.controls,
          mcp |-> [l \in Launcher |->
                     IF s.previous.mcp[l] = "untouched" THEN c.mcp[l]
                     ELSE s.previous.mcp[l]]]

\* The state that --status reports, short of a higher layer.
Status(c, s) ==
    LET pair == {c.mode, c.usage} \subseteq Marked
    IN  IF pair /\ s # NoState /\ ~ Matches(s, c) THEN "conflict"
        ELSE IF pair THEN IF c.controls = "ours" THEN "installed" ELSE "incomplete"
        ELSE IF c.mode = "missing" /\ c.usage = "missing" THEN "inactive"
        ELSE "partial or user-authored"

\* The contract of routing_state.py that every reader of the file enforces.
Valid(s) ==
    /\ {s.mode, s.usage} \subseteq Marked
    /\ \A l \in Launcher :
          /\ s.mcp[l] = "untouched" <=> s.previous.mcp[l] = "untouched"
          /\ s.mcp[l] = "on" <=> /\ Claude[s.seats] # NoClaude
                                 /\ Claude[s.seats].launcher = l

\* Whoever is to read, replace or remove the file reads it through the contract.
Readable(s) == s # NoState => Valid(s)

\* A setup copies the restore data it found but shares the launchers' part with
\* it, if there is one, and adds the launchers it touches to both.
Reinstated(old, new) ==
    IF old # NoState /\ \E l \in Launcher : old.previous.mcp[l] # "untouched"
    THEN [old EXCEPT !.previous.mcp = new.previous.mcp]
    ELSE old

-----------------------------------------------------------------------------
(* The commands. *)

Busy(p) == run[p] # Idle
At(p, place) == run[p] # Idle /\ run[p].at = place
Become(p, r) == run' = [run EXCEPT ![p] = r]
Go(p, place) == Become(p, [run[p] EXCEPT !.at = place])
Leave(p) == Become(p, Idle)
Unchecked == UNCHANGED <<mine, edited, edits, beside>>

Start(p) ==
    /\ ~ Busy(p)
    /\ \E action \in {"setup", "repair", "disable"}, seats \in Seats \cup {NoSeats},
          replace \in BOOLEAN :
          /\ seats = NoSeats <=> action # "setup"
          /\ replace => action = "setup"
          /\ Become(p, [at |-> "read", action |-> action, seats |-> seats,
                        replace |-> replace, base |-> user, seen |-> user,
                        old |-> NoState, new |-> NoState])
    /\ IF \A q \in Proc : ~ Busy(q)
       THEN UNCHANGED <<clean, beside>>
       ELSE /\ <<edits, beside + 1>> \in Counts
            /\ beside' = beside + 1
            /\ clean' = FALSE
    /\ UNCHANGED <<user, state, mine, edited, edits>>

\* The layer was read; now the state file is, and the command decides.
Decide(p) ==
    /\ At(p, "read")
    /\ Readable(state)
    /\ LET r == run[p] IN
       /\ CASE r.action = "setup" -> SetupAllowed(r.base, state, r.seats, r.replace)
            [] r.action = "repair" -> RepairAllowed(r.base, state)
            [] r.action = "disable" -> DisableAllowed(r.base, state)
       /\ Become(p, [r EXCEPT !.at = "write", !.old = state,
                              !.new = IF r.action = "setup"
                                      THEN Prepared(r.base, state, r.seats)
                                      ELSE NoState])
    /\ UNCHANGED <<user, state, clean>> /\ Unchecked

\* Refused by the state file, the decision, the catalogue, by the prerequisites of a Claude
\* seat or by the agent files; or a dry run; or nothing to do.
Stop(p) ==
    /\ At(p, "read") \/ At(p, "write")
    /\ Leave(p)
    /\ UNCHANGED <<user, state, clean>> /\ Unchecked

Written(r) ==
    CASE r.action = "setup" -> Installed(r.base, r.new)
      [] r.action = "repair" -> Repaired(r.base, r.old)
      [] r.action = "disable" -> Disabled(r.base, r.old)

\* The App Server applied the write and answered ok, or okOverridden.
Write(p) ==
    /\ At(p, "write")
    /\ user = run[p].seen
    /\ user' = Written(run[p])
    /\ \E overridden \in BOOLEAN :
          Become(p, [run[p] EXCEPT !.seen = user',
                      !.at = IF run[p].action = "disable" THEN "remove"
                             ELSE IF overridden THEN "undo"
                             ELSE IF run[p].action = "setup" THEN "save"
                             ELSE "check"])
    /\ UNCHANGED <<state, clean>> /\ Unchecked

\* The write was applied and its answer did not come in time.
WriteUnanswered(p) ==
    /\ "silence" \in Faults
    /\ At(p, "write")
    /\ user = run[p].seen
    /\ user' = Written(run[p])
    /\ Leave(p)
    /\ clean' = (clean /\ run[p].action = "repair")
    /\ UNCHANGED state /\ Unchecked

Save(p) ==
    /\ At(p, "save")
    /\ Readable(state)
    /\ state' = run[p].new
    /\ Go(p, "verify")
    /\ UNCHANGED <<user, clean>> /\ Unchecked

\* The file there is refused, or the disk fails before or after it is replaced.
SaveFails(p) ==
    /\ At(p, "save")
    /\ \/ /\ "disk" \in Faults \/ ~ Readable(state)
          /\ UNCHANGED <<state, clean>>
       \/ /\ "disk" \in Faults /\ Readable(state)
          /\ state' = run[p].new
          /\ clean' = FALSE
    /\ Go(p, "undo")
    /\ UNCHANGED user /\ Unchecked

\* The readback succeeds, fails, or finds a newer edit, which is preserved.
Verified(p) ==
    /\ At(p, "verify")
    /\ Leave(p)
    /\ UNCHANGED <<user, state, clean>> /\ Unchecked

\* The readback finds that the policy is not effective in the workspace.
Overruled(p) ==
    /\ At(p, "verify")
    /\ Matches(run[p].new, user)
    /\ Become(p, [run[p] EXCEPT !.at = "withdraw", !.seen = user])
    /\ UNCHANGED <<user, state, clean>> /\ Unchecked

\* The readback of a repair: it fails or finds a newer edit or another state;
\* the repair is not effective and is rolled back; or all is as saved.
Checked(p) ==
    /\ At(p, "check")
    /\ \/ Leave(p) /\ UNCHANGED edited
       \/ /\ Matches(run[p].old, user)
          /\ Become(p, [run[p] EXCEPT !.at = "undo", !.seen = user])
          /\ UNCHANGED edited
       \/ /\ Matches(run[p].old, user) /\ state = run[p].old
          /\ Leave(p)
          /\ edited' = FALSE
    /\ UNCHANGED <<user, state, mine, clean, edits, beside>>

Restored(r) ==
    IF r.action = "setup"
    THEN RolledBack(r.seen, r.base, r.new)
    ELSE [r.seen EXCEPT !.mode = r.base.mode, !.usage = r.base.usage]

BugUndo(p) ==  \* writes without a version
    /\ At(p, "undo")
    /\ user' = Restored(run[p])
    /\ edited' = (edited \/ run[p].action = "repair")
    /\ Leave(p)
    /\ UNCHANGED <<state, mine, clean, edits, beside>>

\* Answered or not, a rollback that is applied ends the command.
Undo(p) ==
    /\ At(p, "undo")
    /\ user = run[p].seen
    /\ user' = Restored(run[p])
    /\ edited' = (edited \/ run[p].action = "repair")
    /\ Leave(p)
    /\ UNCHANGED <<state, mine, clean, edits, beside>>

\* The rollback is refused, by a newer edit or an error.
UndoFails(p) ==
    /\ At(p, "undo") \/ At(p, "withdraw")
    /\ Leave(p)
    /\ clean' = (clean /\ run[p].action = "repair")
    /\ UNCHANGED <<user, state>> /\ Unchecked

\* The rollback after the readback; the state follows if it is answered.
Withdraw(p) ==
    /\ At(p, "withdraw")
    /\ user = run[p].seen
    /\ user' = Restored(run[p])
    /\ \/ Go(p, "unsave") /\ UNCHANGED clean
       \/ "silence" \in Faults /\ Leave(p) /\ clean' = FALSE
    /\ UNCHANGED state /\ Unchecked

BugUnsave(p) ==  \* always removes the state
    /\ At(p, "unsave")
    /\ Readable(state)
    /\ state' = NoState
    /\ Leave(p)
    /\ UNCHANGED <<user, clean>> /\ Unchecked

\* The state the setup had read is written back, with what it added to it.
Unsave(p) ==
    /\ At(p, "unsave")
    /\ Readable(state)
    /\ state' = Reinstated(run[p].old, run[p].new)
    /\ Leave(p)
    /\ UNCHANGED <<user, clean>> /\ Unchecked

\* Disable removes whatever state is there once the layer is restored.
Remove(p) ==
    /\ At(p, "remove")
    /\ Readable(state)
    /\ state' = NoState
    /\ Leave(p)
    /\ UNCHANGED <<user, clean>> /\ Unchecked

\* The disk fails, or the file there is refused.
StateStays(p) ==
    /\ "disk" \in Faults \/ ~ Readable(state)
    /\ At(p, "unsave") \/ At(p, "remove")
    /\ Leave(p)
    /\ clean' = FALSE
    /\ UNCHANGED <<user, state>> /\ Unchecked

Killed(p) ==
    /\ "kill" \in Faults
    /\ Busy(p)
    /\ Leave(p)
    /\ clean' = (clean /\ \/ run[p].at \in {"read", "write", "verify"}
                          \/ run[p].action = "repair")
    /\ UNCHANGED <<user, state>> /\ Unchecked

-----------------------------------------------------------------------------
(* The user. *)

\* The states whose fields are in the layer: that of a setup from its write to
\* its end or rollback, and the saved one unless its fields were just restored.
Holding ==
    ({run[p].new : p \in {q \in Proc : /\ Busy(q) /\ run[q].action = "setup"
                                      /\ run[q].at \in {"save", "verify", "undo",
                                                        "withdraw"}}}
     \cup {run[p].old : p \in {q \in Proc : At(q, "unsave")}}
     \cup IF \E p \in Proc : At(p, "unsave") \/ At(p, "remove") THEN {} ELSE {state})
    \ {NoState}

Held == Holding # {}
HeldLauncher(l) == \E s \in Holding : s.mcp[l] # "untouched"

Note(held) ==
    /\ <<edits + 1, beside>> \in Counts
    /\ edits' = edits + 1
    /\ edited' = (edited \/ held)
    /\ UNCHANGED <<state, run, clean, beside>>

\* A hint is rewritten, damaged with its marker left in place, or removed.
EditHint ==
    /\ user.feature # "scalar"
    /\ \E v \in Typed \cap Hint :
          /\ v \in Marked => Held
          /\ \/ /\ user.mode # v
                /\ user' = [user EXCEPT !.mode = v]
                /\ mine' = IF Held THEN mine ELSE [mine EXCEPT !.mode = v]
             \/ /\ user.usage # v
                /\ user' = [user EXCEPT !.usage = v]
                /\ mine' = IF Held THEN mine ELSE [mine EXCEPT !.usage = v]
    /\ Note(Held)

EditControls ==
    /\ user.feature # "scalar"
    /\ \E v \in Control :
          /\ user.controls # v
          /\ user' = [user EXCEPT !.controls = v]
          /\ mine' = IF Held THEN mine ELSE [mine EXCEPT !.controls = v]
    /\ Note(Held)

EditLauncher ==
    \E l \in Launcher, v \in Enabled :
       /\ user.mcp[l] # v
       /\ user' = [user EXCEPT !.mcp[l] = v]
       /\ mine' = IF HeldLauncher(l) THEN mine ELSE [mine EXCEPT !.mcp[l] = v]
       /\ Note(HeldLauncher(l))

GrowTable ==
    /\ user.feature = "converted"
    /\ user' = [user EXCEPT !.feature = "grown"]
    /\ Note(TRUE)
    /\ UNCHANGED mine

\* The user puts every held field back by hand.
PutBack ==
    /\ edited
    /\ Holding = {state}
    /\ user.feature # "scalar"
    /\ state.scalar => user.feature \in {"converted", "grown"}
    /\ user' = [Installed(user, state) EXCEPT
                  !.feature = IF state.scalar THEN "converted" ELSE @]
    /\ user' # user
    /\ edited' = FALSE
    /\ UNCHANGED <<state, run, mine, clean, edits, beside>>

-----------------------------------------------------------------------------
UserStep == EditHint \/ EditControls \/ EditLauncher \/ GrowTable \/ PutBack

Step(p) ==
    \/ Start(p) \/ Decide(p) \/ Stop(p)
    \/ Write(p) \/ WriteUnanswered(p)
    \/ Save(p) \/ SaveFails(p)
    \/ Verified(p) \/ Overruled(p) \/ Checked(p)
    \/ Undo(p) \/ UndoFails(p) \/ Withdraw(p) \/ Unsave(p)
    \/ Remove(p) \/ StateStays(p) \/ Killed(p)

Next == UserStep \/ \E p \in Proc : Step(p)

Spec == Init /\ [][Next]_vars

-----------------------------------------------------------------------------
(* Properties. *)

AtRest == \A p \in Proc : ~ Busy(p)

\* No command leaves a state that the validation of the next one refuses; a
\* refused file blocks setup, repair and disable alike.
EverySavedStateIsRead == Readable(state)

\* What a setup saves, over any history, interleaving and fault, the next
\* command reads; only the state written back after the readback may be refused,
\* and there only for launchers it has restore data of and does not hold.
OnlyReinstatedIsRefused ==
    [][Readable(state) /\ ~ Readable(state') =>
         \E p \in Proc :
            /\ At(p, "unsave") /\ run[p].old # NoState
            /\ Valid([state' EXCEPT !.previous.mcp = run[p].old.previous.mcp])]_vars

\* A text of the plugin is never saved as the user's, however often setup runs
\* over its own hints, with a state or after losing it: disable cannot bring a
\* policy back.
PolicyIsNeverRestored ==
    state # NoState => {state.previous.mode, state.previous.usage} \cap Marked = {}

\* Without a mishap, everything the plugin replaced is saved as the user had it,
\* over any sequence of setups, failures, rollbacks and repairs, and nothing
\* else was touched.
OriginalsAreSaved ==
    clean /\ AtRest =>
        IF state = NoState THEN user = mine
        ELSE /\ state.scalar <=> mine.feature = "scalar"
             /\ state.previous.mode = mine.mode
             /\ state.previous.usage = mine.usage
             /\ state.previous.controls = mine.controls
             /\ \A l \in Launcher :
                   IF state.mcp[l] = "untouched"
                   THEN user.mcp[l] = mine.mcp[l]
                   ELSE state.previous.mcp[l] = mine.mcp[l]

\* Without a mishap, and while held fields are not edited, configuration and a
\* state file that is read agree after every command, however it ended: status
\* tells the truth and disable is possible.
LayerAndStateAgree ==
    clean /\ AtRest /\ ~ edited =>
        IF state = NoState
        THEN Status(user, state) \in {"inactive", "partial or user-authored"}
        ELSE Valid(state) =>
                Status(user, state) = "installed" /\ DisableAllowed(user, state)

\* Under any interleaving and any fault, a step of the plugin changes a hint
\* without the marker only in a setup that was told to replace it, and that
\* setup then holds the text as restore data.
UserTextIsKept ==
    [][\A p \in Proc :
         /\ run'[p] # run[p]
         /\ \/ user.mode \in Text /\ user'.mode # user.mode
            \/ user.usage \in Text /\ user'.usage # user.usage
         => /\ run[p].action = "setup" /\ run[p].replace /\ run[p].at = "write"
            /\ run[p].new.previous.mode = user.mode \/ user.mode \in Marked
            /\ run[p].new.previous.usage = user.usage \/ user.usage \in Marked]_vars

\* A repair, its rollback included, writes nothing but marked hints over marked
\* hints and leaves the state file alone, whatever runs beside it.
RepairIsNarrow ==
    [][\A p \in Proc :
         run[p] # Idle /\ run[p].action = "repair" /\ run'[p] # run[p]
         => /\ state' = state
            /\ user' # user =>
                 /\ {user.mode, user.usage, user'.mode, user'.usage} \subseteq Marked
                 /\ user' = [user EXCEPT !.mode = user'.mode,
                                         !.usage = user'.usage]]_vars

\* The text a setup was allowed to replace is still in the layer, in the state
\* file or with a command that is running.
OldTextIsRetained ==
    mine.mode \in Text =>
        \/ user.mode = mine.mode
        \/ state # NoState /\ state.previous.mode = mine.mode
        \/ \E p \in Proc : Busy(p)

=============================================================================
