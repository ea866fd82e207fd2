------------------------- MODULE NativeRoutingProofs -------------------------
(***************************************************************************)
(* Proofs about NativeRouting, for any number of processes, seat settings, *)
(* launchers and texts, and any faults.  The inductive invariant ties what *)
(* a command carries to the place it has reached: what it may write was    *)
(* decided on the layer it names as version, and what it rolls back still  *)
(* has the marker.                                                         *)
(***************************************************************************)
EXTENDS NativeRouting, TLAPS

GoodState(s) ==
    /\ s \in State
    /\ Valid(s)
    /\ {s.previous.mode, s.previous.usage} \cap Marked = {}

Sound(s) == s = NoState \/ GoodState(s)

\* What a state file is even if a reader refuses it.
FairState(s) ==
    /\ s \in State
    /\ {s.mode, s.usage} \subseteq Marked
    /\ {s.previous.mode, s.previous.usage} \cap Marked = {}

Fair(s) == s = NoState \/ FairState(s)

\* The new state n keeps the restore data of the launchers that s has any of.
Extends(s, n) ==
    s # NoState =>
        \A l \in Launcher :
           s.previous.mcp[l] # "untouched" => n.previous.mcp[l] = s.previous.mcp[l]

GoodRun(r) ==
    /\ r \in Command
    /\ Sound(r.old)
    /\ r.action = "setup" => r.seats \in Seats
    /\ r.at \in {"save", "verify", "withdraw", "unsave"} => r.action = "setup"
    /\ r.at = "check" => r.action = "repair"
    /\ r.at = "remove" => r.action = "disable"
    /\ r.at = "undo" => r.action # "disable"
    /\ r.at # "read" /\ r.action = "setup" =>
          GoodState(r.new) /\ Extends(r.old, r.new)
    /\ r.at # "read" /\ r.action = "repair" => RepairAllowed(r.base, r.old)
    /\ r.at \in {"read", "write"} => r.seen = r.base
    /\ r.at = "write" =>
          /\ r.action = "setup" =>
                /\ SetupAllowed(r.base, r.old, r.seats, r.replace)
                /\ r.new = Prepared(r.base, r.old, r.seats)
          /\ r.action = "disable" => DisableAllowed(r.base, r.old)
    /\ r.at \in {"save", "undo", "withdraw"} => {r.seen.mode, r.seen.usage} \subseteq Marked

IInv ==
    /\ TypeOK
    /\ Fair(state)
    /\ \A p \in Proc : Busy(p) => GoodRun(run[p])

-----------------------------------------------------------------------------
(* What the plugin computes is of its type. *)

\* Restore data has its type.
LEMMA RestoreDataTyped ==
    ASSUME NEW c \in Config, NEW s, Sound(s), NEW touched
    PROVE  RestoreData(c, s, touched) \in Previous
<1>1. CASE s = NoState
  BY <1>1 DEF RestoreData, Config, Previous, Hint, Control, Enabled
<1>2. CASE s # NoState
  BY <1>2 DEF RestoreData, Sound, GoodState, State, Previous, Config, Hint, Control, Enabled
<1> QED BY <1>1, <1>2

\* A new state is valid and holds no text of the plugin as the user's.
LEMMA PreparedIsGood ==
    ASSUME NEW c \in Config, NEW s, Sound(s), NEW seats \in Seats
    PROVE  GoodState(Prepared(c, s, seats))
<1> DEFINE t == Touches(c, s, seats)
           n == Prepared(c, s, seats)
<1>1. /\ Mode[seats] \in Marked
      /\ Usage[seats] \in Marked
      /\ Claude[seats] \in ClaudeRoute \cup {NoClaude}
  BY SeatsHavePolicies
<1>2. s \in State \/ s = NoState
  BY DEF Sound, GoodState
<1>3. RestoreData(c, s, t) \in Previous
  BY RestoreDataTyped
<1>4. n \in State
  <2>1. n.scalar \in BOOLEAN
    BY <1>2 DEF Prepared, State
  <2> QED BY <1>1, <1>3, <2>1 DEF Prepared, State, Hint
<1>5. /\ n.seats = seats
      /\ n.previous = RestoreData(c, s, t)
      /\ \A l \in Launcher :
            n.mcp[l] = IF l \notin t THEN "untouched"
                       ELSE IF Claude[seats] # NoClaude /\ Claude[seats].launcher = l
                            THEN "on" ELSE "off"
  BY DEF Prepared
<1>6. ASSUME NEW l \in Launcher
      PROVE  n.mcp[l] = "untouched" <=> n.previous.mcp[l] = "untouched"
  <2>1. c.mcp[l] \in Enabled
    BY DEF Config
  <2>2. CASE s = NoState
    <3>1. n.previous.mcp[l] = IF l \in t THEN c.mcp[l] ELSE "untouched"
      BY <1>5, <2>2 DEF RestoreData
    <3> QED BY <3>1, <2>1, <1>5 DEF Enabled
  <2>3. CASE s # NoState
    <3>1. s.mcp[l] = "untouched" <=> s.previous.mcp[l] = "untouched"
      BY <2>3 DEF Sound, GoodState, Valid
    <3>2. s.mcp[l] # "untouched" => l \in t
      BY <2>3 DEF Touches
    <3>3. n.previous.mcp[l] = IF l \in t /\ s.previous.mcp[l] = "untouched"
                              THEN c.mcp[l] ELSE s.previous.mcp[l]
      BY <1>5, <2>3, <1>2 DEF RestoreData, State, Previous
    <3> QED BY <3>1, <3>2, <3>3, <2>1, <1>5 DEF Enabled
  <2> QED BY <2>2, <2>3
<1>7. ASSUME NEW l \in Launcher
      PROVE  n.mcp[l] = "on" <=> Claude[n.seats] # NoClaude /\ Claude[n.seats].launcher = l
  <2>1. Claude[seats] # NoClaude => Claude[seats].launcher \in t
    BY DEF Touches
  <2> QED BY <2>1, <1>5
<1>8. {n.mode, n.usage} \subseteq Marked
  BY <1>1 DEF Prepared
<1>9. {n.previous.mode, n.previous.usage} \cap Marked = {}
  <2>1. CASE s = NoState
    <3>1. "missing" \notin Marked
      BY TextsAreDistinct
    <3> QED BY <2>1, <3>1, <1>5 DEF RestoreData
  <2>2. CASE s # NoState
    <3>1. n.previous.mode = s.previous.mode /\ n.previous.usage = s.previous.usage
      BY <2>2, <1>5, <1>2 DEF RestoreData, State, Previous
    <3> QED BY <3>1, <2>2 DEF Sound, GoodState
  <2> QED BY <2>1, <2>2
<1> HIDE DEF n, t
<1>10. Valid(n)
  BY <1>6, <1>7, <1>8 DEF Valid
<1>11. GoodState(n)
  BY <1>4, <1>9, <1>10 DEF GoodState
<1> QED BY <1>11 DEF n

\* A new state keeps the restore data it was made from.
LEMMA PreparedExtends ==
    ASSUME NEW c \in Config, NEW s, Sound(s), NEW seats \in Seats
    PROVE  Extends(s, Prepared(c, s, seats))
<1> SUFFICES ASSUME s # NoState, NEW l \in Launcher, s.previous.mcp[l] # "untouched"
             PROVE  Prepared(c, s, seats).previous.mcp[l] = s.previous.mcp[l]
  BY DEF Extends
<1> DEFINE t == Touches(c, s, seats)
<1>1. Prepared(c, s, seats).previous = RestoreData(c, s, t)
  BY DEF Prepared
<1> HIDE DEF t
<1>2. s.previous \in Previous
  BY DEF Sound, GoodState, State
<1> QED BY <1>1, <1>2 DEF RestoreData, Previous

\* A state that is read as valid is good, and a good one is fair.
LEMMA ReadIsSound ==
    ASSUME NEW s PROVE Sound(s) <=> Fair(s) /\ Readable(s)
BY DEF Sound, GoodState, Fair, FairState, Readable, Valid

\* A state that is put back is fair.
LEMMA ReinstatedIsFair ==
    ASSUME NEW s, Sound(s), NEW n, GoodState(n)
    PROVE  Fair(Reinstated(s, n))
<1>1. CASE Reinstated(s, n) = s
  BY <1>1, ReadIsSound
<1>2. CASE s # NoState /\ Reinstated(s, n) = [s EXCEPT !.previous.mcp = n.previous.mcp]
  <2>1. GoodState(s) /\ s.previous \in Previous /\ n.previous \in Previous
    BY <1>2 DEF Sound, GoodState, State
  <2>2. n.previous.mcp \in [Launcher -> Enabled \cup {"untouched"}]
    BY <2>1 DEF Previous
  <2> DEFINE w == [s EXCEPT !.previous.mcp = n.previous.mcp]
  <2>3. /\ w \in State
        /\ w.mode = s.mode /\ w.usage = s.usage
        /\ w.previous.mode = s.previous.mode
        /\ w.previous.usage = s.previous.usage
    BY <2>1, <2>2 DEF GoodState, State, Previous
  <2> HIDE DEF w
  <2>4. FairState(w)
    BY <2>1, <2>3 DEF GoodState, Valid, FairState
  <2> QED BY <1>2, <2>4 DEF Fair, w
<1> QED BY <1>1, <1>2 DEF Reinstated

\* Every layer a command writes is a layer.
LEMMA LayersTyped ==
    ASSUME NEW c \in Config, NEW b \in Config, NEW s \in State
    PROVE  /\ Installed(c, s) \in Config
           /\ RolledBack(c, b, s) \in Config
           /\ Repaired(c, s) \in Config
           /\ Disabled(c, s) \in Config
<1>1. s \in State /\ s.previous \in Previous
  BY DEF State
<1>2. /\ s.mode \in Hint /\ s.usage \in Hint
      /\ s.mcp \in [Launcher -> {"on", "off", "untouched"}]
  BY <1>1 DEF State
<1>3. /\ s.previous.mode \in Hint /\ s.previous.usage \in Hint
      /\ s.previous.controls \in Control \cup {"unknown"}
      /\ s.previous.mcp \in [Launcher -> Enabled \cup {"untouched"}]
  BY <1>1 DEF Previous
<1>4. Installed(c, s) \in Config
  BY <1>2 DEF Installed, Config, Control, Enabled, Feature
<1>5. RolledBack(c, b, s) \in Config
  BY DEF RolledBack, Config
<1>6. Repaired(c, s) \in Config
  BY <1>2 DEF Repaired, Config
<1>7. Disabled(c, s) \in Config
  <2>1. CASE s = NoState
    BY <2>1 DEF Disabled, Config, Hint
  <2>2. CASE s # NoState
    BY <2>2, <1>3 DEF Disabled, Config, Hint, Control, Enabled, Feature
  <2> QED BY <2>1, <2>2
<1> QED BY <1>4, <1>5, <1>6, <1>7

\* What disable writes is a layer, with a state or without one.
LEMMA DisabledTyped ==
    ASSUME NEW c \in Config, NEW s, Sound(s)
    PROVE  Disabled(c, s) \in Config
<1>1. CASE s = NoState
  BY <1>1 DEF Disabled, Config, Hint
<1>2. CASE GoodState(s)
  BY <1>2, LayersTyped DEF GoodState
<1> QED BY <1>1, <1>2 DEF Sound

-----------------------------------------------------------------------------
(* Every step keeps the invariant. *)

\* A step of one command leaves the others as they are.
LEMMA CommandMoves ==
    ASSUME IInv, NEW p \in Proc, NEW r, r = Idle \/ GoodRun(r), Become(p, r),
           user' \in Config, Fair(state'), mine' \in Config,
           edited' \in BOOLEAN, clean' \in BOOLEAN, edits' \in Nat, beside' \in Nat
    PROVE  IInv'
<1>1. run \in [Proc -> Command \cup {Idle}]
  BY DEF IInv, TypeOK
<1>2. r \in Command \cup {Idle}
  BY DEF GoodRun
<1>3. run' = [run EXCEPT ![p] = r]
  BY DEF Become
<1>4. run' \in [Proc -> Command \cup {Idle}]
  BY <1>1, <1>2, <1>3
<1>5. ASSUME NEW q \in Proc, run'[q] # Idle
      PROVE  GoodRun(run'[q])
  <2>1. CASE q = p
    BY <2>1, <1>5, <1>1, <1>3
  <2>2. CASE q # p
    BY <2>2, <1>5, <1>1, <1>3 DEF IInv, Busy
  <2> QED BY <2>1, <2>2
<1>6. state' \in State \cup {NoState}
  BY DEF Fair, FairState
<1>7. TypeOK'
  BY <1>4, <1>6 DEF TypeOK
<1> QED BY <1>5, <1>7 DEF IInv, Busy

\* What the invariant says of a running command.
LEMMA Running ==
    ASSUME IInv, NEW p \in Proc, Busy(p)
    PROVE  /\ GoodRun(run[p])
           /\ run[p] \in Command
           /\ run[p].base \in Config /\ run[p].seen \in Config
           /\ run[p].action \in {"setup", "repair", "disable"}
           /\ run[p].replace \in BOOLEAN
           /\ run[p].old \in State \cup {NoState}
           /\ run[p].new \in State \cup {NoState}
           /\ run[p].seats \in Seats \cup {NoSeats}
<1>1. GoodRun(run[p])
  BY DEF IInv
<1> QED BY <1>1 DEF GoodRun, Command

\* The types of the other variables.
LEMMA Typing ==
    ASSUME IInv
    PROVE  /\ user \in Config /\ Fair(state) /\ mine \in Config
           /\ edited \in BOOLEAN /\ clean \in BOOLEAN
           /\ edits \in Nat /\ beside \in Nat
BY DEF IInv, TypeOK

\* A command that starts carries nothing yet.
LEMMA StartKeeps ==
    ASSUME IInv, NEW p \in Proc, Start(p) PROVE IInv'
<1>1. PICK action \in {"setup", "repair", "disable"}, seats \in Seats \cup {NoSeats},
          replace \in BOOLEAN :
        /\ seats = NoSeats <=> action # "setup"
        /\ Become(p, [at |-> "read", action |-> action, seats |-> seats,
                      replace |-> replace, base |-> user, seen |-> user,
                      old |-> NoState, new |-> NoState])
  BY DEF Start
<1> DEFINE r == [at |-> "read", action |-> action, seats |-> seats,
                 replace |-> replace, base |-> user, seen |-> user,
                 old |-> NoState, new |-> NoState]
<1>2. r \in Command
  BY Typing DEF Command
<1>3. GoodRun(r)
  BY <1>1, <1>2 DEF GoodRun, Sound
<1>4. /\ UNCHANGED <<user, state, mine, edited, edits>>
      /\ clean' \in BOOLEAN /\ beside' \in Nat
  <2>1. UNCHANGED <<user, state, mine, edited, edits>>
    BY DEF Start
  <2>2. \/ UNCHANGED <<clean, beside>>
        \/ clean' = FALSE /\ beside' = beside + 1
    BY DEF Start
  <2>3. clean \in BOOLEAN /\ beside \in Nat
    BY Typing
  <2>4. clean' \in BOOLEAN
    <3>1. clean' = clean \/ clean' = FALSE
      BY <2>2
    <3>2. clean \in BOOLEAN
      BY <2>3
    <3> QED BY <3>1, <3>2
  <2>5. beside' \in Nat
    <3>1. beside' = beside \/ beside' = beside + 1
      BY <2>2
    <3>2. beside \in Nat
      BY <2>3
    <3> QED BY <3>1, <3>2
  <2> QED BY <2>1, <2>4, <2>5
<1>5. Become(p, r)
  BY <1>1
<1> HIDE DEF r
<1> QED BY <1>3, <1>4, <1>5, Typing, CommandMoves

\* A decision is taken on the layer read and the state found.
LEMMA DecideKeeps ==
    ASSUME IInv, NEW p \in Proc, Decide(p) PROVE IInv'
<1> DEFINE c == run[p]
           n == IF c.action = "setup" THEN Prepared(c.base, state, c.seats) ELSE NoState
           r == [c EXCEPT !.at = "write", !.old = state, !.new = n]
<1>1. Busy(p) /\ c.at = "read"
  BY DEF Decide, At, Busy
<1>2. GoodRun(c) /\ c \in Command /\ c.base \in Config
  BY <1>1, Running
<1>3. Sound(state) /\ state \in State \cup {NoState}
  <2>1. Readable(state)
    BY DEF Decide
  <2> QED BY <2>1, Typing, ReadIsSound DEF IInv, TypeOK
<1>4. c.action = "setup" => c.seats \in Seats /\ GoodState(n) /\ Extends(state, n)
  BY <1>2, <1>3, PreparedIsGood, PreparedExtends DEF GoodRun
<1>5. n \in State \cup {NoState}
  BY <1>4 DEF GoodState
<1>6. /\ c.action = "setup" => SetupAllowed(c.base, state, c.seats, c.replace)
      /\ c.action = "repair" => RepairAllowed(c.base, state)
      /\ c.action = "disable" => DisableAllowed(c.base, state)
  BY <1>2 DEF Decide, Command
<1>7. c.seen = c.base
  BY <1>1, <1>2 DEF GoodRun
<1>8. r \in Command
  BY <1>2, <1>3, <1>5 DEF Command
<1>9. /\ r.at = "write" /\ r.action = c.action /\ r.seats = c.seats
      /\ r.replace = c.replace /\ r.base = c.base /\ r.seen = c.seen
      /\ r.old = state /\ r.new = n
  BY <1>2 DEF Command
<1>10. Become(p, r)
  BY DEF Decide
<1>11. UNCHANGED <<user, state, clean, mine, edited, edits, beside>>
  BY DEF Decide, Unchecked
<1>12. c.action = "setup" => n = Prepared(c.base, state, c.seats)
  OBVIOUS
<1> HIDE DEF n, r, c
<1>13. GoodRun(r)
  BY <1>3, <1>4, <1>6, <1>7, <1>8, <1>9, <1>12 DEF GoodRun
<1> QED BY <1>10, <1>11, <1>13, Typing, CommandMoves

\* A command that ends where it may leaves layer and state alone, or sets one
\* of them to a value of its type.
LEMMA LeaveKeeps ==
    ASSUME IInv, NEW p \in Proc, Leave(p), user' \in Config, Fair(state'),
           UNCHANGED <<mine, edits, beside>>,
           edited' \in BOOLEAN, clean' \in BOOLEAN
    PROVE  IInv'
<1>1. Become(p, Idle)
  BY DEF Leave
<1>2. mine' \in Config /\ edits' \in Nat /\ beside' \in Nat
  BY Typing
<1> QED BY <1>1, <1>2, CommandMoves

\* A refusal, a dry run, a readback, a rollback or removal that fails, and a
\* kill change nothing but what is recorded of them.
LEMMA EndsKeep ==
    ASSUME IInv, NEW p \in Proc,
           Stop(p) \/ Verified(p) \/ UndoFails(p) \/ StateStays(p) \/ Killed(p)
    PROVE  IInv'
<1>1. Leave(p) /\ UNCHANGED <<user, state, mine, edited, edits, beside>>
  BY DEF Stop, Verified, UndoFails, StateStays, Killed, Unchecked
<1>2. clean' \in BOOLEAN
  <2>1. clean \in BOOLEAN
    BY Typing
  <2>2. clean' = clean \/ clean' = FALSE
    BY <2>1 DEF Stop, Verified, UndoFails, StateStays, Killed
  <2> QED BY <2>1, <2>2
<1>3. user' \in Config /\ Fair(state') /\ edited' \in BOOLEAN
  BY <1>1, Typing
<1> QED BY <1>1, <1>2, <1>3, LeaveKeeps

\* What a command writes is a layer.
LEMMA WrittenTyped ==
    ASSUME NEW r, GoodRun(r), r.at = "write"
    PROVE  Written(r) \in Config
<1>1. /\ r.base \in Config /\ Sound(r.old)
      /\ r.action \in {"setup", "repair", "disable"}
  BY DEF GoodRun, Command
<1>2. CASE r.action = "setup"
  BY <1>1, <1>2, LayersTyped DEF Written, GoodRun, GoodState
<1>3. CASE r.action = "repair"
  <2>1. GoodState(r.old)
    BY <1>1, <1>3 DEF GoodRun, RepairAllowed, Sound
  <2> QED BY <1>1, <1>3, <2>1, LayersTyped DEF Written, GoodState
<1>4. CASE r.action = "disable"
  BY <1>1, <1>4, DisabledTyped DEF Written
<1> QED BY <1>1, <1>2, <1>3, <1>4

\* Setup and repair leave marked hints in the layer.
LEMMA WrittenIsMarked ==
    ASSUME NEW r, GoodRun(r), r.at = "write", r.action # "disable"
    PROVE  {Written(r).mode, Written(r).usage} \subseteq Marked
<1>1. r.action \in {"setup", "repair"} /\ r.base \in Config
  BY DEF GoodRun, Command
<1>2. CASE r.action = "setup"
  <2>1. Written(r) = Installed(r.base, r.new)
    BY <1>2 DEF Written
  <2>2. {r.new.mode, r.new.usage} \subseteq Marked
    BY <1>2 DEF GoodRun, GoodState, Valid
  <2> QED BY <2>1, <2>2 DEF Installed
<1>3. CASE r.action = "repair"
  <2>1. Written(r) = Repaired(r.base, r.old)
    BY <1>3 DEF Written
  <2>2. {r.old.mode, r.old.usage} \subseteq Marked
    BY <1>3 DEF GoodRun, GoodState, Valid, RepairAllowed, Sound
  <2> QED BY <2>1, <2>2, <1>1 DEF Repaired, Config
<1> QED BY <1>1, <1>2, <1>3

\* What a rollback writes is a layer.
LEMMA RestoredTyped ==
    ASSUME NEW r, GoodRun(r), r.at \in {"undo", "withdraw"}
    PROVE  Restored(r) \in Config
<1>1. r.base \in Config /\ r.seen \in Config
  BY DEF GoodRun, Command
<1>2. CASE r.action = "setup"
  BY <1>1, <1>2, LayersTyped DEF Restored, GoodRun, GoodState
<1>3. CASE r.action # "setup"
  BY <1>1, <1>3 DEF Restored, Config
<1> QED BY <1>2, <1>3

\* After its write a command is where the answer sends it.
LEMMA WriteKeeps ==
    ASSUME IInv, NEW p \in Proc, Write(p) PROVE IInv'
<1> DEFINE c == run[p]
<1>1. Busy(p) /\ c.at = "write"
  BY DEF Write, At, Busy
<1>2. GoodRun(c) /\ c \in Command /\ c.action \in {"setup", "repair", "disable"}
  BY <1>1, Running
<1>3. user' = Written(c) /\ user' \in Config
  BY <1>1, <1>2, WrittenTyped DEF Write
<1>4. PICK place \in {"remove", "undo", "save", "check"} :
        /\ Become(p, [c EXCEPT !.seen = user', !.at = place])
        /\ c.action = "disable" <=> place = "remove"
        /\ place = "save" => c.action = "setup"
        /\ place = "check" => c.action = "repair"
  <2>1. PICK overridden \in BOOLEAN :
          Become(p, [c EXCEPT !.seen = user',
                      !.at = IF c.action = "disable" THEN "remove"
                             ELSE IF overridden THEN "undo"
                             ELSE IF c.action = "setup" THEN "save"
                             ELSE "check"])
    BY DEF Write
  <2> DEFINE place == IF c.action = "disable" THEN "remove"
                      ELSE IF overridden THEN "undo"
                      ELSE IF c.action = "setup" THEN "save"
                      ELSE "check"
  <2>2. /\ place \in {"remove", "undo", "save", "check"}
        /\ c.action = "disable" <=> place = "remove"
        /\ place = "save" => c.action = "setup"
        /\ place = "check" => c.action = "repair"
    BY <1>2
  <2> HIDE DEF c
  <2> QED BY <2>1, <2>2
<1> DEFINE r == [c EXCEPT !.seen = user', !.at = place]
<1>5. r \in Command
  BY <1>2, <1>3 DEF Command
<1>6. /\ r.at = place /\ r.action = c.action /\ r.seats = c.seats
      /\ r.base = c.base /\ r.seen = user' /\ r.old = c.old /\ r.new = c.new
  BY <1>2 DEF Command
<1>7. c.action # "disable" => {user'.mode, user'.usage} \subseteq Marked
  BY <1>1, <1>2, <1>3, WrittenIsMarked
<1>8. GoodRun(r)
  <2>1. /\ Sound(c.old)
        /\ c.action = "setup" =>
              c.seats \in Seats /\ GoodState(c.new) /\ Extends(c.old, c.new)
        /\ c.action = "repair" => RepairAllowed(c.base, c.old)
    BY <1>1, <1>2 DEF GoodRun
  <2> HIDE DEF r, c
  <2> QED BY <1>4, <1>5, <1>6, <1>7, <2>1 DEF GoodRun
<1>9. UNCHANGED <<state, clean, mine, edited, edits, beside>>
  BY DEF Write, Unchecked
<1>10. Become(p, r)
  BY <1>4
<1> HIDE DEF r, c
<1> QED BY <1>3, <1>8, <1>9, <1>10, Typing, CommandMoves

\* An unanswered write ends the command.
LEMMA WriteUnansweredKeeps ==
    ASSUME IInv, NEW p \in Proc, WriteUnanswered(p) PROVE IInv'
<1>1. Busy(p) /\ run[p].at = "write"
  BY DEF WriteUnanswered, At, Busy
<1>2. user' \in Config
  BY <1>1, Running, WrittenTyped DEF WriteUnanswered
<1>3. /\ Leave(p) /\ UNCHANGED <<state, mine, edited, edits, beside>>
      /\ clean' = (clean /\ run[p].action = "repair")
  BY DEF WriteUnanswered, Unchecked
<1>4. Fair(state') /\ edited' \in BOOLEAN /\ clean' \in BOOLEAN
  BY <1>3, Typing
<1> QED BY <1>2, <1>3, <1>4, LeaveKeeps

\* The state a setup saves is good; a failure goes on to the rollback.
LEMMA SaveKeeps ==
    ASSUME IInv, NEW p \in Proc, Save(p) \/ SaveFails(p) PROVE IInv'
<1> DEFINE c == run[p]
<1>1. Busy(p) /\ c.at = "save"
  BY DEF Save, SaveFails, At, Busy
<1>2. GoodRun(c) /\ c \in Command /\ c.action = "setup"
  BY <1>1, Running DEF GoodRun
<1>3. GoodState(c.new) /\ Extends(c.old, c.new)
  BY <1>1, <1>2 DEF GoodRun
<1>4. PICK place \in {"verify", "undo"} : Become(p, [c EXCEPT !.at = place])
  BY DEF Save, SaveFails, Go
<1>5. state' = state \/ state' = c.new
  BY DEF Save, SaveFails
<1>6. Fair(state')
  <2>1. Fair(c.new)
    BY <1>3, ReadIsSound DEF Sound
  <2> QED BY <1>5, <2>1, Typing
<1>7. UNCHANGED <<user, mine, edited, edits, beside>>
  BY DEF Save, SaveFails, Unchecked
<1>8. clean' = clean \/ clean' = FALSE
  <2>1. CASE Save(p)
    BY <2>1 DEF Save
  <2>2. CASE SaveFails(p)
    BY <2>2 DEF SaveFails
  <2> QED BY <2>1, <2>2
<1>9. clean' \in BOOLEAN
  BY <1>8, Typing
<1> DEFINE r == [c EXCEPT !.at = place]
<1>10. r \in Command
  BY <1>2, <1>4 DEF Command
<1>11. /\ r.at = place /\ r.action = "setup" /\ r.seats = c.seats
       /\ r.base = c.base /\ r.seen = c.seen /\ r.old = c.old /\ r.new = c.new
  BY <1>2 DEF Command
<1>12. Become(p, r)
  BY <1>4
<1>13. c.seats \in Seats /\ Sound(c.old)
  BY <1>2 DEF GoodRun
<1>14. {c.seen.mode, c.seen.usage} \subseteq Marked
  BY <1>1, <1>2 DEF GoodRun
<1> HIDE DEF r, c
<1>15. GoodRun(r)
  BY <1>3, <1>4, <1>10, <1>11, <1>13, <1>14 DEF GoodRun
<1> QED BY <1>15, <1>12, <1>6, <1>7, <1>9, Typing, CommandMoves

\* A layer that matches a good state has marked hints.
LEMMA MatchesMarked ==
    ASSUME NEW s, GoodState(s), NEW c, Matches(s, c)
    PROVE  {c.mode, c.usage} \subseteq Marked
BY DEF GoodState, Valid, Matches

\* A policy that is not effective is withdrawn on the layer read back.
LEMMA OverruledKeeps ==
    ASSUME IInv, NEW p \in Proc, Overruled(p) PROVE IInv'
<1> DEFINE c == run[p]
           r == [c EXCEPT !.at = "withdraw", !.seen = user]
<1>1. Busy(p) /\ c.at = "verify"
  BY DEF Overruled, At, Busy
<1>2. GoodRun(c) /\ c \in Command /\ c.action = "setup"
  BY <1>1, Running DEF GoodRun
<1>3. GoodState(c.new) /\ c.seats \in Seats /\ Sound(c.old) /\ Extends(c.old, c.new)
  BY <1>1, <1>2 DEF GoodRun
<1>4. {user.mode, user.usage} \subseteq Marked
  BY <1>3, MatchesMarked DEF Overruled
<1>5. r \in Command
  BY <1>2, Typing DEF Command
<1>6. /\ r.at = "withdraw" /\ r.action = "setup" /\ r.seats = c.seats
      /\ r.seen = user /\ r.old = c.old /\ r.new = c.new
  BY <1>2 DEF Command
<1>7. Become(p, r)
  BY DEF Overruled
<1>8. UNCHANGED <<user, state, clean, mine, edited, edits, beside>>
  BY DEF Overruled, Unchecked
<1> HIDE DEF r, c
<1>9. GoodRun(r)
  BY <1>3, <1>4, <1>5, <1>6 DEF GoodRun
<1> QED BY <1>7, <1>8, <1>9, Typing, CommandMoves

\* A repair that is not effective is rolled back on the layer read back.
LEMMA CheckedKeeps ==
    ASSUME IInv, NEW p \in Proc, Checked(p) PROVE IInv'
<1> DEFINE c == run[p]
           r == [c EXCEPT !.at = "undo", !.seen = user]
<1>1. Busy(p) /\ c.at = "check"
  BY DEF Checked, At, Busy
<1>2. GoodRun(c) /\ c \in Command /\ c.action = "repair"
  BY <1>1, Running DEF GoodRun
<1>3. UNCHANGED <<user, state, mine, clean, edits, beside>>
  BY DEF Checked
<1>4. edited' \in BOOLEAN
  <2>1. edited' = edited \/ edited' = FALSE
    BY DEF Checked
  <2> QED BY <2>1, Typing
<1>5. CASE Leave(p)
  BY <1>3, <1>4, <1>5, Typing, LeaveKeeps
<1>6. CASE Matches(c.old, user) /\ Become(p, r)
  <2>1. RepairAllowed(c.base, c.old) /\ Sound(c.old)
    BY <1>1, <1>2 DEF GoodRun
  <2>2. GoodState(c.old)
    BY <2>1 DEF RepairAllowed, Sound
  <2>3. {user.mode, user.usage} \subseteq Marked
    BY <1>6, <2>2, MatchesMarked
  <2>4. r \in Command
    BY <1>2, Typing DEF Command
  <2>5. /\ r.at = "undo" /\ r.action = "repair" /\ r.base = c.base
        /\ r.seen = user /\ r.old = c.old
    BY <1>2 DEF Command
  <2>6. Become(p, r)
    BY <1>6
  <2> HIDE DEF r, c
  <2>7. GoodRun(r)
    BY <2>1, <2>3, <2>4, <2>5 DEF GoodRun
  <2> QED BY <2>6, <2>7, <1>3, <1>4, Typing, CommandMoves
<1> QED BY <1>5, <1>6 DEF Checked

\* A rollback writes a layer and ends the command.
LEMMA UndoKeeps ==
    ASSUME IInv, NEW p \in Proc, Undo(p) PROVE IInv'
<1>1. Busy(p) /\ run[p].at = "undo"
  BY DEF Undo, At, Busy
<1>2. user' \in Config
  BY <1>1, Running, RestoredTyped DEF Undo
<1>3. /\ Leave(p) /\ UNCHANGED <<state, mine, clean, edits, beside>>
      /\ edited' = (edited \/ run[p].action = "repair")
  BY DEF Undo
<1>4. Fair(state') /\ edited' \in BOOLEAN /\ clean' \in BOOLEAN
  BY <1>3, Typing
<1> QED BY <1>2, <1>3, <1>4, LeaveKeeps

\* A rollback after the readback goes on to the state, or ends unanswered.
LEMMA WithdrawKeeps ==
    ASSUME IInv, NEW p \in Proc, Withdraw(p) PROVE IInv'
<1> DEFINE c == run[p]
           r == [c EXCEPT !.at = "unsave"]
<1>1. Busy(p) /\ c.at = "withdraw"
  BY DEF Withdraw, At, Busy
<1>2. GoodRun(c) /\ c \in Command /\ c.action = "setup"
  BY <1>1, Running DEF GoodRun
<1>3. user' \in Config
  BY <1>1, <1>2, RestoredTyped DEF Withdraw
<1>4. UNCHANGED <<state, mine, edited, edits, beside>>
  BY DEF Withdraw, Unchecked
<1>5. Fair(state') /\ edited' \in BOOLEAN
  BY <1>4, Typing
<1>6. CASE Leave(p) /\ clean' = FALSE
  BY <1>3, <1>4, <1>5, <1>6, LeaveKeeps
<1>7. CASE Become(p, r) /\ UNCHANGED clean
  <2>1. /\ GoodState(c.new) /\ c.seats \in Seats /\ Sound(c.old)
        /\ Extends(c.old, c.new)
    BY <1>1, <1>2 DEF GoodRun
  <2>2. r \in Command
    BY <1>2 DEF Command
  <2>3. /\ r.at = "unsave" /\ r.action = "setup" /\ r.seats = c.seats
        /\ r.old = c.old /\ r.new = c.new
    BY <1>2 DEF Command
  <2>4. Become(p, r) /\ UNCHANGED clean
    BY <1>7
  <2> HIDE DEF r, c
  <2>5. GoodRun(r)
    BY <2>1, <2>2, <2>3 DEF GoodRun
  <2> QED BY <2>4, <2>5, <1>3, <1>4, <1>5, Typing, CommandMoves
<1> QED BY <1>6, <1>7 DEF Withdraw, Go

\* What is put back is the state that was read, with what was added to it.
LEMMA StateKeeps ==
    ASSUME IInv, NEW p \in Proc, Unsave(p) \/ Remove(p) PROVE IInv'
<1>1. Busy(p)
  BY DEF Unsave, Remove, At, Busy
<1>2. At(p, "unsave") => Sound(run[p].old) /\ GoodState(run[p].new)
  BY <1>1, Running DEF GoodRun, At
<1>3. \/ state' = NoState
      \/ At(p, "unsave") /\ state' = Reinstated(run[p].old, run[p].new)
  BY DEF Unsave, Remove
<1>4. Fair(state')
  BY <1>2, <1>3, ReinstatedIsFair DEF Fair
<1>5. Leave(p) /\ UNCHANGED <<user, clean, mine, edited, edits, beside>>
  BY DEF Unsave, Remove, Unchecked
<1> QED BY <1>4, <1>5, Typing, LeaveKeeps

\* Every step of a command keeps the invariant.
LEMMA StepKeeps ==
    ASSUME IInv, NEW p \in Proc, Step(p) PROVE IInv'
<1>1. CASE Start(p)
  BY <1>1, StartKeeps
<1>2. CASE Decide(p)
  BY <1>2, DecideKeeps
<1>3. CASE Stop(p) \/ Verified(p) \/ UndoFails(p) \/ StateStays(p) \/ Killed(p)
  BY <1>3, EndsKeep
<1>4. CASE Write(p)
  BY <1>4, WriteKeeps
<1>5. CASE WriteUnanswered(p)
  BY <1>5, WriteUnansweredKeeps
<1>6. CASE Save(p) \/ SaveFails(p)
  BY <1>6, SaveKeeps
<1>7. CASE Overruled(p)
  BY <1>7, OverruledKeeps
<1>8. CASE Checked(p)
  BY <1>8, CheckedKeeps
<1>9. CASE Undo(p)
  BY <1>9, UndoKeeps
<1>10. CASE Withdraw(p)
  BY <1>10, WithdrawKeeps
<1>11. CASE Unsave(p) \/ Remove(p)
  BY <1>11, StateKeeps
<1> QED BY <1>1, <1>2, <1>3, <1>4, <1>5, <1>6, <1>7, <1>8, <1>9, <1>10, <1>11 DEF Step

\* The user edits the layer only.
LEMMA UserKeeps ==
    ASSUME IInv, UserStep PROVE IInv'
<1>1. UNCHANGED <<state, run, clean, beside>>
  BY DEF UserStep, EditHint, EditControls, EditLauncher, GrowTable, PutBack, Note
<1>2. user \in Config /\ mine \in Config /\ state \in State \cup {NoState}
  BY DEF IInv, TypeOK
<1>3. user' \in Config
  <2>1. CASE EditHint
    BY <2>1, <1>2 DEF EditHint, Config
  <2>2. CASE EditControls
    BY <2>2, <1>2 DEF EditControls, Config
  <2>3. CASE EditLauncher
    BY <2>3, <1>2 DEF EditLauncher, Config
  <2>4. CASE GrowTable
    BY <2>4, <1>2 DEF GrowTable, Config, Feature
  <2>5. CASE PutBack
    <3>1. state # NoState
      BY <2>5 DEF PutBack, Holding
    <3>2. state \in State
      BY <3>1, <1>2
    <3>3. Installed(user, state) \in Config
      BY <1>2, <3>2, LayersTyped
    <3> HIDE DEF Installed
    <3> QED BY <2>5, <3>3 DEF PutBack, Config, Feature
  <2> QED BY <2>1, <2>2, <2>3, <2>4, <2>5 DEF UserStep
<1>4. mine' \in Config
  <2>1. CASE EditHint
    BY <2>1, <1>2 DEF EditHint, Config
  <2>2. CASE EditControls
    BY <2>2, <1>2 DEF EditControls, Config
  <2>3. CASE EditLauncher
    BY <2>3, <1>2 DEF EditLauncher, Config
  <2>4. CASE GrowTable \/ PutBack
    BY <2>4, <1>2 DEF GrowTable, PutBack
  <2> QED BY <2>1, <2>2, <2>3, <2>4 DEF UserStep
<1>5. edits' \in Nat
  <2>1. edits \in Nat
    BY Typing
  <2>2. edits' = edits \/ edits' = edits + 1
    BY DEF UserStep, EditHint, EditControls, EditLauncher, GrowTable, PutBack, Note
  <2> QED BY <2>1, <2>2
<1>6. edited' \in BOOLEAN
  <2>1. edited \in BOOLEAN
    BY Typing
  <2>2. \/ edited' = FALSE
        \/ edited' = (edited \/ Held)
        \/ edited' = (edited \/ TRUE)
        \/ \E l \in Launcher : edited' = (edited \/ HeldLauncher(l))
    BY DEF UserStep, EditHint, EditControls, EditLauncher, GrowTable, PutBack, Note
  <2> QED BY <2>1, <2>2
<1>7. TypeOK'
  BY <1>1, <1>3, <1>4, <1>5, <1>6 DEF IInv, TypeOK
<1> QED BY <1>1, <1>7 DEF IInv, Busy, Fair

\* The invariant holds of the initial states and of every step.
LEMMA Inductive == Spec => []IInv
<1>1. Init => IInv
  <2>1. SUFFICES ASSUME Init PROVE IInv
    OBVIOUS
  <2>2. user \in Config
    BY <2>1 DEF Init, Own
  <2> QED BY <2>1, <2>2 DEF Init, IInv, TypeOK, Fair, Busy
<1>2. IInv /\ [Next]_vars => IInv'
  <2>1. SUFFICES ASSUME IInv, [Next]_vars PROVE IInv'
    OBVIOUS
  <2>2. CASE UserStep
    BY <2>1, <2>2, UserKeeps
  <2>3. CASE \E p \in Proc : Step(p)
    BY <2>1, <2>3, StepKeeps
  <2>4. CASE UNCHANGED vars
    BY <2>1, <2>4 DEF vars, IInv, TypeOK, Busy
  <2> QED BY <2>1, <2>2, <2>3, <2>4 DEF Next
<1> QED BY <1>1, <1>2, PTL DEF Spec

-----------------------------------------------------------------------------
(* The theorems. *)

\* Commands, layers and states keep their types.
THEOREM TypeCorrect == Spec => []TypeOK
<1>1. IInv => TypeOK
  BY DEF IInv
<1> QED BY <1>1, Inductive, PTL

\* What a setup saves the next command reads; only what is written back after
\* the readback may be refused, and there for its launchers alone.
THEOREM SavedStatesAreRead == Spec => OnlyReinstatedIsRefused
<1> DEFINE Blamed ==
      \E p \in Proc :
         /\ At(p, "unsave") /\ run[p].old # NoState
         /\ Valid([state' EXCEPT !.previous.mcp = run[p].old.previous.mcp])
<1>1. ASSUME IInv, Next, Readable(state), ~ Readable(state')
      PROVE  Blamed
  <2>1. state' # state /\ state' # NoState
    BY <1>1 DEF Readable
  <2>2. PICK p \in Proc : Save(p) \/ SaveFails(p) \/ Unsave(p)
    BY <1>1, <2>1 DEF Next, UserStep, EditHint, EditControls, EditLauncher, GrowTable,
              PutBack, Note, Step, Start, Decide, Stop, Write, WriteUnanswered, Verified,
              Overruled, Checked, Undo, UndoFails, Withdraw, Remove, StateStays, Killed
  <2>3. Busy(p) /\ GoodRun(run[p])
    BY <1>1, <2>2, Running DEF Save, SaveFails, Unsave, At, Busy
  <2>4. ~ (Save(p) \/ SaveFails(p))
    <3>1. SUFFICES ASSUME Save(p) \/ SaveFails(p) PROVE FALSE
      OBVIOUS
    <3>2. state' = run[p].new
      BY <2>1, <3>1 DEF Save, SaveFails
    <3>3. GoodState(run[p].new)
      BY <2>3, <3>1 DEF Save, SaveFails, At, GoodRun
    <3> QED BY <1>1, <3>2, <3>3 DEF GoodState, Readable
  <2> DEFINE s == run[p].old
             n == run[p].new
  <2>5. At(p, "unsave") /\ state' = Reinstated(s, n) /\ Sound(s)
    BY <2>2, <2>3, <2>4 DEF Unsave, GoodRun
  <2> HIDE DEF s, n
  <2>6. s # NoState /\ GoodState(s) /\ state' = [s EXCEPT !.previous.mcp = n.previous.mcp]
    BY <1>1, <2>1, <2>5, ReadIsSound DEF Reinstated, Sound
  <2>7. [state' EXCEPT !.previous.mcp = s.previous.mcp] = s
    <3>1. s \in State /\ s.previous \in Previous
      BY <2>6 DEF GoodState, State
    <3> QED BY <2>6, <3>1 DEF State, Previous
  <2>8. Valid(s)
    BY <2>6 DEF GoodState
  <2> QED BY <2>5, <2>6, <2>7, <2>8 DEF s
<1>2. IInv /\ [Next]_vars => [Readable(state) /\ ~ Readable(state') => Blamed]_vars
  BY <1>1
<1>3. Spec => [][Readable(state) /\ ~ Readable(state') => Blamed]_vars
  BY <1>2, Inductive, PTL DEF Spec
<1> QED BY <1>3 DEF OnlyReinstatedIsRefused

\* No state holds a text of the plugin as the user's.
THEOREM PolicyNotRestored == Spec => []PolicyIsNeverRestored
<1>1. IInv => PolicyIsNeverRestored
  BY DEF IInv, Fair, FairState, PolicyIsNeverRestored
<1> QED BY <1>1, Inductive, PTL

\* A step that changes the layer while one command moves is a write of that
\* command, on the layer it names, or a rollback, on a layer with the marker.
LEMMA LayerSteps ==
    ASSUME IInv, Next, NEW p \in Proc, run'[p] # run[p]
    PROVE  \/ user' = user
           \/ /\ Busy(p) /\ run[p].at = "write" /\ user = run[p].seen
              /\ user' = Written(run[p]) /\ state' = state
           \/ /\ Busy(p) /\ run[p].at \in {"undo", "withdraw"} /\ user = run[p].seen
              /\ user' = Restored(run[p]) /\ state' = state
<1>1. run \in [Proc -> Command \cup {Idle}]
  BY DEF IInv, TypeOK
<1>2. CASE UserStep
  BY <1>2 DEF UserStep, EditHint, EditControls, EditLauncher, GrowTable, PutBack, Note
<1>3. ASSUME NEW q \in Proc, Step(q)
      PROVE  \/ user' = user
             \/ /\ Busy(p) /\ run[p].at = "write" /\ user = run[p].seen
                /\ user' = Written(run[p]) /\ state' = state
             \/ /\ Busy(p) /\ run[p].at \in {"undo", "withdraw"} /\ user = run[p].seen
                /\ user' = Restored(run[p]) /\ state' = state
  <2>1. \E r : run' = [run EXCEPT ![q] = r]
    BY <1>3 DEF Step, Start, Decide, Stop, Write, WriteUnanswered, Save, SaveFails,
                Verified, Overruled, Checked, Undo, UndoFails, Withdraw, Unsave, Remove,
                StateStays, Killed, Leave, Go, Become
  <2>2. p = q
    BY <2>1, <1>1
  <2>3. CASE Write(p) \/ WriteUnanswered(p)
    BY <2>3 DEF Write, WriteUnanswered, At, Busy
  <2>4. CASE Undo(p) \/ Withdraw(p)
    BY <2>4 DEF Undo, Withdraw, At, Busy
  <2>5. CASE ~ (Write(p) \/ WriteUnanswered(p) \/ Undo(p) \/ Withdraw(p))
    BY <1>3, <2>2, <2>5 DEF Step, Start, Decide, Stop, Save, SaveFails, Verified,
                Overruled, Checked, UndoFails, Unsave, Remove, StateStays, Killed
  <2> QED BY <2>3, <2>4, <2>5
<1> QED BY <1>2, <1>3 DEF Next

\* A write that changes a hint without the marker is that of a setup that was
\* told to, and the setup holds what it replaces.
LEMMA WriteKeepsText ==
    ASSUME NEW r, GoodRun(r), r.at = "write",
           \/ r.base.mode \in Text /\ Written(r).mode # r.base.mode
           \/ r.base.usage \in Text /\ Written(r).usage # r.base.usage
    PROVE  /\ r.action = "setup" /\ r.replace
           /\ r.new.previous.mode = r.base.mode \/ r.base.mode \in Marked
           /\ r.new.previous.usage = r.base.usage \/ r.base.usage \in Marked
<1>1. r.base \in Config /\ r.action \in {"setup", "repair", "disable"} /\ Sound(r.old)
  BY DEF GoodRun, Command
<1>2. ~ ({r.base.mode, r.base.usage} \subseteq Marked)
  BY TextsAreDistinct
<1>3. ASSUME r.old # NoState, Matches(r.old, r.base)
      PROVE  FALSE
  BY <1>1, <1>2, <1>3, MatchesMarked DEF Sound
<1>4. r.action # "repair"
  BY <1>2 DEF GoodRun, RepairAllowed
<1>5. r.action # "disable"
  <2>1. SUFFICES ASSUME r.action = "disable" PROVE FALSE
    OBVIOUS
  <2>2. DisableAllowed(r.base, r.old)
    BY <2>1 DEF GoodRun
  <2>3. r.old = NoState
    BY <2>2, <1>3 DEF DisableAllowed
  <2>4. Written(r) = Disabled(r.base, NoState)
    BY <2>1, <2>3 DEF Written
  <2>5. /\ r.base.mode \notin Marked => Written(r).mode = r.base.mode
        /\ r.base.usage \notin Marked => Written(r).usage = r.base.usage
    BY <2>4, <1>1 DEF Disabled, Config
  <2> QED BY <2>5, TextsAreDistinct
<1>6. /\ SetupAllowed(r.base, r.old, r.seats, r.replace)
      /\ r.new = Prepared(r.base, r.old, r.seats)
  BY <1>1, <1>4, <1>5 DEF GoodRun
<1>7. r.old = NoState
  BY <1>6, <1>3 DEF SetupAllowed
<1>8. r.replace
  <2>1. {r.base.mode, r.base.usage} \cap Text # {}
    OBVIOUS
  <2> QED BY <1>6, <1>7, <2>1 DEF SetupAllowed
<1>9. r.new.previous = RestoreData(r.base, NoState, Touches(r.base, NoState, r.seats))
  BY <1>6, <1>7 DEF Prepared
<1> QED BY <1>1, <1>4, <1>5, <1>8, <1>9 DEF RestoreData

\* No step of the plugin changes the user's text but a setup told to, which
\* holds it.
THEOREM UserTextKept == Spec => UserTextIsKept
<1> DEFINE Kept(p) ==
      /\ run'[p] # run[p]
      /\ \/ user.mode \in Text /\ user'.mode # user.mode
         \/ user.usage \in Text /\ user'.usage # user.usage
      => /\ run[p].action = "setup" /\ run[p].replace /\ run[p].at = "write"
         /\ run[p].new.previous.mode = user.mode \/ user.mode \in Marked
         /\ run[p].new.previous.usage = user.usage \/ user.usage \in Marked
<1>1. ASSUME IInv, Next, NEW p \in Proc
      PROVE  Kept(p)
  <2>1. SUFFICES ASSUME run'[p] # run[p],
                        \/ user.mode \in Text /\ user'.mode # user.mode
                        \/ user.usage \in Text /\ user'.usage # user.usage
                 PROVE  /\ run[p].action = "setup" /\ run[p].replace /\ run[p].at = "write"
                        /\ run[p].new.previous.mode = user.mode \/ user.mode \in Marked
                        /\ run[p].new.previous.usage = user.usage \/ user.usage \in Marked
    OBVIOUS
  <2>2. CASE Busy(p) /\ run[p].at = "write" /\ user = run[p].seen
             /\ user' = Written(run[p])
    <3>1. GoodRun(run[p]) /\ run[p].base = user
      BY <1>1, <2>2, Running DEF GoodRun
    <3> QED BY <2>1, <2>2, <3>1, WriteKeepsText
  <2>3. CASE Busy(p) /\ run[p].at \in {"undo", "withdraw"} /\ user = run[p].seen
    <3>1. {user.mode, user.usage} \subseteq Marked
      BY <1>1, <2>3, Running DEF GoodRun
    <3> QED BY <2>1, <3>1, TextsAreDistinct
  <2>4. user' # user
    BY <2>1
  <2> QED BY <1>1, <2>1, <2>2, <2>3, <2>4, LayerSteps
<1>2. IInv /\ [Next]_vars => [\A p \in Proc : Kept(p)]_vars
  BY <1>1
<1>3. Spec => [][\A p \in Proc : Kept(p)]_vars
  BY <1>2, Inductive, PTL DEF Spec
<1> QED BY <1>3 DEF UserTextIsKept

\* A repair that moves leaves the state file alone.
LEMMA RepairLeavesState ==
    ASSUME IInv, Next, NEW p \in Proc, Busy(p), run[p].action = "repair",
           run'[p] # run[p]
    PROVE  state' = state
<1>1. run \in [Proc -> Command \cup {Idle}]
  BY DEF IInv, TypeOK
<1>2. CASE UserStep
  BY <1>2 DEF UserStep, EditHint, EditControls, EditLauncher, GrowTable, PutBack, Note
<1>3. ASSUME NEW q \in Proc, Step(q)
      PROVE  state' = state
  <2>1. \E r : run' = [run EXCEPT ![q] = r]
    BY <1>3 DEF Step, Start, Decide, Stop, Write, WriteUnanswered, Save, SaveFails,
                Verified, Overruled, Checked, Undo, UndoFails, Withdraw, Unsave, Remove,
                StateStays, Killed, Leave, Go, Become
  <2>2. p = q
    BY <2>1, <1>1
  <2>3. run[p].at \notin {"save", "unsave", "remove"}
    BY Running DEF GoodRun
  <2>4. ~ (Save(p) \/ SaveFails(p) \/ Unsave(p) \/ Remove(p))
    BY <2>3 DEF Save, SaveFails, Unsave, Remove, At
  <2> QED BY <1>3, <2>2, <2>4 DEF Step, Start, Decide, Stop, Write, WriteUnanswered,
                Verified, Overruled, Checked, Undo, UndoFails, Withdraw, StateStays, Killed
<1> QED BY <1>2, <1>3 DEF Next

\* A repair writes marked hints over marked hints and nothing else.
THEOREM RepairNarrow == Spec => RepairIsNarrow
<1> DEFINE Narrow(p) ==
      run[p] # Idle /\ run[p].action = "repair" /\ run'[p] # run[p]
      => /\ state' = state
         /\ user' # user =>
              /\ {user.mode, user.usage, user'.mode, user'.usage} \subseteq Marked
              /\ user' = [user EXCEPT !.mode = user'.mode,
                                      !.usage = user'.usage]
<1>1. ASSUME IInv, Next, NEW p \in Proc
      PROVE  Narrow(p)
  <2>1. SUFFICES ASSUME Busy(p), run[p].action = "repair", run'[p] # run[p],
                        user' # user
                 PROVE  /\ {user.mode, user.usage, user'.mode, user'.usage} \subseteq Marked
                        /\ user' = [user EXCEPT !.mode = user'.mode,
                                                !.usage = user'.usage]
    BY <1>1, RepairLeavesState DEF Busy
  <2>2. GoodRun(run[p]) /\ user \in Config
    BY <1>1, <2>1, Running, Typing
  <2>3. CASE run[p].at = "write" /\ user = run[p].seen /\ user' = Written(run[p])
    <3>1. run[p].base = user /\ RepairAllowed(user, run[p].old)
      BY <2>1, <2>2, <2>3 DEF GoodRun
    <3>2. {user'.mode, user'.usage} \subseteq Marked
      BY <2>1, <2>2, <2>3, WrittenIsMarked
    <3>3. user' = Repaired(user, run[p].old)
      BY <2>1, <2>3, <3>1 DEF Written
    <3>4. user' = [user EXCEPT !.mode = user'.mode, !.usage = user'.usage]
      BY <3>3, <2>2 DEF Repaired, Config
    <3> QED BY <3>1, <3>2, <3>4 DEF RepairAllowed
  <2>4. CASE run[p].at \in {"undo", "withdraw"} /\ user = run[p].seen
             /\ user' = Restored(run[p])
    <3>1. {user.mode, user.usage} \subseteq Marked
      BY <2>2, <2>4 DEF GoodRun
    <3>2. {run[p].base.mode, run[p].base.usage} \subseteq Marked
      BY <2>1, <2>2, <2>4 DEF GoodRun, RepairAllowed
    <3>3. user' = [user EXCEPT !.mode = run[p].base.mode, !.usage = run[p].base.usage]
      BY <2>1, <2>4 DEF Restored
    <3>4. user'.mode = run[p].base.mode /\ user'.usage = run[p].base.usage
      BY <3>3, <2>2 DEF Config
    <3> QED BY <3>1, <3>2, <3>3, <3>4
  <2> QED BY <1>1, <2>1, <2>3, <2>4, LayerSteps
<1>2. IInv /\ [Next]_vars => [\A p \in Proc : Narrow(p)]_vars
  BY <1>1
<1>3. Spec => [][\A p \in Proc : Narrow(p)]_vars
  BY <1>2, Inductive, PTL DEF Spec
<1> QED BY <1>3 DEF RepairIsNarrow

=============================================================================
