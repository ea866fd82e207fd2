------------------------- MODULE NativeRestoreProofs -------------------------
(***************************************************************************)
(* Proofs about what NativeRouting restores: without a mishap, the state   *)
(* file holds what the user had, and the layer is the user's with the      *)
(* fields of that state on top.                                            *)
(*                                                                         *)
(* At every place of a command one state is in the layer: the saved one,   *)
(* the one a setup is about to save, the one it goes back to, or none once *)
(* disable has restored the layer.  The invariant Rest ties that state,    *)
(* the layer and the user's own layer; a setup that may be rolled back     *)
(* also knows what it replaced (Before).                                   *)
(***************************************************************************)
EXTENDS NativeRoutingProofs

\* The state s holds what is needed to get from the layer u to the layer m.
Restorable(s, u, m) ==
    /\ s.scalar <=> m.feature = "scalar"
    /\ u.feature \in IF s.scalar THEN {"converted", "grown"} ELSE {"table"}
    /\ s.previous.mode = m.mode
    /\ s.previous.usage = m.usage
    /\ s.previous.controls = m.controls
    /\ \A l \in Launcher :
          IF s.mcp[l] = "untouched" THEN u.mcp[l] = m.mcp[l]
          ELSE s.previous.mcp[l] = m.mcp[l]

\* A layer u with the fields of the state s, edited or not, over the layer m.
Rest(s, u, m, e) ==
    IF s = NoState THEN u = m
    ELSE Restorable(s, u, m) /\ (~ e => Matches(s, u))

\* A layer without the plugin.
IsOwn(m) ==
    /\ m.feature \in {"scalar", "table"}
    /\ {m.mode, m.usage} \subseteq Text \cup {"missing"}
    /\ m.feature = "scalar" => {m.mode, m.usage, m.controls} = {"missing"}

\* A setup has written the layer and its outcome is open.
Applied(c) ==
    c.action = "setup" /\ c.at \in {"save", "verify", "undo", "withdraw"}

\* The state whose fields are in the layer while the command c runs and s is
\* in the file.
Holder(c, s) ==
    CASE Applied(c) -> c.new
      [] c.at = "unsave" -> c.old
      [] c.at = "remove" -> NoState
      [] OTHER -> s

\* What a setup replaced: the layer of the user or one its predecessor held.
Before(c, m) ==
    /\ \A l \in Launcher :
          c.new.mcp[l] = "untouched" => c.old = NoState \/ c.old.mcp[l] = "untouched"
    /\ IF c.old = NoState
       THEN /\ c.base.feature = m.feature
            /\ c.base.mode = m.mode
            /\ c.base.usage = m.usage
            /\ c.base.controls = m.controls
       ELSE /\ Matches(c.old, c.base)
            /\ c.old.scalar <=> m.feature = "scalar"
            /\ c.old.previous.mode = m.mode
            /\ c.old.previous.usage = m.usage
            /\ c.old.previous.controls = m.controls
    /\ \A l \in Launcher :
          c.new.mcp[l] # "untouched" =>
             IF c.old = NoState \/ c.old.mcp[l] = "untouched"
             THEN c.base.mcp[l] = m.mcp[l]
             ELSE c.old.previous.mcp[l] = m.mcp[l]

Knows(c, s, m) ==
    /\ c.at = "write" \/ (c.action = "repair" /\ c.at # "read") => c.old = s
    /\ Applied(c) =>
          /\ Before(c, m)
          /\ s = IF c.at \in {"verify", "withdraw"} THEN c.new ELSE c.old

Quiet ==
    /\ IsOwn(mine)
    /\ \A p, q \in Proc : Busy(p) /\ Busy(q) => p = q
    /\ AtRest => Rest(state, user, mine, edited)
    /\ \A p \in Proc :
          Busy(p) => /\ Rest(Holder(run[p], state), user, mine, edited)
                     /\ Knows(run[p], state, mine)

QInv == clean => Quiet

-----------------------------------------------------------------------------
(* What the invariant is for. *)

\* At rest the state file holds what the user had.
LEMMA QuietIsSaved == QInv => OriginalsAreSaved
<1> SUFFICES ASSUME Rest(state, user, mine, edited)
             PROVE  IF state = NoState THEN user = mine
                    ELSE /\ state.scalar <=> mine.feature = "scalar"
                         /\ state.previous.mode = mine.mode
                         /\ state.previous.usage = mine.usage
                         /\ state.previous.controls = mine.controls
                         /\ \A l \in Launcher :
                               IF state.mcp[l] = "untouched"
                               THEN user.mcp[l] = mine.mcp[l]
                               ELSE state.previous.mcp[l] = mine.mcp[l]
    BY DEF QInv, Quiet, OriginalsAreSaved
<1> QED BY DEF Rest, Restorable

\* At rest layer and state file agree.
LEMMA QuietAgrees == IInv /\ QInv => LayerAndStateAgree
<1> SUFFICES ASSUME Fair(state), Rest(state, user, mine, edited), IsOwn(mine),
                    ~ edited
             PROVE  IF state = NoState
                    THEN Status(user, state) \in {"inactive", "partial or user-authored"}
                    ELSE /\ Status(user, state) = "installed"
                         /\ DisableAllowed(user, state)
    BY DEF IInv, QInv, Quiet, LayerAndStateAgree
<1>1. CASE state = NoState
    <2>1. user.mode \notin Marked
        BY <1>1, TextsAreDistinct DEF Rest, IsOwn
    <2> QED BY <1>1, <2>1 DEF Status
<1>2. CASE state # NoState
    <2>1. Matches(state, user)
        BY <1>2 DEF Rest
    <2>2. {user.mode, user.usage} \subseteq Marked
        BY <1>2, <2>1 DEF Matches, Fair, FairState
    <2>3. user.controls = "ours"
        BY <2>1 DEF Matches
    <2> QED BY <1>2, <2>1, <2>2, <2>3 DEF Status, DisableAllowed
<1> QED BY <1>1, <1>2

-----------------------------------------------------------------------------
(* What the plugin makes of a layer. *)

\* Layers are equal field by field.
LEMMA SameLayer ==
    ASSUME NEW c \in Config, NEW d \in Config,
           c.feature = d.feature, c.mode = d.mode, c.usage = d.usage,
           c.controls = d.controls, \A l \in Launcher : c.mcp[l] = d.mcp[l]
    PROVE  c = d
<1>1. c.mcp = d.mcp
    BY DEF Config
<1> QED BY <1>1 DEF Config

\* The layer of the user holds no text of the plugin.
LEMMA OwnIsUnmarked ==
    ASSUME NEW m, IsOwn(m)
    PROVE  m.mode \notin Marked /\ m.usage \notin Marked
    BY TextsAreDistinct DEF IsOwn

\* What a setup will save, field by field.
LEMMA PreparedFields ==
    ASSUME NEW c \in Config, NEW s, Sound(s), NEW seats \in Seats
    PROVE  LET t == Touches(c, s, seats)
               n == Prepared(c, s, seats)
           IN  /\ n.scalar = IF s # NoState THEN s.scalar ELSE c.feature = "scalar"
               /\ n.previous = RestoreData(c, s, t)
               /\ \A l \in Launcher : n.mcp[l] = "untouched" <=> l \notin t
               /\ s # NoState => \A l \in Launcher : s.mcp[l] # "untouched" => l \in t
<1> DEFINE t == Touches(c, s, seats)
           n == Prepared(c, s, seats)
<1>1. /\ n.scalar = IF s # NoState THEN s.scalar ELSE c.feature = "scalar"
      /\ n.previous = RestoreData(c, s, t)
    BY DEF Prepared
<1>2. \A l \in Launcher :
         n.mcp[l] = IF l \notin t THEN "untouched"
                    ELSE IF Claude[seats] # NoClaude /\ Claude[seats].launcher = l
                         THEN "on" ELSE "off"
    BY DEF Prepared
<1>3. s # NoState => \A l \in Launcher : s.mcp[l] # "untouched" => l \in t
    BY DEF Touches
<1> HIDE DEF t, n
<1>4. \A l \in Launcher : n.mcp[l] = "untouched" <=> l \notin t
    BY <1>2
<1> QED BY <1>1, <1>3, <1>4 DEF t, n

\* The layer a setup writes holds what it will save.
LEMMA InstalledMatches ==
    ASSUME NEW c \in Config, NEW s, GoodState(s),
           s.scalar => c.feature \in {"scalar", "converted"}
    PROVE  Matches(s, Installed(c, s))
<1>1. /\ Installed(c, s).mode = s.mode /\ Installed(c, s).usage = s.usage
      /\ Installed(c, s).controls = "ours"
      /\ Installed(c, s).feature = IF c.feature = "scalar" THEN "converted" ELSE c.feature
      /\ \A l \in Launcher : Installed(c, s).mcp[l] =
            IF s.mcp[l] = "untouched" THEN c.mcp[l] ELSE s.mcp[l]
    BY DEF Installed
<1> QED BY <1>1 DEF Matches

\* A setup on the layer of the user holds it as restore data.
LEMMA FirstSetup ==
    ASSUME NEW m \in Config, IsOwn(m), NEW seats \in Seats
    PROVE  LET n == Prepared(m, NoState, seats)
           IN  Restorable(n, Installed(m, n), m) /\ Matches(n, Installed(m, n))
<1> DEFINE n == Prepared(m, NoState, seats)
           u == Installed(m, n)
           t == Touches(m, NoState, seats)
<1>1. Sound(NoState)
    BY DEF Sound
<1>2. /\ n.scalar = (m.feature = "scalar")
      /\ n.previous = RestoreData(m, NoState, t)
      /\ \A l \in Launcher : n.mcp[l] = "untouched" <=> l \notin t
    BY <1>1, PreparedFields
<1>3. m.mode \notin Marked /\ m.usage \notin Marked
    BY OwnIsUnmarked
<1>4. /\ n.previous.mode = m.mode /\ n.previous.usage = m.usage
      /\ n.previous.controls = m.controls
      /\ \A l \in Launcher : n.previous.mcp[l] =
            IF l \in t THEN m.mcp[l] ELSE "untouched"
    BY <1>2, <1>3 DEF RestoreData
<1>5. /\ u.feature = IF m.feature = "scalar" THEN "converted" ELSE m.feature
      /\ \A l \in Launcher : u.mcp[l] =
            IF n.mcp[l] = "untouched" THEN m.mcp[l] ELSE n.mcp[l]
    BY DEF Installed
<1>6. GoodState(n)
    BY <1>1, PreparedIsGood
<1> HIDE DEF n
<1>7. Matches(n, u)
    BY <1>2, <1>6, InstalledMatches
<1> HIDE DEF u, t
<1>8. Restorable(n, u, m)
    BY <1>2, <1>4, <1>5 DEF Restorable, IsOwn
<1> QED BY <1>7, <1>8 DEF n, u

\* A setup over the fields of another one keeps the restore data, and takes up
\* the launchers it is the first to hold.
LEMMA NextSetup ==
    ASSUME NEW b \in Config, NEW m, NEW s, GoodState(s), s # NoState,
           Restorable(s, b, m), Matches(s, b), NEW seats \in Seats
    PROVE  LET n == Prepared(b, s, seats)
           IN  /\ Restorable(n, Installed(b, n), m)
               /\ Matches(n, Installed(b, n))
               /\ \A l \in Launcher :
                     /\ n.mcp[l] = "untouched" => s.mcp[l] = "untouched"
                     /\ n.mcp[l] # "untouched" =>
                           IF s.mcp[l] = "untouched" THEN b.mcp[l] = m.mcp[l]
                           ELSE s.previous.mcp[l] = m.mcp[l]
<1> DEFINE n == Prepared(b, s, seats)
           u == Installed(b, n)
           t == Touches(b, s, seats)
<1>1. Sound(s)
    BY DEF Sound
<1>2. /\ n.scalar = s.scalar
      /\ n.previous = RestoreData(b, s, t)
      /\ \A l \in Launcher : n.mcp[l] = "untouched" <=> l \notin t
      /\ \A l \in Launcher : s.mcp[l] # "untouched" => l \in t
    BY <1>1, PreparedFields
<1>3. /\ s \in State /\ s.previous \in Previous
      /\ \A l \in Launcher : s.mcp[l] = "untouched" <=> s.previous.mcp[l] = "untouched"
    BY DEF GoodState, Valid, State
<1>4. /\ n.previous.mode = s.previous.mode /\ n.previous.usage = s.previous.usage
      /\ n.previous.controls = s.previous.controls
      /\ \A l \in Launcher : n.previous.mcp[l] =
            IF l \in t /\ s.previous.mcp[l] = "untouched"
            THEN b.mcp[l] ELSE s.previous.mcp[l]
    BY <1>2, <1>3 DEF RestoreData, Previous
<1>5. /\ u.feature = IF b.feature = "scalar" THEN "converted" ELSE b.feature
      /\ \A l \in Launcher : u.mcp[l] =
            IF n.mcp[l] = "untouched" THEN b.mcp[l] ELSE n.mcp[l]
    BY DEF Installed
<1>6. GoodState(n)
    BY <1>1, PreparedIsGood
<1>7. b.feature \in {"converted", "grown", "table"}
      /\ (s.scalar => b.feature = "converted")
    BY DEF Restorable, Matches
<1> HIDE DEF n
<1>8. Matches(n, u)
    BY <1>2, <1>6, <1>7, InstalledMatches
<1> HIDE DEF u, t
<1>9. Restorable(n, u, m)
    BY <1>2, <1>3, <1>4, <1>5, <1>7 DEF Restorable
<1>10. \A l \in Launcher :
          /\ n.mcp[l] = "untouched" => s.mcp[l] = "untouched"
          /\ n.mcp[l] # "untouched" =>
                IF s.mcp[l] = "untouched" THEN b.mcp[l] = m.mcp[l]
                ELSE s.previous.mcp[l] = m.mcp[l]
    BY <1>2 DEF Restorable
<1> QED BY <1>8, <1>9, <1>10 DEF n, u

\* A rollback is back at what the setup replaced.
LEMMA BackAtRest ==
    ASSUME NEW u \in Config, NEW m \in Config, NEW c, c.base \in Config,
           Sound(c.old), Restorable(c.new, u, m), Before(c, m), IsOwn(m), NEW e
    PROVE  Rest(c.old, RolledBack(u, c.base, c.new), m, e)
<1> DEFINE b == c.base
           n == c.new
           s == c.old
           w == RolledBack(u, b, n)
<1>1. /\ w.feature = IF n.scalar THEN b.feature ELSE u.feature
      /\ w.mode = b.mode /\ w.usage = b.usage /\ w.controls = b.controls
      /\ \A l \in Launcher : w.mcp[l] =
            IF n.mcp[l] = "untouched" THEN u.mcp[l] ELSE b.mcp[l]
    BY DEF RolledBack
<1>2. w \in Config
    BY DEF RolledBack, Config
<1> HIDE DEF w
<1>3. CASE s = NoState
    <2>1. w.feature = m.feature
        BY <1>1, <1>3 DEF Restorable, Before, IsOwn
    <2>2. /\ w.mode = m.mode /\ w.usage = m.usage /\ w.controls = m.controls
          /\ \A l \in Launcher : w.mcp[l] = m.mcp[l]
        BY <1>1, <1>3 DEF Restorable, Before
    <2>3. w = m
        BY <1>2, <2>1, <2>2, SameLayer
    <2> QED BY <1>3, <2>3 DEF Rest, w
<1>4. CASE s # NoState
    <2>1. /\ s.scalar <=> m.feature = "scalar"
          /\ n.scalar <=> m.feature = "scalar"
          /\ Matches(s, b)
        BY <1>4 DEF Before, Restorable
    <2>2. w.feature \in IF s.scalar THEN {"converted", "grown"} ELSE {"table"}
        BY <1>1, <2>1 DEF Restorable, Matches
    <2>3. \A l \in Launcher :
             IF s.mcp[l] = "untouched" THEN w.mcp[l] = m.mcp[l]
             ELSE s.previous.mcp[l] = m.mcp[l]
        BY <1>1, <1>4 DEF Restorable, Before
    <2>4. Restorable(s, w, m)
        BY <1>4, <2>1, <2>2, <2>3 DEF Restorable, Before
    <2>5. Matches(s, w)
        <3>1. \A l \in Launcher : s.mcp[l] # "untouched" => w.mcp[l] = s.mcp[l]
            BY <1>1, <1>4, <2>1 DEF Before, Matches
        <3>2. s.scalar => w.feature = "converted"
            BY <1>1, <2>1 DEF Matches
        <3> QED BY <1>1, <2>1, <3>1, <3>2 DEF Matches
    <2> QED BY <1>4, <2>4, <2>5 DEF Rest, w
<1> QED BY <1>3, <1>4

\* Disable is back at the layer of the user.
LEMMA DisabledRestores ==
    ASSUME NEW b \in Config, NEW m \in Config, IsOwn(m), NEW s, GoodState(s),
           s # NoState, Restorable(s, b, m)
    PROVE  Disabled(b, s) = m
<1> DEFINE w == Disabled(b, s)
<1>1. w \in Config
    BY DisabledTyped DEF Sound
<1>2. /\ w.feature = IF s.scalar THEN "scalar" ELSE b.feature
      /\ w.mode = IF s.scalar THEN "missing" ELSE s.previous.mode
      /\ w.usage = IF s.scalar THEN "missing" ELSE s.previous.usage
      /\ w.controls = IF s.scalar THEN "missing"
                      ELSE IF s.previous.controls = "unknown" THEN b.controls
                      ELSE s.previous.controls
      /\ \A l \in Launcher : w.mcp[l] =
            IF s.previous.mcp[l] = "untouched" THEN b.mcp[l] ELSE s.previous.mcp[l]
    BY DEF Disabled
<1> HIDE DEF w
<1>3. w.feature = m.feature
    BY <1>2 DEF Restorable, IsOwn
<1>4. m.controls # "unknown"
    BY DEF Config, Control
<1>5. w.mode = m.mode /\ w.usage = m.usage /\ w.controls = m.controls
    BY <1>2, <1>4 DEF Restorable, IsOwn
<1>6. \A l \in Launcher : w.mcp[l] = m.mcp[l]
    BY <1>2 DEF Restorable, GoodState, Valid
<1>7. w = m
    BY <1>1, <1>3, <1>5, <1>6, SameLayer
<1> QED BY <1>7 DEF w

\* A setup that was allowed writes fields over the layer of the user or over
\* its own, and knows which.
LEMMA SetupWrites ==
    ASSUME NEW c, GoodRun(c), c.at = "write", c.action = "setup",
           NEW m \in Config, IsOwn(m), NEW e, Rest(c.old, c.base, m, e)
    PROVE  /\ Restorable(c.new, Written(c), m)
           /\ Matches(c.new, Written(c))
           /\ Before(c, m)
<1> DEFINE b == c.base
           s == c.old
<1>1. /\ b \in Config /\ c.seats \in Seats /\ Sound(s)
      /\ SetupAllowed(b, s, c.seats, c.replace)
      /\ c.new = Prepared(b, s, c.seats)
    BY DEF GoodRun, Command
<1>2. Written(c) = Installed(b, c.new)
    BY DEF Written
<1>3. CASE s = NoState
    <2>1. b = m
        BY <1>3 DEF Rest
    <2>2. /\ Restorable(c.new, Written(c), m)
          /\ Matches(c.new, Written(c))
        BY <1>1, <1>2, <1>3, <2>1, FirstSetup
    <2>3. Before(c, m)
        BY <1>3, <2>1 DEF Before
    <2> QED BY <2>2, <2>3
<1>4. CASE s # NoState
    <2>1. GoodState(s) /\ Restorable(s, b, m) /\ Matches(s, b)
        BY <1>1, <1>4 DEF Sound, Rest, SetupAllowed
    <2> HIDE DEF s, b
    <2>2. /\ Restorable(c.new, Written(c), m)
          /\ Matches(c.new, Written(c))
          /\ \A l \in Launcher :
                /\ c.new.mcp[l] = "untouched" => s.mcp[l] = "untouched"
                /\ c.new.mcp[l] # "untouched" =>
                      IF s.mcp[l] = "untouched" THEN b.mcp[l] = m.mcp[l]
                      ELSE s.previous.mcp[l] = m.mcp[l]
        BY <1>1, <1>2, <1>4, <2>1, NextSetup
    <2>3. /\ s.scalar <=> m.feature = "scalar"
          /\ s.previous.mode = m.mode
          /\ s.previous.usage = m.usage
          /\ s.previous.controls = m.controls
        BY <2>1 DEF Restorable
    <2>4. Before(c, m)
        BY <1>4, <2>1, <2>2, <2>3 DEF Before, s, b
    <2> QED BY <2>2, <2>4
<1> QED BY <1>3, <1>4

\* A repair finds an edited layer and changes its hints only.
LEMMA RepairWrites ==
    ASSUME NEW c, GoodRun(c), c.at = "write", c.action = "repair",
           NEW m, NEW e, Rest(c.old, c.base, m, e)
    PROVE  Rest(c.old, Written(c), m, e)
<1>1. /\ c.base \in Config
      /\ RepairAllowed(c.base, c.old)
      /\ Written(c) = Repaired(c.base, c.old)
    BY DEF GoodRun, Command, Written
<1>2. c.old # NoState /\ ~ Matches(c.old, c.base)
    BY <1>1 DEF RepairAllowed, Matches
<1>3. Restorable(c.old, c.base, m) /\ e
    BY <1>2 DEF Rest
<1>4. /\ Written(c).feature = c.base.feature
      /\ Written(c).mcp = c.base.mcp
    BY <1>1 DEF Repaired, Config
<1>5. Restorable(c.old, Written(c), m)
    BY <1>3, <1>4 DEF Restorable
<1> QED BY <1>2, <1>3, <1>5 DEF Rest

\* Disable restores the layer of the user; without a state it finds nothing of
\* the plugin and is refused.
LEMMA DisableWrites ==
    ASSUME NEW c, GoodRun(c), c.at = "write", c.action = "disable",
           NEW m \in Config, IsOwn(m), NEW e, Rest(c.old, c.base, m, e)
    PROVE  Written(c) = m
<1>1. /\ c.base \in Config /\ Sound(c.old)
      /\ DisableAllowed(c.base, c.old)
      /\ Written(c) = Disabled(c.base, c.old)
    BY DEF GoodRun, Command, Written
<1>2. c.old # NoState
    BY <1>1, OwnIsUnmarked DEF Rest, DisableAllowed
<1>3. Restorable(c.old, c.base, m) /\ GoodState(c.old)
    BY <1>1, <1>2 DEF Rest, Sound
<1> QED BY <1>1, <1>2, <1>3, DisabledRestores

-----------------------------------------------------------------------------
(* The steps of a command. *)

\* What the invariant says of a command, or of rest.
Going(c, s, u, m, e) ==
    IF c = Idle THEN Rest(s, u, m, e)
    ELSE Rest(Holder(c, s), u, m, e) /\ Knows(c, s, m)

\* It is enough that the command that moves is as it should be.
LEMMA OneMoves ==
    ASSUME IInv, QInv, NEW p \in Proc, NEW d, Become(p, d), mine' = mine,
           clean' => clean, clean' => \A q \in Proc : Busy(q) => q = p,
           clean /\ clean' /\ IsOwn(mine) /\ Going(run[p], state, user, mine, edited)
              => Going(d, state', user', mine, edited')
    PROVE  QInv'
<1> SUFFICES ASSUME clean' PROVE Quiet'
    BY DEF QInv
<1>1. run \in [Proc -> Command \cup {Idle}] /\ run' = [run EXCEPT ![p] = d]
    BY DEF IInv, TypeOK, Become
<1>2. clean /\ Quiet /\ IsOwn(mine)
    BY DEF QInv, Quiet
<1>3. \A q \in Proc : q # p => run[q] = Idle
    BY DEF Busy
<1>4. run'[p] = d /\ \A q \in Proc : q # p => run'[q] = Idle
    BY <1>1, <1>3
<1>5. Going(run[p], state, user, mine, edited)
    <2>1. CASE run[p] = Idle
        BY <1>2, <1>3, <2>1 DEF Quiet, AtRest, Busy, Going
    <2>2. CASE run[p] # Idle
        BY <1>2, <2>2 DEF Quiet, Busy, Going
    <2> QED BY <2>1, <2>2
<1>6. Going(d, state', user', mine, edited')
    BY <1>2, <1>5
<1>7. IsOwn(mine')
    BY <1>2
<1>8. \A q, x \in Proc : run'[q] # Idle /\ run'[x] # Idle => q = x
    BY <1>4
<1>9. (\A q \in Proc : run'[q] = Idle) => Rest(state', user', mine', edited')
    BY <1>4, <1>6 DEF Going
<1>10. ASSUME NEW q \in Proc, run'[q] # Idle
       PROVE  /\ Rest(Holder(run'[q], state'), user', mine', edited')
              /\ Knows(run'[q], state', mine')
    BY <1>4, <1>6, <1>10 DEF Going
<1> QED BY <1>7, <1>8, <1>9, <1>10 DEF Quiet, AtRest, Busy

\* While nothing was cut off, the command that runs is alone.
LEMMA Alone ==
    ASSUME QInv, NEW p \in Proc, Busy(p), clean
    PROVE  \A q \in Proc : Busy(q) => q = p
BY DEF QInv, Quiet

\* A command that starts beside another is not clean; one that starts alone
\* finds the layer at rest.
LEMMA StartStays ==
    ASSUME IInv, QInv, NEW p \in Proc, Start(p) PROVE QInv'
<1>1. PICK action \in {"setup", "repair", "disable"}, seats \in Seats \cup {NoSeats},
          replace \in BOOLEAN :
        Become(p, [at |-> "read", action |-> action, seats |-> seats,
                   replace |-> replace, base |-> user, seen |-> user,
                   old |-> NoState, new |-> NoState])
    BY DEF Start
<1> DEFINE d == [at |-> "read", action |-> action, seats |-> seats,
                 replace |-> replace, base |-> user, seen |-> user,
                 old |-> NoState, new |-> NoState]
<1>2. d.at = "read" /\ d # Idle
    BY DEF Idle
<1>3. UNCHANGED <<user, state, mine, edited>> /\ run[p] = Idle
    BY DEF Start, Busy
<1>4. /\ clean' => clean
      /\ clean' => \A q \in Proc : ~ Busy(q)
    BY DEF Start
<1>5. Become(p, d)
    BY <1>1
<1> HIDE DEF d
<1>6. Going(run[p], state, user, mine, edited)
         => Going(d, state', user', mine, edited')
    BY <1>2, <1>3 DEF Going, Holder, Knows, Applied
<1> QED BY <1>3, <1>4, <1>5, <1>6, OneMoves

\* A decision changes neither layer nor state file.
LEMMA DecideStays ==
    ASSUME IInv, QInv, NEW p \in Proc, Decide(p) PROVE QInv'
<1> DEFINE c == run[p]
           n == IF c.action = "setup" THEN Prepared(c.base, state, c.seats) ELSE NoState
           d == [c EXCEPT !.at = "write", !.old = state, !.new = n]
<1>1. Busy(p) /\ c.at = "read"
    BY DEF Decide, At, Busy
<1>2. c \in Command
    BY <1>1, Running
<1>3. d.at = "write" /\ d.old = state /\ d # Idle
    BY <1>2 DEF Command, Idle
<1>4. UNCHANGED <<user, state, mine, edited, clean>> /\ Become(p, d)
    BY DEF Decide, Unchecked
<1> HIDE DEF n, d
<1>5. Going(c, state, user, mine, edited)
         => Going(d, state', user', mine, edited')
    BY <1>1, <1>3, <1>4 DEF Going, Holder, Knows, Applied, Busy
<1> QED BY <1>1, <1>4, <1>5, Alone, OneMoves

\* A command that ends before it wrote, or after its state was saved, or that
\* is a repair, leaves the saved state in the layer.
LEMMA EndStays ==
    ASSUME IInv, QInv, NEW p \in Proc, Busy(p), Leave(p),
           UNCHANGED <<user, state, mine, edited>>,
           clean' => /\ clean
                     /\ \/ run[p].at \in {"read", "write", "verify"}
                        \/ run[p].action = "repair"
    PROVE  QInv'
<1> DEFINE c == run[p]
<1>1. GoodRun(c)
    BY Running
<1>2. c.at = "verify" => c.action = "setup"
    BY <1>1 DEF GoodRun
<1>3. c.action = "repair" => c.at \notin {"unsave", "remove"}
    BY <1>1 DEF GoodRun
<1>4. ASSUME clean', Going(c, state, user, mine, edited)
      PROVE  Holder(c, state) = state
    <2>1. Knows(c, state, mine)
        BY <1>4 DEF Going, Busy
    <2>2. CASE c.at \in {"read", "write"}
        BY <2>2 DEF Holder, Applied
    <2>3. CASE c.at = "verify"
        BY <1>2, <2>1, <2>3 DEF Holder, Applied, Knows
    <2>4. CASE c.action = "repair"
        BY <1>3, <2>4 DEF Holder, Applied
    <2> QED BY <1>4, <2>2, <2>3, <2>4
<1>5. clean' /\ Going(c, state, user, mine, edited)
         => Going(Idle, state', user', mine, edited')
    BY <1>4 DEF Going, Busy
<1>6. Become(p, Idle)
    BY DEF Leave
<1> QED BY <1>5, <1>6, Alone, OneMoves

\* A refusal, a readback, a rollback or removal that fails, and a kill.
LEMMA EndsStay ==
    ASSUME IInv, QInv, NEW p \in Proc,
           Stop(p) \/ Verified(p) \/ UndoFails(p) \/ StateStays(p) \/ Killed(p)
    PROVE  QInv'
<1>1. /\ Busy(p) /\ Leave(p)
      /\ UNCHANGED <<user, state, mine, edited>>
    BY DEF Stop, Verified, UndoFails, StateStays, Killed, Unchecked, At, Busy
<1>2. clean' => /\ clean
                /\ \/ run[p].at \in {"read", "write", "verify"}
                   \/ run[p].action = "repair"
    BY DEF Stop, Verified, UndoFails, StateStays, Killed, At
<1> QED BY <1>1, <1>2, EndStays

\* A state is not the absence of one.
LEMMA GoodIsSome ==
    ASSUME NEW s, GoodState(s) PROVE s # NoState
<1>1. DOMAIN s = {"seats", "mode", "usage", "mcp", "previous", "scalar"}
    BY DEF GoodState, State
<1>2. DOMAIN NoState = {"seats"}
    BY DEF NoState
<1> QED BY <1>1, <1>2

\* What a write that the App Server accepts leaves in the layer.
LEMMA WriteRests ==
    ASSUME IInv, IsOwn(mine), NEW p \in Proc, Busy(p), run[p].at = "write",
           user = run[p].seen, Going(run[p], state, user, mine, edited)
    PROVE  /\ run[p].old = state
           /\ run[p].action = "setup" =>
                 /\ Rest(run[p].new, Written(run[p]), mine, edited)
                 /\ Before(run[p], mine)
           /\ run[p].action = "repair" => Rest(state, Written(run[p]), mine, edited)
           /\ run[p].action = "disable" => Written(run[p]) = mine
<1> DEFINE c == run[p]
<1>1. /\ GoodRun(c) /\ c.base = user
      /\ c.action = "setup" => GoodState(c.new)
    BY Running DEF GoodRun
<1>2. mine \in Config
    BY Typing
<1>3. Rest(Holder(c, state), user, mine, edited) /\ Knows(c, state, mine)
    BY DEF Going, Busy
<1>4. c.old = state /\ Holder(c, state) = state
    BY <1>3 DEF Knows, Holder, Applied
<1>5. Rest(c.old, c.base, mine, edited)
    BY <1>1, <1>3, <1>4
<1> HIDE DEF c
<1>6. c.action = "setup" => Rest(c.new, Written(c), mine, edited) /\ Before(c, mine)
    <2> SUFFICES ASSUME c.action = "setup"
                 PROVE  Rest(c.new, Written(c), mine, edited) /\ Before(c, mine)
        OBVIOUS
    <2>1. /\ Restorable(c.new, Written(c), mine)
          /\ Matches(c.new, Written(c))
          /\ Before(c, mine)
        BY <1>1, <1>2, <1>5, SetupWrites DEF c
    <2>2. c.new # NoState
        BY <1>1, GoodIsSome
    <2> QED BY <2>1, <2>2 DEF Rest
<1>7. c.action = "repair" => Rest(state, Written(c), mine, edited)
    BY <1>1, <1>4, <1>5, RepairWrites DEF c
<1>8. c.action = "disable" => Written(c) = mine
    BY <1>1, <1>2, <1>5, DisableWrites DEF c
<1> QED BY <1>4, <1>6, <1>7, <1>8 DEF c

\* A write leaves the fields of its setup, the edited fields of the state, or
\* the layer of the user.
LEMMA WriteStays ==
    ASSUME IInv, QInv, NEW p \in Proc, Write(p) PROVE QInv'
<1> DEFINE c == run[p]
<1>1. /\ Busy(p) /\ c.at = "write" /\ user = c.seen /\ user' = Written(c)
      /\ UNCHANGED <<state, clean, mine, edited>>
    BY DEF Write, At, Busy, Unchecked
<1>2. GoodRun(c) /\ c \in Command /\ c.action \in {"setup", "repair", "disable"}
    BY <1>1, Running
<1>3. PICK place \in {"remove", "undo", "save", "check"} :
        /\ Become(p, [c EXCEPT !.seen = user', !.at = place])
        /\ c.action = "disable" <=> place = "remove"
        /\ place = "save" => c.action = "setup"
        /\ place = "check" => c.action = "repair"
    BY <1>2 DEF Write
<1> DEFINE d == [c EXCEPT !.seen = user', !.at = place]
<1>4. /\ d.at = place /\ d.action = c.action /\ d.base = c.base
      /\ d.old = c.old /\ d.new = c.new /\ d # Idle
    BY <1>2 DEF Command, Idle
<1>5. Become(p, d)
    BY <1>3
<1> HIDE DEF d
<1>6. ASSUME IsOwn(mine), Going(c, state, user, mine, edited)
      PROVE  Going(d, state, Written(c), mine, edited)
    <2>1. /\ c.old = state
          /\ c.action = "setup" =>
                /\ Rest(c.new, Written(c), mine, edited)
                /\ Before(c, mine)
          /\ c.action = "repair" => Rest(state, Written(c), mine, edited)
          /\ c.action = "disable" => Written(c) = mine
        BY <1>1, <1>6, WriteRests
    <2> HIDE DEF c
    <2>2. Holder(d, state) = CASE c.action = "setup" -> c.new
                               [] c.action = "repair" -> state
                               [] c.action = "disable" -> NoState
        BY <1>2, <1>3, <1>4 DEF Holder, Applied
    <2>3. Rest(Holder(d, state), Written(c), mine, edited)
        BY <1>2, <2>1, <2>2 DEF Rest
    <2>4. c.action = "setup" => Before(d, mine)
        BY <1>4, <2>1 DEF Before
    <2>5. Knows(d, state, mine)
        BY <1>3, <1>4, <2>1, <2>4 DEF Knows, Applied
    <2> QED BY <1>4, <2>3, <2>5 DEF Going
<1> QED BY <1>1, <1>5, <1>6, Alone, OneMoves

\* A write without an answer is clean only as a repair.
LEMMA SilenceStays ==
    ASSUME IInv, QInv, NEW p \in Proc, WriteUnanswered(p) PROVE QInv'
<1> DEFINE c == run[p]
<1>1. /\ Busy(p) /\ c.at = "write" /\ user = c.seen /\ user' = Written(c)
      /\ UNCHANGED <<state, mine, edited>>
      /\ clean' => clean /\ c.action = "repair"
      /\ Become(p, Idle)
    BY DEF WriteUnanswered, At, Busy, Unchecked, Leave
<1>2. ASSUME clean', IsOwn(mine), Going(c, state, user, mine, edited)
      PROVE  Going(Idle, state, Written(c), mine, edited)
    BY <1>1, <1>2, WriteRests DEF Going
<1> QED BY <1>1, <1>2, Alone, OneMoves

\* A command that only moves on keeps what it knows.
LEMMA Kept ==
    ASSUME NEW c, NEW d, d.base = c.base, d.old = c.old, d.new = c.new, NEW m,
           Before(c, m)
    PROVE  Before(d, m)
BY DEF Before

\* The state that is saved is the one whose fields are in the layer; where the
\* save fails before the replacement, the one before it is still there.
LEMMA SaveStays ==
    ASSUME IInv, QInv, NEW p \in Proc, Save(p) \/ SaveFails(p) PROVE QInv'
<1> DEFINE c == run[p]
<1>1. /\ Busy(p) /\ c.at = "save"
      /\ UNCHANGED <<user, mine, edited>>
      /\ clean' => clean
    BY DEF Save, SaveFails, At, Busy, Unchecked
<1>2. c \in Command /\ c.action = "setup"
    BY <1>1, Running DEF GoodRun
<1>3. PICK place \in {"verify", "undo"} :
        /\ Become(p, [c EXCEPT !.at = place])
        /\ clean' => state' = IF place = "verify" THEN c.new ELSE state
    BY DEF Save, SaveFails, Go
<1> DEFINE d == [c EXCEPT !.at = place]
<1>4. /\ d.at = place /\ d.action = "setup" /\ d.base = c.base
      /\ d.old = c.old /\ d.new = c.new /\ d # Idle
    BY <1>2 DEF Command, Idle
<1>5. Become(p, d)
    BY <1>3
<1> HIDE DEF d
<1>6. ASSUME clean', Going(c, state, user, mine, edited)
      PROVE  Going(d, state', user, mine, edited)
    <2>1. Rest(Holder(c, state), user, mine, edited) /\ Knows(c, state, mine)
        BY <1>1, <1>6 DEF Going, Busy
    <2>2. Holder(c, state) = c.new /\ Before(c, mine) /\ state = c.old
        BY <1>1, <1>2, <2>1 DEF Holder, Applied, Knows
    <2>3. Holder(d, state') = c.new
        BY <1>4 DEF Holder, Applied
    <2>4. Before(d, mine)
        BY <1>4, <2>2, Kept
    <2>5. state' = IF d.at \in {"verify", "withdraw"} THEN d.new ELSE d.old
        BY <1>3, <1>4, <1>6, <2>2
    <2>6. Knows(d, state', mine)
        BY <1>4, <2>4, <2>5 DEF Knows
    <2> QED BY <1>4, <2>1, <2>2, <2>3, <2>6 DEF Going
<1> QED BY <1>1, <1>5, <1>6, Alone, OneMoves

\* A policy that is not effective is still in layer and state file.
LEMMA OverruledStays ==
    ASSUME IInv, QInv, NEW p \in Proc, Overruled(p) PROVE QInv'
<1> DEFINE c == run[p]
           d == [c EXCEPT !.at = "withdraw", !.seen = user]
<1>1. /\ Busy(p) /\ c.at = "verify" /\ Become(p, d)
      /\ UNCHANGED <<user, state, mine, edited, clean>>
    BY DEF Overruled, At, Busy, Unchecked
<1>2. c \in Command /\ c.action = "setup"
    BY <1>1, Running DEF GoodRun
<1>3. /\ d.at = "withdraw" /\ d.action = "setup" /\ d.base = c.base
      /\ d.old = c.old /\ d.new = c.new /\ d # Idle
    BY <1>2 DEF Command, Idle
<1> HIDE DEF d
<1>4. ASSUME Going(c, state, user, mine, edited)
      PROVE  Going(d, state, user, mine, edited)
    <2>1. Rest(Holder(c, state), user, mine, edited) /\ Knows(c, state, mine)
        BY <1>1, <1>4 DEF Going, Busy
    <2>2. Holder(c, state) = c.new /\ Before(c, mine) /\ state = c.new
        BY <1>1, <1>2, <2>1 DEF Holder, Applied, Knows
    <2>3. Holder(d, state) = c.new
        BY <1>3 DEF Holder, Applied
    <2>4. Before(d, mine)
        BY <1>3, <2>2, Kept
    <2>5. Knows(d, state, mine)
        BY <1>3, <2>2, <2>4 DEF Knows
    <2> QED BY <1>3, <2>1, <2>2, <2>3, <2>5 DEF Going
<1> QED BY <1>1, <1>4, Alone, OneMoves

\* A repair that is read back as saved has ended the edit.
LEMMA CheckedStays ==
    ASSUME IInv, QInv, NEW p \in Proc, Checked(p) PROVE QInv'
<1> DEFINE c == run[p]
           d == [c EXCEPT !.at = "undo", !.seen = user]
<1>1. /\ Busy(p) /\ c.at = "check"
      /\ UNCHANGED <<user, state, mine, clean>>
    BY DEF Checked, At, Busy
<1>2. /\ c \in Command /\ c.action = "repair"
      /\ c.old # NoState
    BY <1>1, Running DEF GoodRun, RepairAllowed
<1>3. /\ d.at = "undo" /\ d.action = "repair" /\ d.old = c.old /\ d # Idle
    BY <1>2 DEF Command, Idle
<1>4. ASSUME Going(c, state, user, mine, edited)
      PROVE  Rest(state, user, mine, edited) /\ c.old = state
    <2>1. Rest(Holder(c, state), user, mine, edited) /\ Knows(c, state, mine)
        BY <1>1, <1>4 DEF Going, Busy
    <2> QED BY <1>1, <1>2, <2>1 DEF Holder, Applied, Knows
<1>5. CASE Become(p, Idle) /\ UNCHANGED edited
    <2>1. Going(c, state, user, mine, edited)
             => Going(Idle, state', user', mine, edited')
        BY <1>1, <1>4, <1>5 DEF Going
    <2> QED BY <1>1, <1>5, <2>1, Alone, OneMoves
<1>6. CASE Become(p, d) /\ UNCHANGED edited
    <2> HIDE DEF d
    <2>1. Holder(d, state) = state
        BY <1>3 DEF Holder, Applied
    <2>2. c.old = state => Knows(d, state, mine)
        BY <1>3 DEF Knows, Applied
    <2>3. Going(c, state, user, mine, edited)
             => Going(d, state', user', mine, edited')
        BY <1>1, <1>3, <1>4, <1>6, <2>1, <2>2 DEF Going
    <2> QED BY <1>1, <1>6, <2>3, Alone, OneMoves
<1>7. CASE /\ Matches(c.old, user) /\ state = c.old
           /\ Become(p, Idle) /\ edited' = FALSE
    <2>1. Going(c, state, user, mine, edited)
             => Going(Idle, state', user', mine, edited')
        BY <1>1, <1>2, <1>4, <1>7 DEF Going, Rest
    <2> QED BY <1>1, <1>7, <2>1, Alone, OneMoves
<1> QED BY <1>5, <1>6, <1>7 DEF Checked, Leave

\* What a rollback on the layer it names leaves there.
LEMMA RollbackRests ==
    ASSUME IInv, IsOwn(mine), NEW p \in Proc, Busy(p),
           run[p].at \in {"undo", "withdraw"}, run[p].action = "setup",
           user = run[p].seen, Going(run[p], state, user, mine, edited), NEW e
    PROVE  /\ Rest(run[p].old, Restored(run[p]), mine, e)
           /\ run[p].at = "undo" => state = run[p].old
<1> DEFINE c == run[p]
<1>1. /\ c.base \in Config /\ Sound(c.old) /\ GoodState(c.new)
      /\ Restored(c) = RolledBack(user, c.base, c.new)
    BY Running DEF GoodRun, Restored
<1>2. user \in Config /\ mine \in Config
    BY Typing
<1>3. Rest(Holder(c, state), user, mine, edited) /\ Knows(c, state, mine)
    BY DEF Going, Busy
<1>4. /\ Holder(c, state) = c.new /\ Before(c, mine)
      /\ c.at = "undo" => state = c.old
    BY <1>3 DEF Holder, Applied, Knows
<1>5. Restorable(c.new, user, mine)
    BY <1>1, <1>3, <1>4, GoodIsSome DEF Rest
<1> HIDE DEF c
<1>6. Rest(c.old, RolledBack(user, c.base, c.new), mine, e)
    BY <1>1, <1>2, <1>4, <1>5, BackAtRest
<1> QED BY <1>1, <1>4, <1>6 DEF c

\* A rollback ends at what its command found.
LEMMA UndoStays ==
    ASSUME IInv, QInv, NEW p \in Proc, Undo(p) PROVE QInv'
<1> DEFINE c == run[p]
<1>1. /\ Busy(p) /\ c.at = "undo" /\ user = c.seen /\ user' = Restored(c)
      /\ edited' = (edited \/ c.action = "repair")
      /\ Become(p, Idle)
      /\ UNCHANGED <<state, mine, clean>>
    BY DEF Undo, At, Busy, Leave
<1>2. /\ GoodRun(c) /\ c.action \in {"setup", "repair"}
      /\ c.seen \in Config
    BY <1>1, Running DEF GoodRun
<1>3. ASSUME IsOwn(mine), Going(c, state, user, mine, edited), c.action = "setup"
      PROVE  Rest(state, Restored(c), mine, edited')
    BY <1>1, <1>3, RollbackRests
<1>4. ASSUME Going(c, state, user, mine, edited), c.action = "repair"
      PROVE  Rest(state, Restored(c), mine, edited')
    <2>1. Rest(Holder(c, state), user, mine, edited) /\ Knows(c, state, mine)
        BY <1>1, <1>4 DEF Going, Busy
    <2>2. Rest(state, user, mine, edited) /\ c.old = state /\ state # NoState
        BY <1>1, <1>2, <1>4, <2>1 DEF Holder, Applied, Knows, GoodRun, RepairAllowed
    <2>3. /\ Restored(c).feature = user.feature
          /\ Restored(c).mcp = user.mcp
        BY <1>1, <1>2, <1>4 DEF Restored, Config
    <2>4. Restorable(state, Restored(c), mine)
        BY <2>2, <2>3 DEF Rest, Restorable
    <2>5. edited'
        BY <1>1, <1>4
    <2> QED BY <2>2, <2>4, <2>5 DEF Rest
<1>5. IsOwn(mine) /\ Going(c, state, user, mine, edited)
         => Going(Idle, state', user', mine, edited')
    BY <1>1, <1>2, <1>3, <1>4 DEF Going
<1> QED BY <1>1, <1>5, Alone, OneMoves

\* A withdrawal restores the layer before the state file.
LEMMA WithdrawStays ==
    ASSUME IInv, QInv, NEW p \in Proc, Withdraw(p) PROVE QInv'
<1> DEFINE c == run[p]
           d == [c EXCEPT !.at = "unsave"]
<1>1. /\ Busy(p) /\ c.at = "withdraw" /\ user = c.seen /\ user' = Restored(c)
      /\ UNCHANGED <<state, mine, edited>>
    BY DEF Withdraw, At, Busy, Unchecked
<1>2. c \in Command /\ c.action = "setup"
    BY <1>1, Running DEF GoodRun
<1>3. /\ d.at = "unsave" /\ d.action = "setup" /\ d.old = c.old /\ d # Idle
    BY <1>2 DEF Command, Idle
<1>4. CASE Become(p, d) /\ clean' = clean
    <2> HIDE DEF d
    <2>1. Holder(d, state) = c.old /\ Knows(d, state, mine)
        BY <1>3 DEF Holder, Applied, Knows
    <2>2. ASSUME IsOwn(mine), Going(c, state, user, mine, edited)
          PROVE  Rest(c.old, Restored(c), mine, edited)
        BY <1>1, <1>2, <2>2, RollbackRests
    <2>3. IsOwn(mine) /\ Going(c, state, user, mine, edited)
             => Going(d, state', user', mine, edited')
        BY <1>1, <1>3, <2>1, <2>2 DEF Going
    <2> QED BY <1>1, <1>4, <2>3, Alone, OneMoves
<1>5. CASE clean' = FALSE
    BY <1>5 DEF QInv
<1> QED BY <1>4, <1>5 DEF Withdraw, Go

\* A state that is put back holds what it held.
LEMMA ReinstatedRests ==
    ASSUME NEW s, Sound(s), NEW n, GoodState(n), Extends(s, n),
           NEW u, NEW m, NEW e, Rest(s, u, m, e)
    PROVE  Rest(Reinstated(s, n), u, m, e)
<1> DEFINE w == Reinstated(s, n)
<1>1. CASE w = s
    BY <1>1
<1>2. CASE s # NoState /\ w = [s EXCEPT !.previous.mcp = n.previous.mcp]
    <2>1. /\ s \in State /\ s.previous \in Previous
          /\ \A l \in Launcher : s.mcp[l] = "untouched" <=> s.previous.mcp[l] = "untouched"
        BY <1>2 DEF Sound, GoodState, Valid, State
    <2>2. /\ w.scalar = s.scalar /\ w.mcp = s.mcp
          /\ w.mode = s.mode /\ w.usage = s.usage
          /\ w.previous.mode = s.previous.mode /\ w.previous.usage = s.previous.usage
          /\ w.previous.controls = s.previous.controls
          /\ w.previous.mcp = n.previous.mcp
        BY <1>2, <2>1 DEF State, Previous
    <2>3. w # NoState
        <3>1. DOMAIN w = {"seats", "mode", "usage", "mcp", "previous", "scalar"}
            BY <1>2, <2>1 DEF State
        <3>2. DOMAIN NoState = {"seats"}
            BY DEF NoState
        <3> QED BY <3>1, <3>2
    <2> HIDE DEF w
    <2>4. \A l \in Launcher :
             s.mcp[l] # "untouched" => w.previous.mcp[l] = s.previous.mcp[l]
        BY <1>2, <2>1, <2>2 DEF Extends
    <2>5. Restorable(s, u, m) /\ (~ e => Matches(s, u))
        BY <1>2 DEF Rest
    <2>6. Restorable(w, u, m)
        BY <2>2, <2>4, <2>5 DEF Restorable
    <2>7. ~ e => Matches(w, u)
        BY <2>2, <2>5 DEF Matches
    <2> QED BY <2>3, <2>6, <2>7 DEF Rest, w
<1> QED BY <1>1, <1>2 DEF Reinstated

\* The state file follows the layer.
LEMMA FollowStays ==
    ASSUME IInv, QInv, NEW p \in Proc, Unsave(p) \/ Remove(p) PROVE QInv'
<1> DEFINE c == run[p]
<1>1. /\ Busy(p)
      /\ \/ c.at = "unsave" /\ state' = Reinstated(c.old, c.new)
         \/ c.at = "remove" /\ state' = NoState
      /\ UNCHANGED <<user, mine, edited, clean>>
      /\ Become(p, Idle)
    BY DEF Unsave, Remove, At, Busy, Unchecked, Leave
<1>2. ASSUME Going(c, state, user, mine, edited)
      PROVE  Rest(state', user, mine, edited)
    <2>1. Rest(Holder(c, state), user, mine, edited)
        BY <1>1, <1>2 DEF Going, Busy
    <2>2. CASE c.at = "remove"
        BY <1>1, <2>1, <2>2 DEF Holder, Applied
    <2>3. CASE c.at = "unsave"
        <3>1. Sound(c.old) /\ GoodState(c.new) /\ Extends(c.old, c.new)
            BY <1>1, <2>3, Running DEF GoodRun
        <3>2. Rest(c.old, user, mine, edited)
            BY <2>1, <2>3 DEF Holder, Applied
        <3> QED BY <1>1, <2>3, <3>1, <3>2, ReinstatedRests
    <2> QED BY <1>1, <2>2, <2>3
<1>3. Going(c, state, user, mine, edited)
         => Going(Idle, state', user', mine, edited')
    BY <1>1, <1>2 DEF Going
<1> QED BY <1>1, <1>3, Alone, OneMoves

\* Every step of a command keeps what it and the layer agree on.
LEMMA StepStays ==
    ASSUME IInv, QInv, NEW p \in Proc, Step(p) PROVE QInv'
<1>1. CASE Start(p)
    BY <1>1, StartStays
<1>2. CASE Decide(p)
    BY <1>2, DecideStays
<1>3. CASE Stop(p) \/ Verified(p) \/ UndoFails(p) \/ StateStays(p) \/ Killed(p)
    BY <1>3, EndsStay
<1>4. CASE Write(p)
    BY <1>4, WriteStays
<1>5. CASE WriteUnanswered(p)
    BY <1>5, SilenceStays
<1>6. CASE Save(p) \/ SaveFails(p)
    BY <1>6, SaveStays
<1>7. CASE Overruled(p)
    BY <1>7, OverruledStays
<1>8. CASE Checked(p)
    BY <1>8, CheckedStays
<1>9. CASE Undo(p)
    BY <1>9, UndoStays
<1>10. CASE Withdraw(p)
    BY <1>10, WithdrawStays
<1>11. CASE Unsave(p) \/ Remove(p)
    BY <1>11, FollowStays
<1> QED BY <1>1, <1>2, <1>3, <1>4, <1>5, <1>6, <1>7, <1>8, <1>9, <1>10, <1>11 DEF Step

-----------------------------------------------------------------------------
(* The steps of the user. *)

\* The state h is the one whose fields are in the layer, and the user's edits
\* are counted as edits of its fields.
HeldBy(h) ==
    /\ Rest(h, user, mine, edited)
    /\ AtRest => h = state
    /\ \A p \in Proc : Busy(p) => h = Holder(run[p], state)
    /\ IF h = NoState THEN Holding = {}
       ELSE /\ h \in Holding
            /\ \A l \in Launcher : HeldLauncher(l) <=> h.mcp[l] # "untouched"
    /\ Holding = {state} => h = state

\* What the user changes in the layer m, held by h, is not held.
SameHeld(h, m, n) ==
    /\ n.feature = m.feature /\ n.mode = m.mode
    /\ n.usage = m.usage /\ n.controls = m.controls
    /\ \A l \in Launcher : h.mcp[l] # "untouched" => n.mcp[l] = m.mcp[l]

\* At rest the saved state holds the layer.
LEMMA HeldAtRest ==
    ASSUME QInv, clean, AtRest PROVE HeldBy(state)
<1>1. Rest(state, user, mine, edited)
    BY DEF QInv, Quiet
<1>2. \A p \in Proc : ~ Busy(p)
    BY DEF AtRest
<1>3. Holding = {state} \ {NoState}
    <2>1. {q \in Proc : /\ Busy(q) /\ run[q].action = "setup"
                        /\ run[q].at \in {"save", "verify", "undo", "withdraw"}} = {}
        BY <1>2
    <2>2. \A q \in Proc : ~ At(q, "unsave") /\ ~ At(q, "remove")
        BY <1>2 DEF At, Busy
    <2> QED BY <2>1, <2>2 DEF Holding
<1> QED BY <1>1, <1>2, <1>3 DEF HeldBy, HeldLauncher

\* The states that a command alone holds.
LEMMA HoldingOfOne ==
    ASSUME QInv, clean, NEW p \in Proc, Busy(p)
    PROVE  Holding = ((IF Applied(run[p]) THEN {run[p].new} ELSE {})
                      \cup (IF run[p].at = "unsave" THEN {run[p].old} ELSE {})
                      \cup (IF run[p].at \in {"unsave", "remove"} THEN {} ELSE {state}))
                     \ {NoState}
<1> DEFINE c == run[p]
           A == {q \in Proc : /\ Busy(q) /\ run[q].action = "setup"
                              /\ run[q].at \in {"save", "verify", "undo", "withdraw"}}
           B == {q \in Proc : At(q, "unsave")}
<1>1. \A q \in Proc : Busy(q) => q = p
    BY Alone
<1>2. A = IF Applied(c) THEN {p} ELSE {}
    BY <1>1 DEF Applied
<1>3. B = IF c.at = "unsave" THEN {p} ELSE {}
    BY <1>1 DEF At, Busy
<1>4. (\E q \in Proc : At(q, "unsave") \/ At(q, "remove"))
         <=> c.at \in {"unsave", "remove"}
    BY <1>1 DEF At, Busy
<1>5. Holding = ({run[q].new : q \in A} \cup {run[q].old : q \in B}
                 \cup IF \E q \in Proc : At(q, "unsave") \/ At(q, "remove")
                      THEN {} ELSE {state}) \ {NoState}
    BY DEF Holding
<1> HIDE DEF A, B
<1>6. {run[q].new : q \in A} = IF Applied(c) THEN {c.new} ELSE {}
    BY <1>2
<1>7. {run[q].old : q \in B} = IF c.at = "unsave" THEN {c.old} ELSE {}
    BY <1>3
<1> QED BY <1>4, <1>5, <1>6, <1>7

\* While a command runs, the state it holds does.
LEMMA HeldByOne ==
    ASSUME IInv, QInv, clean, NEW p \in Proc, Busy(p)
    PROVE  HeldBy(Holder(run[p], state))
<1> DEFINE c == run[p]
           h == Holder(c, state)
<1>1. Rest(h, user, mine, edited) /\ Knows(c, state, mine)
    BY DEF QInv, Quiet
<1>2. ~ AtRest /\ \A q \in Proc : Busy(q) => q = p
    BY Alone DEF AtRest
<1>3. GoodRun(c)
    BY Running
<1> DEFINE K == Holding
<1>4. K = ((IF Applied(c) THEN {c.new} ELSE {})
           \cup (IF c.at = "unsave" THEN {c.old} ELSE {})
           \cup (IF c.at \in {"unsave", "remove"} THEN {} ELSE {state})) \ {NoState}
    BY HoldingOfOne
<1> HIDE DEF K, c
<1>5. CASE Applied(c)
    <2>1. /\ h = c.new /\ h # NoState
          /\ c.at \notin {"unsave", "remove", "read"}
        BY <1>3, <1>5, GoodIsSome DEF Holder, Applied, GoodRun
    <2>2. Before(c, mine) /\ (state = c.new \/ state = c.old)
        BY <1>1, <1>5 DEF Knows
    <2> HIDE DEF h
    <2>3. K = {h, state} \ {NoState}
        BY <1>4, <1>5, <2>1
    <2>4. h \in K /\ (K = {state} => h = state)
        BY <2>1, <2>3
    <2>5. ASSUME NEW l \in Launcher
          PROVE  (\E s \in K : s.mcp[l] # "untouched") <=> h.mcp[l] # "untouched"
        <3>1. state # NoState /\ h.mcp[l] = "untouched" => state.mcp[l] = "untouched"
            BY <2>1, <2>2 DEF Before
        <3> QED BY <2>3, <2>4, <3>1
    <2> QED BY <1>1, <1>2, <2>1, <2>4, <2>5 DEF HeldBy, HeldLauncher, K, h, c
<1>6. CASE ~ Applied(c)
    <2>1. h = IF c.at = "unsave" THEN c.old
              ELSE IF c.at = "remove" THEN NoState ELSE state
        BY <1>6 DEF Holder
    <2> HIDE DEF h
    <2>2. K = {h} \ {NoState}
        BY <1>4, <1>6, <2>1
    <2>3. IF h = NoState THEN K = {} ELSE K = {h}
        BY <2>2
    <2>4. \A l \in Launcher :
             h # NoState =>
                ((\E s \in K : s.mcp[l] # "untouched") <=> h.mcp[l] # "untouched")
        BY <2>3
    <2>5. K = {state} => h = state
        BY <2>3
    <2> QED BY <1>1, <1>2, <2>3, <2>4, <2>5 DEF HeldBy, HeldLauncher, K, h, c
<1> QED BY <1>5, <1>6

\* Some state, or none, holds the layer.
LEMMA SomeHolder ==
    ASSUME IInv, QInv, clean PROVE \E h : HeldBy(h)
<1>1. CASE AtRest
    BY <1>1, HeldAtRest
<1>2. CASE ~ AtRest
    <2>1. PICK p \in Proc : Busy(p)
        BY <1>2 DEF AtRest
    <2> QED BY <2>1, HeldByOne
<1> QED BY <1>1, <1>2

\* It is enough that the holder stays right.
LEMMA UserMoves ==
    ASSUME IInv, QInv, clean, UNCHANGED <<state, run, clean>>,
           NEW h, HeldBy(h), IsOwn(mine'), Rest(h, user', mine', edited'),
           h # NoState => SameHeld(h, mine, mine')
    PROVE  QInv'
<1>1. Quiet
    BY DEF QInv
<1>2. \A p, q \in Proc : run'[p] # Idle /\ run'[q] # Idle => p = q
    BY <1>1 DEF Quiet, Busy
<1>3. (\A p \in Proc : run'[p] = Idle) => Rest(state', user', mine', edited')
    BY DEF HeldBy, AtRest, Busy
<1>4. ASSUME NEW p \in Proc, run'[p] # Idle
      PROVE  /\ Rest(Holder(run'[p], state'), user', mine', edited')
             /\ Knows(run'[p], state', mine')
    <2> DEFINE c == run[p]
    <2>1. Busy(p) /\ run'[p] = c /\ state' = state
        BY <1>4 DEF Busy
    <2>2. h = Holder(c, state)
        BY <2>1 DEF HeldBy
    <2>3. Knows(c, state, mine) /\ GoodRun(c)
        BY <1>1, <2>1, Running DEF Quiet
    <2> HIDE DEF c
    <2>4. Knows(c, state, mine')
        <3>1. CASE Applied(c)
            <4>1. c.new = h /\ h # NoState
                BY <2>2, <2>3, <3>1, GoodIsSome DEF Holder, Applied, GoodRun
            <4>2. SameHeld(h, mine, mine') /\ Before(c, mine)
                BY <2>3, <3>1, <4>1 DEF Knows
            <4>3. Before(c, mine')
                BY <4>1, <4>2 DEF SameHeld, Before
            <4> QED BY <2>3, <4>3 DEF Knows
        <3>2. CASE ~ Applied(c)
            BY <2>3, <3>2 DEF Knows
        <3> QED BY <3>1, <3>2
    <2> QED BY <2>1, <2>2, <2>4
<1> QED BY <1>2, <1>3, <1>4 DEF QInv, Quiet, AtRest, Busy

\* A hint that is edited is the user's own where nothing is held, and a field of
\* the plugin otherwise.
LEMMA EditHintStays ==
    ASSUME IInv, QInv, clean, EditHint PROVE QInv'
<1>1. PICK h : HeldBy(h)
    BY SomeHolder
<1>2. /\ user \in Config /\ mine \in Config /\ IsOwn(mine)
      /\ user.feature # "scalar"
      /\ UNCHANGED <<state, run, clean>>
      /\ edited' = (edited \/ Held)
    BY Typing DEF QInv, Quiet, EditHint, Note
<1>3. PICK v \in Typed \cap Hint :
        /\ v \in Marked => Held
        /\ \/ /\ user' = [user EXCEPT !.mode = v]
              /\ mine' = IF Held THEN mine ELSE [mine EXCEPT !.mode = v]
           \/ /\ user' = [user EXCEPT !.usage = v]
              /\ mine' = IF Held THEN mine ELSE [mine EXCEPT !.usage = v]
    BY DEF EditHint
<1>4. CASE h = NoState
    <2>1. ~ Held /\ user = mine
        BY <1>1, <1>4 DEF HeldBy, Rest, Held
    <2>2. v \in Text \cup {"missing"}
        BY <1>3, <2>1 DEF Hint
    <2>3. user' = mine'
        BY <1>3, <2>1
    <2>4. IsOwn(mine')
        BY <1>2, <1>3, <2>1, <2>2 DEF IsOwn, Config
    <2>5. Rest(h, user', mine', edited')
        BY <1>4, <2>3 DEF Rest
    <2> QED BY <1>1, <1>2, <1>4, <2>4, <2>5, UserMoves
<1>5. CASE h # NoState
    <2>1. Held /\ Restorable(h, user, mine)
        BY <1>1, <1>5 DEF HeldBy, Rest, Held
    <2>2. mine' = mine /\ edited'
        BY <1>2, <1>3, <2>1
    <2>3. user'.feature = user.feature /\ user'.mcp = user.mcp
        BY <1>2, <1>3 DEF Config
    <2>4. Restorable(h, user', mine')
        BY <2>1, <2>2, <2>3 DEF Restorable
    <2>5. Rest(h, user', mine', edited')
        BY <1>5, <2>2, <2>4 DEF Rest
    <2>6. SameHeld(h, mine, mine') /\ IsOwn(mine')
        BY <1>2, <2>2 DEF SameHeld
    <2> QED BY <1>1, <1>2, <1>5, <2>5, <2>6, UserMoves
<1> QED BY <1>4, <1>5

\* So are the controls.
LEMMA EditControlsStays ==
    ASSUME IInv, QInv, clean, EditControls PROVE QInv'
<1>1. PICK h : HeldBy(h)
    BY SomeHolder
<1>2. /\ user \in Config /\ mine \in Config /\ IsOwn(mine)
      /\ user.feature # "scalar"
      /\ UNCHANGED <<state, run, clean>>
      /\ edited' = (edited \/ Held)
    BY Typing DEF QInv, Quiet, EditControls, Note
<1>3. PICK v \in Control :
        /\ user' = [user EXCEPT !.controls = v]
        /\ mine' = IF Held THEN mine ELSE [mine EXCEPT !.controls = v]
    BY DEF EditControls
<1>4. CASE h = NoState
    <2>1. ~ Held /\ user = mine
        BY <1>1, <1>4 DEF HeldBy, Rest, Held
    <2>2. user' = mine'
        BY <1>3, <2>1
    <2>3. IsOwn(mine')
        BY <1>2, <1>3, <2>1 DEF IsOwn, Config
    <2>4. Rest(h, user', mine', edited')
        BY <1>4, <2>2 DEF Rest
    <2> QED BY <1>1, <1>2, <1>4, <2>3, <2>4, UserMoves
<1>5. CASE h # NoState
    <2>1. Held /\ Restorable(h, user, mine)
        BY <1>1, <1>5 DEF HeldBy, Rest, Held
    <2>2. mine' = mine /\ edited'
        BY <1>2, <1>3, <2>1
    <2>3. user'.feature = user.feature /\ user'.mcp = user.mcp
        BY <1>2, <1>3 DEF Config
    <2>4. Restorable(h, user', mine')
        BY <2>1, <2>2, <2>3 DEF Restorable
    <2>5. Rest(h, user', mine', edited')
        BY <1>5, <2>2, <2>4 DEF Rest
    <2>6. SameHeld(h, mine, mine') /\ IsOwn(mine')
        BY <1>2, <2>2 DEF SameHeld
    <2> QED BY <1>1, <1>2, <1>5, <2>5, <2>6, UserMoves
<1> QED BY <1>4, <1>5

\* A launcher that no state holds is the user's to edit at any time.
LEMMA EditLauncherStays ==
    ASSUME IInv, QInv, clean, EditLauncher PROVE QInv'
<1>1. PICK h : HeldBy(h)
    BY SomeHolder
<1>2. /\ user \in Config /\ mine \in Config /\ IsOwn(mine)
      /\ UNCHANGED <<state, run, clean>>
    BY Typing DEF QInv, Quiet, EditLauncher, Note
<1>3. PICK l \in Launcher, v \in Enabled :
        /\ user' = [user EXCEPT !.mcp[l] = v]
        /\ mine' = IF HeldLauncher(l) THEN mine ELSE [mine EXCEPT !.mcp[l] = v]
        /\ edited' = (edited \/ HeldLauncher(l))
    BY DEF EditLauncher, Note
<1>4. /\ user'.feature = user.feature /\ user'.mode = user.mode
      /\ user'.usage = user.usage /\ user'.controls = user.controls
      /\ user'.mcp[l] = v /\ \A k \in Launcher \ {l} : user'.mcp[k] = user.mcp[k]
    BY <1>2, <1>3 DEF Config
<1>5. /\ mine'.feature = mine.feature /\ mine'.mode = mine.mode
      /\ mine'.usage = mine.usage /\ mine'.controls = mine.controls
      /\ \A k \in Launcher \ {l} : mine'.mcp[k] = mine.mcp[k]
      /\ mine'.mcp[l] = IF HeldLauncher(l) THEN mine.mcp[l] ELSE v
    BY <1>2, <1>3 DEF Config
<1>6. IsOwn(mine')
    BY <1>2, <1>5 DEF IsOwn
<1>7. CASE h = NoState
    <2>1. ~ HeldLauncher(l) /\ user = mine
        BY <1>1, <1>7 DEF HeldBy, Rest, HeldLauncher
    <2>2. user' = mine'
        BY <1>3, <2>1
    <2>3. Rest(h, user', mine', edited')
        BY <1>7, <2>2 DEF Rest
    <2> QED BY <1>1, <1>2, <1>6, <1>7, <2>3, UserMoves
<1>8. CASE h # NoState
    <2>1. /\ Restorable(h, user, mine)
          /\ HeldLauncher(l) <=> h.mcp[l] # "untouched"
          /\ ~ edited => Matches(h, user)
        BY <1>1, <1>8 DEF HeldBy, Rest
    <2>2. Restorable(h, user', mine')
        BY <1>4, <1>5, <2>1 DEF Restorable
    <2>3. ~ edited' => Matches(h, user')
        <3>1. SUFFICES ASSUME ~ edited' PROVE Matches(h, user')
            OBVIOUS
        <3>2. ~ edited /\ ~ HeldLauncher(l)
            BY <1>3, <3>1
        <3>3. Matches(h, user) /\ h.mcp[l] = "untouched"
            BY <2>1, <3>2
        <3> QED BY <1>4, <3>3 DEF Matches
    <2>4. Rest(h, user', mine', edited')
        BY <1>8, <2>2, <2>3 DEF Rest
    <2>5. SameHeld(h, mine, mine')
        BY <1>5, <2>1 DEF SameHeld
    <2> QED BY <1>1, <1>2, <1>6, <1>8, <2>4, <2>5, UserMoves
<1> QED BY <1>7, <1>8

\* The table that a boolean became may grow: restoring the boolean would lose
\* the growth, and nothing of the plugin matches any more.
LEMMA GrowTableStays ==
    ASSUME IInv, QInv, clean, GrowTable PROVE QInv'
<1>1. PICK h : HeldBy(h)
    BY SomeHolder
<1>2. /\ user \in Config /\ IsOwn(mine)
      /\ UNCHANGED <<state, run, clean, mine>>
      /\ edited' = (edited \/ TRUE)
      /\ user.feature = "converted" /\ user' = [user EXCEPT !.feature = "grown"]
    BY Typing DEF QInv, Quiet, GrowTable, Note
<1>3. h # NoState
    BY <1>1, <1>2 DEF HeldBy, Rest, IsOwn
<1>4. Restorable(h, user, mine)
    BY <1>1, <1>3 DEF HeldBy, Rest
<1>5. user'.feature = "grown" /\ user'.mcp = user.mcp
    BY <1>2 DEF Config
<1>6. Restorable(h, user', mine')
    BY <1>2, <1>4, <1>5 DEF Restorable
<1>7. edited'
    BY <1>2
<1>8. Rest(h, user', mine', edited')
    BY <1>3, <1>6, <1>7 DEF Rest
<1>9. SameHeld(h, mine, mine') /\ IsOwn(mine')
    BY <1>2 DEF SameHeld
<1> QED BY <1>1, <1>2, <1>8, <1>9, UserMoves

\* A user who puts the fields back ends the edit.
LEMMA PutBackStays ==
    ASSUME IInv, QInv, clean, PutBack PROVE QInv'
<1>1. PICK h : HeldBy(h)
    BY SomeHolder
<1>2. /\ user \in Config /\ IsOwn(mine)
      /\ UNCHANGED <<state, run, clean, mine>>
      /\ Holding = {state}
      /\ user.feature # "scalar"
      /\ state.scalar => user.feature \in {"converted", "grown"}
      /\ user' = [Installed(user, state) EXCEPT
                    !.feature = IF state.scalar THEN "converted" ELSE @]
    BY Typing DEF QInv, Quiet, PutBack
<1>3. h = state /\ h # NoState
    BY <1>1, <1>2 DEF HeldBy
<1>4. Restorable(h, user, mine) /\ h \in State
    BY <1>1, <1>3, Typing DEF HeldBy, Rest, Fair, FairState
<1> DEFINE w == Installed(user, h)
<1>5. /\ w.feature = user.feature
      /\ w.mode = h.mode /\ w.usage = h.usage /\ w.controls = "ours"
      /\ \A l \in Launcher :
            w.mcp[l] = IF h.mcp[l] = "untouched" THEN user.mcp[l] ELSE h.mcp[l]
      /\ w \in Config
    BY <1>2, <1>4, LayersTyped DEF Installed
<1>6. user' = [w EXCEPT !.feature = IF h.scalar THEN "converted" ELSE @]
    BY <1>2, <1>3
<1> HIDE DEF w
<1>7. /\ user'.feature = IF h.scalar THEN "converted" ELSE user.feature
      /\ user'.mode = h.mode /\ user'.usage = h.usage /\ user'.controls = "ours"
      /\ user'.mcp = w.mcp
    BY <1>5, <1>6 DEF Config
<1>8. Matches(h, user')
    BY <1>5, <1>7 DEF Matches
<1>9. Restorable(h, user', mine')
    BY <1>2, <1>4, <1>5, <1>7 DEF Restorable
<1>10. Rest(h, user', mine', edited')
    BY <1>3, <1>8, <1>9 DEF Rest
<1>11. SameHeld(h, mine, mine') /\ IsOwn(mine')
    BY <1>2 DEF SameHeld
<1> QED BY <1>1, <1>2, <1>10, <1>11, UserMoves

\* Every edit of the user keeps what the state file holds.
LEMMA UserStays ==
    ASSUME IInv, QInv, UserStep PROVE QInv'
<1>1. clean' = clean
    BY DEF UserStep, EditHint, EditControls, EditLauncher, GrowTable, PutBack, Note
<1>2. CASE ~ clean
    BY <1>1, <1>2 DEF QInv
<1>3. CASE clean
    <2>1. CASE EditHint
        BY <1>3, <2>1, EditHintStays
    <2>2. CASE EditControls
        BY <1>3, <2>2, EditControlsStays
    <2>3. CASE EditLauncher
        BY <1>3, <2>3, EditLauncherStays
    <2>4. CASE GrowTable
        BY <1>3, <2>4, GrowTableStays
    <2>5. CASE PutBack
        BY <1>3, <2>5, PutBackStays
    <2> QED BY <2>1, <2>2, <2>3, <2>4, <2>5 DEF UserStep
<1> QED BY <1>2, <1>3

-----------------------------------------------------------------------------
(* The theorems. *)

\* The invariant holds of the initial states and of every step.
LEMMA QuietIsInductive == Spec => []QInv
<1>1. Init => QInv
    <2> SUFFICES ASSUME Init PROVE QInv
        OBVIOUS
    <2>1. IsOwn(mine)
        BY DEF Init, Own, IsOwn
    <2> QED BY <2>1 DEF Init, QInv, Quiet, Busy, Rest
<1>2. IInv /\ QInv /\ [Next]_vars => QInv'
    <2> SUFFICES ASSUME IInv, QInv, [Next]_vars PROVE QInv'
        OBVIOUS
    <2>1. CASE UserStep
        BY <2>1, UserStays
    <2>2. CASE \E p \in Proc : Step(p)
        BY <2>2, StepStays
    <2>3. CASE UNCHANGED vars
        BY <2>3 DEF vars, QInv, Quiet, AtRest, Busy
    <2> QED BY <2>1, <2>2, <2>3 DEF Next
<1> QED BY <1>1, <1>2, Inductive, PTL DEF Spec

\* However setups, repairs, refusals, rollbacks and edits follow each other,
\* the state file holds what the user had and the rest of the layer is the
\* user's.
THEOREM OriginalsSaved == Spec => []OriginalsAreSaved
BY QuietIsSaved, QuietIsInductive, PTL

\* Where no held field is edited, the layer and the state file agree once the
\* commands have ended, so that status is right and disable is allowed.
THEOREM LayerAgrees == Spec => []LayerAndStateAgree
BY QuietAgrees, QuietIsInductive, Inductive, PTL

\* Without a mishap, the
\* user's text that a setup was told to replace is in the state file until it is
\* in the layer again.
THEOREM TextRetained == Spec => [](clean => OldTextIsRetained)
<1>1. QInv => (clean => OldTextIsRetained)
    <2> SUFFICES ASSUME QInv, clean, AtRest PROVE OldTextIsRetained
        BY DEF OldTextIsRetained, AtRest
    <2>1. Rest(state, user, mine, edited)
        BY DEF QInv, Quiet
    <2> QED BY <2>1 DEF Rest, Restorable, OldTextIsRetained
<1> QED BY <1>1, QuietIsInductive, PTL

=============================================================================
