------------------------ MODULE ExternalJournalProofs ------------------------
(***************************************************************************)
(* Proofs about the journal of ExternalLifecycle: where prepare, remove    *)
(* and recovery may be cut off, and why the next recovery can go on.       *)
(*                                                                         *)
(* The tables a registry stands for are compared with the tables of the    *)
(* configuration.  They agree while no journal is left.  With one they may *)
(* differ at its provider only, and the journal says in which ways: Torn.  *)
(* That is so of two registries, the one that is there and the one that    *)
(* recovery of an uncommitted transaction would leave, and a command that  *)
(* works on the journal knows more at each of its places: Stands.  The     *)
(* other commands change the registry beside it, but never the tables it   *)
(* stands for.                                                             *)
(***************************************************************************)
EXTENDS ExternalLifecycleProofs

\* The tables a registry stands for.
Tables(r) == [v \in Provider |-> Expected(r.providers[v])]

-----------------------------------------------------------------------------
(* What the commands make of the tables. *)

\* The table of a provider tells whether it is registered.
LEMMA TableOfRecord ==
    ASSUME NEW r \in Registry
    PROVE  /\ Tables(r) \in [Provider -> Auth \cup {"absent"}]
           /\ \A v \in Provider :
                 Tables(r)[v] = IF Registered(r, v) THEN r.providers[v].auth
                                ELSE "absent"
           /\ \A v \in Provider : Registered(r, v) => r.providers[v].auth \in Auth
           /\ "absent" \notin Auth
<1>1. \A v \in Provider : Registered(r, v) => r.providers[v].auth \in Auth
    BY RegisteredIsStored DEF ProviderRecord
<1>2. \A v \in Provider :
         Tables(r)[v] = IF Registered(r, v) THEN r.providers[v].auth ELSE "absent"
    BY DEF Tables, Expected, Registered
<1>3. Tables(r) \in [Provider -> Auth \cup {"absent"}]
    BY <1>1 DEF Tables, Expected, Registered
<1> QED BY <1>1, <1>2, <1>3, AuthKinds

\* A record that keeps its kind of authentication and stays registered keeps
\* the tables.
LEMMA TableStays ==
    ASSUME NEW r \in Registry, NEW v \in Provider, Registered(r, v),
           NEW record, record.state \in Stored,
           record.auth = r.providers[v].auth,
           NEW s, s.providers = [r.providers EXCEPT ![v] = record]
    PROVE  Tables(s) = Tables(r)
<1>1. record # Unregistered
    BY DEF Unregistered, Stored
<1>2. Expected(record) = Expected(r.providers[v])
    BY <1>1 DEF Expected, Registered
<1>3. \A w \in Provider : Expected(s.providers[w]) = Expected(r.providers[w])
    BY <1>2 DEF Registry
<1> QED BY <1>3 DEF Tables

\* Gate 0, trusting a helper, and connecting keep the tables.
LEMMA ProviderTablesStay ==
    ASSUME NEW r \in Registry, NEW v \in Provider, Registered(r, v),
           NEW trusted, NEW o
    PROVE  /\ Tables(Authenticated(r, v)) = Tables(r)
           /\ Tables(Qualify(r, v)) = Tables(r)
           /\ Tables(Retrusted(r, v, trusted)) = Tables(r)
           /\ Tables(Staged(r, o, v)) = Tables(r)
<1> DEFINE a == [r.providers[v] EXCEPT !.state = "AUTH_READY"]
           b == [r.providers[v] EXCEPT !.state = "CAPABILITY_VERIFIED",
                                       !.qualified = TRUE]
           c == [r.providers[v] EXCEPT !.trust = trusted,
                                       !.state = "AUTH_REQUIRED",
                                       !.qualified = FALSE]
           d == [r.providers[v] EXCEPT !.state = "RESTART_REQUIRED"]
<1>1. r.providers[v] \in ProviderRecord
    BY RegisteredIsStored
<1>2. /\ a.state \in Stored /\ a.auth = r.providers[v].auth
      /\ b.state \in Stored /\ b.auth = r.providers[v].auth
      /\ c.state \in Stored /\ c.auth = r.providers[v].auth
      /\ d.state \in Stored /\ d.auth = r.providers[v].auth
    BY <1>1 DEF ProviderRecord, Stored
<1>3. Authenticated(r, v).providers = [r.providers EXCEPT ![v] = a]
    BY DEF Authenticated, Registry
<1>4. Qualify(r, v).providers = [r.providers EXCEPT ![v] = b]
    BY DEF Qualify, Registry
<1>5. Retrusted(r, v, trusted).providers = [r.providers EXCEPT ![v] = c]
    BY DEF Retrusted, Registry
<1>6. Staged(r, o, v).providers = [r.providers EXCEPT ![v] = d]
    BY DEF Staged, Registry
<1> HIDE DEF a, b, c, d
<1> QED BY <1>2, <1>3, <1>4, <1>5, <1>6, TableStays

\* Making a role ready and disconnecting one keep the tables.
LEMMA RoleTablesStay ==
    ASSUME NEW r \in Registry, NEW o \in Role,
           r.roles[o].provider \in Provider, Registered(r, r.roles[o].provider)
    PROVE  /\ Tables(MadeReady(r, o)) = Tables(r)
           /\ Tables(Disconnected(r, o)) = Tables(r)
<1> DEFINE v == r.roles[o].provider
           a == [r.providers[v] EXCEPT !.state = "READY"]
<1>1. r.providers[v] \in ProviderRecord
    BY RegisteredIsStored
<1>2. a.state \in Stored /\ a.auth = r.providers[v].auth
    BY <1>1 DEF ProviderRecord, Stored
<1>3. MadeReady(r, o).providers = [r.providers EXCEPT ![v] = a]
    BY DEF MadeReady, Registry
<1>4. PICK state \in Stored :
        Disconnected(r, o).providers =
           [r.providers EXCEPT ![v] = [r.providers[v] EXCEPT !.state = state]]
    <2> DEFINE left == RolesOf(r, v) \ {o}
               old == r.providers[v].state
               new == IF left = {} /\ old \in {"RESTART_REQUIRED", "READY"}
                      THEN "CAPABILITY_VERIFIED"
                      ELSE IF /\ left # {} /\ old = "RESTART_REQUIRED"
                              /\ \A q \in left : r.roles[q].state = "READY"
                           THEN "READY" ELSE old
    <2>1. new \in Stored
        BY <1>1 DEF ProviderRecord, Stored
    <2>2. Disconnected(r, o) =
            [r EXCEPT !.roles[o] = Unconnected, !.providers[v].state = new]
        BY DEF Disconnected
    <2> HIDE DEF new
    <2>3. Disconnected(r, o).providers =
            [r.providers EXCEPT ![v] = [r.providers[v] EXCEPT !.state = new]]
        BY <2>2 DEF Registry
    <2> QED BY <2>1, <2>3
<1> DEFINE b == [r.providers[v] EXCEPT !.state = state]
<1>5. b.state \in Stored /\ b.auth = r.providers[v].auth
    BY <1>1 DEF ProviderRecord
<1>8. Disconnected(r, o).providers = [r.providers EXCEPT ![v] = b]
    BY <1>4
<1> HIDE DEF a, b
<1>6. Tables(MadeReady(r, o)) = Tables(r)
    BY <1>2, <1>3, TableStays
<1>7. Tables(Disconnected(r, o)) = Tables(r)
    BY <1>5, <1>8, TableStays
<1> QED BY <1>6, <1>7

\* Prepare adds a table and remove takes one away.
LEMMA TableChanges ==
    ASSUME NEW r \in Registry, NEW v \in Provider, NEW auth, NEW trusted
    PROVE  /\ Tables(Prepared(r, v, auth, trusted)) = [Tables(r) EXCEPT ![v] = auth]
           /\ Tables(Without(r, v)) = [Tables(r) EXCEPT ![v] = "absent"]
<1> DEFINE record == [state |-> "AUTH_REQUIRED", qualified |-> v \in Qualified,
                      auth |-> auth,
                      trust |-> IF auth = "user_helper" THEN trusted ELSE "none"]
<1>1. record.auth = auth /\ record # Unregistered
    BY DEF Unregistered
<1>2. Prepared(r, v, auth, trusted).providers = [r.providers EXCEPT ![v] = record]
    BY DEF Prepared, Registry
<1>3. Without(r, v).providers = [r.providers EXCEPT ![v] = Unregistered]
    BY DEF Without, Registry
<1>4. Expected(record) = auth /\ Expected(Unregistered) = "absent"
    BY <1>1 DEF Expected
<1> HIDE DEF record
<1>5. \A w \in Provider : Expected(Prepared(r, v, auth, trusted).providers[w]) =
          IF w = v THEN auth ELSE Expected(r.providers[w])
    BY <1>2, <1>4 DEF Registry
<1>6. \A w \in Provider : Expected(Without(r, v).providers[w]) =
          IF w = v THEN "absent" ELSE Expected(r.providers[w])
    BY <1>3, <1>4 DEF Registry
<1> QED BY <1>5, <1>6 DEF Tables

-----------------------------------------------------------------------------
(* The invariant.  It says nothing of registries that were written over and   *)
(* of tables two commands wrote at once or the user edited: then all of it    *)
(* that holds is what the journal and the commands say of themselves.         *)

\* What is in a journal: the table of its provider before and after.
Recorded(j) ==
    /\ j.config \in Auth /\ j.provider \in Provider
    /\ j.before \in Registry
    /\ \/ /\ j.action = "prepare"
          /\ Tables(j.before)[j.provider] = "absent"
          /\ Tables(j.after) = [Tables(j.before) EXCEPT ![j.provider] = j.config]
       \/ /\ j.action = "remove"
          /\ Tables(j.before)[j.provider] = j.config
          /\ RolesOf(j.before, j.provider) = {}
          /\ j.after = Without(j.before, j.provider)

\* What the transaction of a command is about to make of the tables: it finishes
\* a remove, is prepare's or remove's own, or leaves them as they are.
Finishing(c) ==
    /\ c.owner \in Provider /\ c.order.command \in Journaled
    /\ c.base \in Registry /\ c.after = Without(c.base, c.owner)
Planning(c) ==
    /\ c.owner = "none" /\ c.order.command \in {"prepare", "remove"}
    /\ Recorded(Entry(c, "preparing"))
Keeping(c) ==
    /\ c.owner = "none" /\ c.order.command \notin Journaled
    /\ Tables(c.after) = Tables(c.base)

\* What a command knows by its place, whatever happened: which commands come
\* there, what is in the journal it writes, and what it will make of the tables.
Sketched(c) ==
    /\ c.at \in {"recover", "clear", "roll back", "rolled back"}
       => c.order.command \in Journaled
    /\ c.at \in {"journal", "write", "check", "applied"} => Planning(c)
    /\ c.at = "done" => c.order.command \in {"prepare", "remove"}
    /\ c.at \in {"compare", "replace", "probe", "probing", "attest", "launch", "model"}
       => c.order.command \notin Journaled
    /\ c.at \in {"compare", "replace"} => Tables(c.after) = Tables(c.base)
    /\ c.at \in {"engine", "recover", "read"} => c.owner = "none"
    /\ c.at \in {"commit"} \cup Stages => Finishing(c) \/ Planning(c) \/ Keeping(c)

\* The tables f of the configuration, the tables t of the registry and the
\* journal j.
Torn(j, t, f) ==
    IF j = NoJournal THEN f = t
    ELSE /\ \A v \in Provider \ {j.provider} : f[v] = t[v]
         /\ f[j.provider] \in {j.config, "absent"}
         /\ t[j.provider] \in {j.config, "absent"}
         /\ j.action = "prepare" /\ t[j.provider] = j.config
            => f[j.provider] = j.config
         /\ j.action = "remove" /\ f[j.provider] = j.config
            => t[j.provider] = j.config /\ j.phase = "preparing"

\* Where a transaction may have changed the tables of the registry that is
\* there: before a command recovered one that was cut off, and in its own.
Unrecovered(c) ==
    \/ c.at \in {"engine"} \cup Inside
    \/ c.at = "recover" /\ c.order.command = "recover"

\* What a command that works on the journal knows at its place of the journal j,
\* the tables s of the registry that is there, the tables t of the one that
\* recovery of the transaction would leave, and the tables f.
Stands(c, j, s, t, f) ==
    /\ ~ Unrecovered(c) => s = t
    /\ c.at \in {"roll back", "rolled back"} =>
          /\ j # NoJournal /\ j.action = "prepare" /\ j.provider = c.owner
          /\ t[c.owner] = "absent"
    /\ c.at \in {"clear", "done"} => f = t
    /\ c.at \in {"read", "journal"} => j = NoJournal
    /\ c.at \in {"write", "check", "applied"} => j = Entry(c, "preparing")
    /\ c.at = "applied" => f[c.order.provider] = Wanted(c)
    /\ c.at \in {"journal", "write", "check", "applied", "commit"} \cup Stages
       => t = Tables(c.base)
    /\ c.at \in {"commit"} \cup Stages /\ Planning(c) =>
          j = Entry(c, "applied") /\ f[c.order.provider] = Wanted(c)
    /\ c.at \in {"commit"} \cup Stages /\ Finishing(c) =>
          /\ j # NoJournal /\ j.action = "remove" /\ j.provider = c.owner
          /\ f[c.owner] = "absent"
    /\ c.at = "replaced" => f = Tables(c.after)

\* The transaction x is the one of a command at one of its stages.
Owns(c, x) ==
    c.at \in Stages =>
        x # NoTxn /\ x.stage = c.at /\ x.before = c.base /\ x.after = c.after

Works(p) == run[p] # Idle /\ run[p].order.command \in Journaled

Calm == mishaps \cap {"overlap", "disturbed", "table edit"} = {}

Kept ==
    /\ journal # NoJournal => Recorded(journal)
    /\ \A p \in Proc : run[p] # Idle => Sketched(run[p])
    /\ \A p, q \in Proc :
          /\ run[p] # Idle /\ run[p].at \in Inside
          /\ run[q] # Idle /\ run[q].at \in Inside
          => p = q

Held ==
    /\ txn # NoTxn => registry = RegistryThere
    /\ Torn(journal, Tables(registry), config)
    /\ Torn(journal, Tables(View), config)
    /\ \A p \in Proc : run[p] # Idle => Owns(run[p], txn)
    /\ \A p, q \in Proc : Works(p) /\ Works(q) => p = q
    /\ \A p \in Proc : Works(p) =>
          Stands(run[p], journal, Tables(registry), Tables(View), config)

JInv == Kept /\ (Calm => Held)

-----------------------------------------------------------------------------
(* What the invariant is for. *)

\* It implies that providers are registered exactly if their tables are there.
LEMMA HeldAgrees == JInv => RegisteredIsConfigured
<1> SUFFICES ASSUME JInv, journal = NoJournal, Calm, NEW v \in Provider
             PROVE  config[v] = Expected(View.providers[v])
    BY DEF RegisteredIsConfigured, Calm
<1>1. config = Tables(View)
    BY DEF JInv, Held, Torn
<1> QED BY <1>1 DEF Tables

\* Recovery has a case for whatever the journal and the tables say, if the
\* registry is one of the two in the journal.
LEMMA TornRecovers ==
    ASSUME NEW j, j # NoJournal, Recorded(j), NEW f, NEW r \in {j.before, j.after},
           Torn(j, Tables(r), f)
    PROVE  Settled(j, f, r) \/ HalfPrepared(j, f, r) \/ HalfRemoved(j, f, r)
<1> DEFINE u == j.provider
<1>0. /\ u \in Provider /\ j.config \in Auth /\ "absent" \notin Auth
      /\ Tables(j.before) \in [Provider -> Auth \cup {"absent"}]
      /\ f[u] \in {j.config, "absent"}
    BY TableOfRecord DEF Recorded, Torn
<1>1. CASE j.action = "prepare"
    <2>1. Tables(j.after)[u] = j.config /\ Tables(j.before)[u] = "absent"
        BY <1>0, <1>1 DEF Recorded
    <2>2. CASE r = j.after
        BY <1>1, <2>1, <2>2 DEF Torn, Settled, Applied
    <2>3. CASE r = j.before
        BY <1>0, <1>1, <2>3 DEF Settled, HalfPrepared, Applied, Absent
    <2> QED BY <2>2, <2>3
<1>2. CASE j.action = "remove"
    <2>1. /\ Tables(j.after) = [Tables(j.before) EXCEPT ![u] = "absent"]
          /\ RolesOf(j.before, u) = {} /\ Without(j.before, u) = j.after
        BY <1>2, TableChanges DEF Recorded
    <2>2. Tables(j.after)[u] = "absent"
        BY <1>0, <2>1
    <2>3. CASE r = j.after
        BY <1>0, <1>2, <2>2, <2>3 DEF Torn, Settled, Absent
    <2>4. CASE r = j.before
        BY <1>0, <1>2, <2>1, <2>4 DEF Torn, Settled, HalfRemoved, Applied, Absent
    <2> QED BY <2>3, <2>4
<1> QED BY <1>1, <1>2 DEF Recorded

\* It implies that recovery has a case for what was cut off, before and after
\* the transaction is recovered.
LEMMA HeldRecovers == JInv => RecoveryIsPossible
<1> SUFFICES ASSUME JInv, journal # NoJournal, Calm,
                    NEW r \in {registry, View} \cap {journal.before, journal.after}
             PROVE  \/ Settled(journal, config, r)
                    \/ HalfPrepared(journal, config, r)
                    \/ HalfRemoved(journal, config, r)
    BY DEF RecoveryIsPossible, Calm
<1>1. Recorded(journal) /\ Torn(journal, Tables(r), config)
    BY DEF JInv, Kept, Held
<1> QED BY <1>1, TornRecovers

-----------------------------------------------------------------------------
(* What is left to show of a step. *)

\* What a promise was voided for stays noted.
LEMMA CalmBefore == mishaps \subseteq mishaps' /\ Calm' => Calm
    BY DEF Calm

\* The registries that are there, and would be after recovery.
LEMMA ViewIsGood ==
    ASSUME IInv
    PROVE  View \in Registry /\ registry \in Registry /\ config \in Config
    BY TxnHasGood DEF View, IInv, TypeOK

\* The process under the lock is the only one.
LEMMA InsideIsFree ==
    ASSUME Kept, NEW p \in Proc, run[p] # Idle, run[p].at \in Inside
    PROVE  Free(p)
    BY DEF Kept, Free, Busy

\* The part that nothing voids.
LEMMA KeptMoves ==
    ASSUME IInv, Kept, NEW p \in Proc, NEW d, Become(p, d), d = Idle \/ Sketched(d),
           d = Idle \/ d.at \notin Inside \/ Free(p),
           journal' = journal \/ journal' = NoJournal \/ Recorded(journal')
    PROVE  Kept'
<1>1. run'[p] = d /\ \A x \in Proc : x # p => run'[x] = run[x]
    BY OthersStay DEF IInv, TypeOK, Become
<1>2. ASSUME NEW x \in Proc, run'[x] # Idle PROVE Sketched(run'[x])
    BY <1>1, <1>2 DEF Kept
<1>3. ASSUME NEW x \in Proc, run'[x] # Idle, run'[x].at \in Inside,
             NEW y \in Proc, run'[y] # Idle, run'[y].at \in Inside
      PROVE  x = y
    <2>1. CASE x # p /\ y # p
        BY <1>1, <1>3, <2>1 DEF Kept
    <2>2. CASE x = p /\ y # p
        BY <1>1, <1>3, <2>2 DEF Free, Busy
    <2>3. CASE x # p /\ y = p
        BY <1>1, <1>3, <2>3 DEF Free, Busy
    <2> QED BY <2>1, <2>2, <2>3
<1> QED BY <1>2, <1>3 DEF Kept

\* One process moves: what is left to show of it, of the files and of the others.
LEMMA AllMoves ==
    ASSUME IInv, JInv, NEW p \in Proc, NEW d, Become(p, d), d = Idle \/ Sketched(d),
           d = Idle \/ d.at \notin Inside \/ Free(p),
           journal' = journal \/ journal' = NoJournal \/ Recorded(journal'),
           mishaps \subseteq mishaps',
           Calm' => txn' = txn \/ Free(p),
           Calm' => (txn' # NoTxn => registry' = RegistryThere'),
           Calm' => Torn(journal', Tables(registry'), config'),
           Calm' => Torn(journal', Tables(View'), config'),
           Calm' /\ d # Idle => Owns(d, txn'),
           Calm' /\ d # Idle /\ d.order.command \in Journaled =>
              /\ \A x \in Proc : Works(x) => x = p
              /\ Stands(d, journal', Tables(registry'), Tables(View'), config'),
           Calm' => \A x \in Proc \ {p} : Works(x) =>
              Stands(run[x], journal', Tables(registry'), Tables(View'), config')
    PROVE  JInv'
<1>1. Kept'
    BY KeptMoves DEF JInv
<1>2. ASSUME Calm' PROVE Held'
    <2>0. Held
        BY <1>2, CalmBefore DEF JInv
    <2>1. run'[p] = d /\ \A x \in Proc : x # p => run'[x] = run[x]
        BY OthersStay DEF IInv, TypeOK, Become
    <2> DEFINE WorksNow(x) == run'[x] # Idle /\ run'[x].order.command \in Journaled
    <2>2. \A x \in Proc : x # p => (WorksNow(x) <=> Works(x))
        BY <2>1 DEF Works
    <2>3. \A x, y \in Proc : WorksNow(x) /\ WorksNow(y) => x = y
        <3>1. WorksNow(p) => \A x \in Proc : Works(x) => x = p
            BY <1>2, <2>1
        <3>2. \A x, y \in Proc : Works(x) /\ Works(y) => x = y
            BY <2>0 DEF Held
        <3> HIDE DEF WorksNow
        <3> QED BY <2>2, <3>1, <3>2
    <2>4. ASSUME NEW x \in Proc, WorksNow(x)
          PROVE  Stands(run'[x], journal', Tables(registry'), Tables(View'), config')
        <3>1. CASE x = p
            BY <1>2, <2>1, <2>4, <3>1
        <3>2. CASE x # p
            <4>1. Works(x) /\ run'[x] = run[x]
                BY <2>1, <2>2, <2>4, <3>2
            <4> QED BY <1>2, <3>2, <4>1
        <3> QED BY <3>1, <3>2
    <2>5. ASSUME NEW x \in Proc, run'[x] # Idle PROVE Owns(run'[x], txn')
        <3>1. CASE x = p
            BY <1>2, <2>1, <2>5, <3>1
        <3>2. CASE x # p
            <4>1. run'[x] = run[x] /\ Owns(run[x], txn)
                BY <2>0, <2>1, <2>5, <3>2 DEF Held
            <4>2. Free(p) => run[x].at \notin Stages
                BY <2>5, <3>2, <4>1 DEF Free, Busy, Inside
            <4> QED BY <1>2, <4>1, <4>2 DEF Owns
        <3> QED BY <3>1, <3>2
    <2>6. txn' # NoTxn => registry' = RegistryThere'
        BY <1>2
    <2>7. /\ Torn(journal', Tables(registry'), config')
          /\ Torn(journal', Tables(View'), config')
        BY <1>2
    <2> QED BY <2>3, <2>4, <2>5, <2>6, <2>7 DEF Held, Works
<1> QED BY <1>1, <1>2 DEF JInv

\* A command that works on the journal moves outside of a transaction: no other
\* one does.
LEMMA WorkMoves ==
    ASSUME IInv, JInv, NEW p \in Proc, Works(p), ~ Unrecovered(run[p]),
           NEW d, Become(p, d), d = Idle \/ Sketched(d), d = Idle \/ d.at \notin Inside,
           journal' = journal \/ journal' = NoJournal \/ Recorded(journal'),
           UNCHANGED <<registry, txn, mishaps>>,
           Calm => Torn(journal', Tables(View), config'),
           Calm /\ d # Idle =>
              Stands(d, journal', Tables(View), Tables(View), config')
    PROVE  JInv'
<1>1. /\ Calm' <=> Calm
      /\ View' = View
      /\ RegistryThere' = RegistryThere
    BY DEF Calm, View, RegistryThere
<1>2. ASSUME Calm
      PROVE  /\ Held
             /\ Tables(registry) = Tables(View)
             /\ \A x \in Proc : Works(x) => x = p
    BY <1>2 DEF JInv, Held, Stands
<1>3. Calm => (txn' # NoTxn => registry' = RegistryThere')
    BY <1>1, <1>2 DEF Held
<1>4. Calm => Torn(journal', Tables(registry'), config')
    BY <1>2
<1>5. Calm => Torn(journal', Tables(View'), config')
    BY <1>1
<1>6. d # Idle => Owns(d, txn')
    BY DEF Owns, Inside
<1>7. Calm /\ d # Idle =>
         Stands(d, journal', Tables(registry'), Tables(View'), config')
    BY <1>1, <1>2
<1> QED BY <1>1, <1>2, <1>3, <1>4, <1>5, <1>6, <1>7, AllMoves

\* A command moves that touches neither the journal nor the tables of what
\* recovery of the transaction leaves.
LEMMA EngineMoves ==
    ASSUME IInv, JInv, NEW p \in Proc, NEW d, Become(p, d), d = Idle \/ Sketched(d),
           d = Idle \/ d.at \notin Inside \/ Free(p),
           UNCHANGED <<journal, config>>, mishaps \subseteq mishaps',
           Calm' => txn' = txn \/ Free(p),
           Calm' => (txn' # NoTxn => registry' = RegistryThere'),
           Calm' => Tables(View') = Tables(View),
           Calm' => Torn(journal, Tables(registry'), config),
           Calm' /\ d # Idle => Owns(d, txn'),
           Calm' /\ d # Idle /\ d.order.command \in Journaled =>
              /\ \A x \in Proc : Works(x) => x = p
              /\ Stands(d, journal, Tables(registry'), Tables(View), config),
           Calm' => \A x \in Proc \ {p} : Works(x) /\ ~ Unrecovered(run[x]) =>
              Tables(registry') = Tables(View)
    PROVE  JInv'
<1>1. ASSUME Calm', NEW x \in Proc \ {p}, Works(x)
      PROVE  Stands(run[x], journal', Tables(registry'), Tables(View'), config')
    <2>1. Stands(run[x], journal, Tables(registry), Tables(View), config)
        BY <1>1, CalmBefore DEF JInv, Held
    <2>2. /\ ~ Unrecovered(run[x]) => Tables(registry') = Tables(View)
          /\ Tables(View') = Tables(View)
        BY <1>1
    <2>3. Stands(run[x], journal, Tables(registry'), Tables(View), config)
        BY <2>1, <2>2 DEF Stands
    <2> QED BY <2>2, <2>3
<1>2. Calm' => Torn(journal', Tables(View'), config')
    BY CalmBefore DEF JInv, Held
<1>3. Calm' /\ d # Idle /\ d.order.command \in Journaled =>
         Stands(d, journal', Tables(registry'), Tables(View'), config')
    OBVIOUS
<1> QED BY <1>1, <1>2, <1>3, AllMoves

\* A command moves that touches none of the files, be it one that works on the
\* journal and goes on or ends, or another one.
LEMMA BesideMoves ==
    ASSUME IInv, JInv, NEW p \in Proc, NEW d, Become(p, d), d = Idle \/ Sketched(d),
           \/ d = Idle
           \/ d.at \notin Inside
           \/ d.at = "revert" /\ run[p] # Idle /\ run[p].at \in Inside,
           UNCHANGED <<registry, config, journal, txn>>, mishaps \subseteq mishaps',
           Calm' /\ d # Idle /\ d.order.command \in Journaled =>
              /\ \A x \in Proc : Works(x) => x = p
              /\ Stands(d, journal, Tables(registry), Tables(View), config)
    PROVE  JInv'
<1>1. d = Idle \/ d.at \notin Inside \/ Free(p)
    BY InsideIsFree DEF JInv
<1>2. d # Idle => Owns(d, txn')
    BY DEF Owns, Inside, Stages
<1>3. View' = View /\ RegistryThere' = RegistryThere
    BY DEF View, RegistryThere
<1>4. Calm' => Held
    BY CalmBefore DEF JInv
<1>5. Calm' => (txn' # NoTxn => registry' = RegistryThere')
    BY <1>3, <1>4 DEF Held
<1>6. Calm' => Torn(journal, Tables(registry'), config)
    BY <1>4 DEF Held
<1>7. Calm' => \A x \in Proc \ {p} : Works(x) /\ ~ Unrecovered(run[x]) =>
         Tables(registry') = Tables(View)
    BY <1>4 DEF Held, Stands
<1>8. Calm' => Tables(View') = Tables(View)
    BY <1>3
<1> QED BY <1>1, <1>2, <1>5, <1>6, <1>7, <1>8, EngineMoves

\* The commands at the places of recovery, of prepare and of remove work on the
\* journal, and then no other one does.
LEMMA PlaceWorks ==
    ASSUME IInv, JInv, NEW p \in Proc, run[p] # Idle,
           \/ run[p].at \in {"recover", "clear", "roll back", "rolled back",
                             "journal", "write", "check", "applied", "done"}
           \/ run[p].order.command \in Journaled
    PROVE  /\ Works(p)
           /\ Sketched(run[p])
           /\ Calm => /\ Torn(journal, Tables(View), config)
                      /\ \A x \in Proc : Works(x) => x = p
                      /\ Stands(run[p], journal, Tables(registry), Tables(View), config)
           /\ View \in Registry /\ registry \in Registry /\ config \in Config
<1>1. Sketched(run[p])
    BY DEF JInv, Kept
<1>2. Works(p)
    BY <1>1 DEF Sketched, Planning, Works, Journaled
<1>3. ASSUME Calm
      PROVE  /\ Torn(journal, Tables(View), config)
             /\ \A x \in Proc : Works(x) => x = p
             /\ Stands(run[p], journal, Tables(registry), Tables(View), config)
    <2>1. Held
        BY <1>3 DEF JInv
    <2> QED BY <1>2, <2>1 DEF Held
<1> QED BY <1>1, <1>2, <1>3, ViewIsGood

\* What a command at another place than before, and otherwise as it was, keeps.
LEMMA GoesTo ==
    ASSUME IInv, NEW p \in Proc, run[p] # Idle, NEW place
    PROVE  LET d == [run[p] EXCEPT !.at = place]
           IN  /\ d.at = place /\ d.order = run[p].order
               /\ d.owner = run[p].owner /\ d.seen = run[p].seen
               /\ d.base = run[p].base /\ d.after = run[p].after
    BY BusyIsGood DEF Command

\* A journal entry depends on the plan only.
LEMMA SameEntry ==
    ASSUME NEW c, NEW d, d.order = c.order, d.base = c.base, d.after = c.after,
           NEW phase
    PROVE  Entry(d, phase) = Entry(c, phase) /\ Wanted(d) = Wanted(c)
    BY DEF Entry, Wanted

\* The journal of either phase holds the same plan.
LEMMA EntryIsRecorded ==
    ASSUME NEW c, c.order.command \in {"prepare", "remove"},
           NEW phase, NEW other, Recorded(Entry(c, phase))
    PROVE  /\ Recorded(Entry(c, other)) /\ Entry(c, other) # NoJournal
           /\ Entry(c, other).provider = c.order.provider
           /\ Entry(c, other).action = c.order.command
           /\ Entry(c, other).phase = other
           /\ Entry(c, other).before = c.base /\ Entry(c, other).after = c.after
           /\ Entry(c, other).config = Entry(c, phase).config
<1> DEFINE j == Entry(c, phase)
           k == Entry(c, other)
<1>1. /\ k.provider = c.order.provider /\ k.action = c.order.command
      /\ k.phase = other /\ k.before = c.base /\ k.after = c.after
      /\ j.provider = c.order.provider /\ j.action = c.order.command
      /\ j.before = c.base /\ j.after = c.after /\ j.config = k.config
    BY DEF Entry
<1> HIDE DEF j, k
<1>2. Recorded(k)
    BY <1>1 DEF Recorded, j
<1>3. k # NoJournal
    BY <1>1 DEF NoJournal
<1> QED BY <1>1, <1>2, <1>3 DEF j, k

-----------------------------------------------------------------------------
(* Starting, ending, recovering. *)

\* A command that works on the journal starts alone, or the overlap is noted.
LEMMA StartHolds ==
    ASSUME IInv, JInv, NEW p \in Proc, Start(p) PROVE JInv'
<1>1. PICK order \in Order :
         /\ Become(p, Fresh(order, IF order.command \in Transacted THEN "engine"
                                   ELSE IF order.command = "recover"
                                   THEN "recover" ELSE "read"))
         /\ mishaps' = mishaps \cup
               IF order.command \in Journaled
                  /\ \E q \in Proc : Busy(q) /\ run[q].order.command \in Journaled
               THEN {"overlap"} ELSE {}
    BY DEF Start
<1> DEFINE place == IF order.command \in Transacted THEN "engine"
                    ELSE IF order.command = "recover" THEN "recover" ELSE "read"
           d == Fresh(order, place)
<1>2. /\ UNCHANGED <<registry, config, journal, txn>> /\ mishaps \subseteq mishaps'
      /\ run[p] = Idle
    BY <1>1 DEF Start, Busy
<1>3. /\ d.at = place /\ d.order = order /\ d.owner = "none"
      /\ Become(p, d)
    BY <1>1 DEF Fresh
<1>4. /\ place \in {"engine", "recover", "read"}
      /\ place = "recover" => order.command = "recover"
      /\ order.command \in Journaled => place \in {"engine", "recover"}
    BY DEF Transacted, Journaled
<1> HIDE DEF d, place
<1>5. Sketched(d)
    BY <1>3, <1>4 DEF Sketched, Stages, Journaled
<1>6. ASSUME Calm', order.command \in Journaled
      PROVE  /\ \A x \in Proc : Works(x) => x = p
             /\ Stands(d, journal, Tables(registry), Tables(View), config)
    <2>1. \A x \in Proc : ~ Works(x)
        BY <1>1, <1>6 DEF Calm, Busy, Works
    <2>2. Unrecovered(d)
        BY <1>3, <1>4, <1>6 DEF Unrecovered
    <2>3. Stands(d, journal, Tables(registry), Tables(View), config)
        BY <1>3, <1>4, <1>6, <2>2 DEF Stands, Stages
    <2> QED BY <2>1, <2>3
<1>7. d.at \notin Inside
    BY <1>3, <1>4 DEF Inside, Stages
<1> QED BY <1>2, <1>3, <1>5, <1>6, <1>7, BesideMoves

\* A command that ends leaves the journal and the transaction to the next one.
LEMMA EndHolds ==
    ASSUME IInv, JInv, NEW p \in Proc, End(p) \/ KeepJournal(p) PROVE JInv'
<1>1. CASE End(p)
    BY <1>1, BesideMoves DEF End, Leave
<1>2. CASE KeepJournal(p)
    BY <1>2, BesideMoves DEF KeepJournal, Reverts, Leave
<1> QED BY <1>1, <1>2

\* What recovery takes for settled are tables that agree.
LEMMA SettledAgrees ==
    ASSUME NEW j, j # NoJournal, Recorded(j), NEW f \in Config, NEW r \in Registry,
           Torn(j, Tables(r), f), Settled(j, f, r)
    PROVE  f = Tables(r)
<1> DEFINE u == j.provider
           t == Tables(r)
<1>1. /\ u \in Provider /\ j.config \in Auth /\ "absent" \notin Auth
      /\ t \in [Provider -> Auth \cup {"absent"}]
      /\ Tables(j.before) \in [Provider -> Auth \cup {"absent"}]
      /\ \A v \in Provider \ {u} : f[v] = t[v]
    BY TableOfRecord DEF Recorded, Torn
<1>2. f[u] = t[u]
    <2>1. CASE j.action = "prepare" /\ Applied(j, f) /\ r = j.after
        BY <1>1, <2>1 DEF Recorded, Applied
    <2>2. CASE j.action = "prepare" /\ Absent(j, f) /\ r = j.before
        BY <1>1, <2>2 DEF Recorded, Absent
    <2>3. CASE j.action = "remove" /\ Absent(j, f) /\ r = j.after
        <3>1. t = [Tables(j.before) EXCEPT ![u] = "absent"]
            BY <2>3, TableChanges DEF Recorded
        <3> QED BY <1>1, <2>3, <3>1 DEF Absent
    <2>4. CASE j.action = "remove" /\ Applied(j, f) /\ r = j.before
        BY <1>1, <2>4 DEF Recorded, Applied
    <2> QED BY <2>1, <2>2, <2>3, <2>4 DEF Settled
<1>3. \A v \in Provider : f[v] = t[v]
    BY <1>1, <1>2
<1> HIDE DEF t
<1>4. f = t
    BY <1>1, <1>3 DEF Config
<1> QED BY <1>4 DEF t

\* A decision on a registry that recovery of a transaction may take back is
\* noted; else it is the one that recovery leaves.
LEMMA DecidesOnView ==
    ASSUME JInv, NEW p \in Proc, Recover(p), journal # NoJournal, Calm'
    PROVE  registry = View
<1>1. txn # NoTxn => txn.stage # "replaced"
    BY DEF Recover, Calm
<1>2. mishaps \subseteq mishaps'
    BY DEF Recover
<1>3. txn # NoTxn => registry = RegistryThere
    BY <1>2, CalmBefore DEF JInv, Held
<1> QED BY <1>1, <1>3 DEF RegistryThere, View

\* Recovery takes the case the journal and the tables call for.
LEMMA RecoverHolds ==
    ASSUME IInv, JInv, NEW p \in Proc, Recover(p) PROVE JInv'
<1> DEFINE c == run[p]
           t == Tables(View)
<1>0. /\ c # Idle /\ c.at = "recover"
      /\ UNCHANGED <<registry, config, journal, txn>> /\ mishaps \subseteq mishaps'
    BY DEF Recover, At
<1>1. /\ Works(p) /\ c \in Command /\ registry \in Registry /\ config \in Config
      /\ c.order.command \in Journaled /\ c.owner = "none"
      /\ journal # NoJournal => Recorded(journal)
    BY <1>0, BusyIsGood, PlaceWorks DEF JInv, Kept, Works, Sketched
<1>2. ASSUME Calm'
      PROVE  /\ Torn(journal, t, config)
             /\ \A x \in Proc : Works(x) => x = p
             /\ c.order.command # "recover" => Tables(registry) = t
    <2>1. /\ Torn(journal, t, config)
          /\ \A x \in Proc : Works(x) => x = p
          /\ Stands(c, journal, Tables(registry), t, config)
        BY <1>0, <1>2, CalmBefore, PlaceWorks
    <2>2. c.order.command # "recover" => ~ Unrecovered(c)
        BY <1>0 DEF Unrecovered, Inside, Stages
    <2> QED BY <2>1, <2>2 DEF Stands
<1>3. ASSUME journal # NoJournal, Calm' PROVE registry = View /\ Tables(registry) = t
    BY <1>3, DecidesOnView
<1>4. CASE Leave(p)
    BY <1>0, <1>4, BesideMoves DEF Leave
<1>5. CASE journal = NoJournal /\ c.order.command # "recover" /\ Go(p, "read")
    <2> DEFINE d == [c EXCEPT !.at = "read"]
    <2>1. Become(p, d) /\ d.at = "read" /\ d.order = c.order /\ d.owner = c.owner
        BY <1>0, <1>5, GoesTo DEF Go
    <2> HIDE DEF d
    <2>2. Sketched(d) /\ d.at \notin Inside
        BY <1>1, <2>1 DEF Sketched, Stages, Inside
    <2>3. Calm' => Stands(d, journal, Tables(registry), t, config)
        BY <1>2, <1>5, <2>1 DEF Stands, Stages
    <2> QED BY <1>0, <1>2, <2>1, <2>2, <2>3, BesideMoves
<1>6. CASE journal # NoJournal /\ Settled(journal, config, registry) /\ Go(p, "clear")
    <2> DEFINE d == [c EXCEPT !.at = "clear"]
    <2>1. Become(p, d) /\ d.at = "clear" /\ d.order = c.order
        BY <1>0, <1>6, GoesTo DEF Go
    <2> HIDE DEF d
    <2>2. Sketched(d) /\ d.at \notin Inside
        BY <1>1, <2>1 DEF Sketched, Stages, Inside
    <2>3. Calm' => config = t
        BY <1>1, <1>2, <1>3, <1>6, SettledAgrees
    <2>4. Calm' => Stands(d, journal, Tables(registry), t, config)
        BY <1>3, <1>6, <2>1, <2>3 DEF Stands, Stages
    <2> QED BY <1>0, <1>2, <2>1, <2>2, <2>4, BesideMoves
<1>7. CASE /\ journal # NoJournal /\ HalfPrepared(journal, config, registry)
           /\ Become(p, [c EXCEPT !.at = "roll back", !.seen = config,
                                  !.owner = journal.provider])
    <2> DEFINE d == [c EXCEPT !.at = "roll back", !.seen = config,
                              !.owner = journal.provider]
    <2>1. /\ Become(p, d) /\ d.at = "roll back" /\ d.order = c.order
          /\ d.owner = journal.provider
        BY <1>1, <1>7 DEF Command
    <2> HIDE DEF d
    <2>2. Sketched(d) /\ d.at \notin Inside
        BY <1>1, <2>1 DEF Sketched, Stages, Inside
    <2>3. Tables(registry)[journal.provider] = "absent" /\ journal.action = "prepare"
        <3>1. journal.action = "prepare" /\ registry = journal.before
            BY <1>7 DEF HalfPrepared
        <3> QED BY <1>1, <1>7, <3>1 DEF Recorded
    <2>4. Calm' => Stands(d, journal, Tables(registry), t, config)
        BY <1>3, <1>7, <2>1, <2>3 DEF Stands, Stages
    <2> QED BY <1>0, <1>2, <2>1, <2>2, <2>4, BesideMoves
<1>8. CASE /\ journal # NoJournal /\ HalfRemoved(journal, config, registry)
           /\ Become(p, [c EXCEPT !.at = "commit", !.base = registry,
                                  !.after = journal.after,
                                  !.owner = journal.provider])
    <2> DEFINE d == [c EXCEPT !.at = "commit", !.base = registry,
                              !.after = journal.after, !.owner = journal.provider]
    <2>1. /\ Become(p, d) /\ d.at = "commit" /\ d.order = c.order
          /\ d.base = registry /\ d.after = journal.after
          /\ d.owner = journal.provider
        BY <1>1, <1>8 DEF Command
    <2> HIDE DEF d
    <2>2. /\ journal.action = "remove" /\ config[journal.provider] = "absent"
          /\ journal.after = Without(registry, journal.provider)
          /\ journal.provider \in Provider
        BY <1>1, <1>8 DEF HalfRemoved, Absent, Recorded
    <2>3. Finishing(d) /\ ~ Planning(d)
        BY <1>1, <2>1, <2>2, NamesAreDistinct DEF Finishing, Planning
    <2>4. Sketched(d) /\ d.at \notin Inside
        BY <2>1, <2>3 DEF Sketched, Stages, Inside
    <2>5. Calm' => Stands(d, journal, Tables(registry), t, config)
        BY <1>3, <1>8, <2>1, <2>2, <2>3 DEF Stands, Stages
    <2> QED BY <1>0, <1>2, <2>1, <2>4, <2>5, BesideMoves
<1>9. \/ Leave(p)
      \/ journal = NoJournal /\ c.order.command # "recover" /\ Go(p, "read")
      \/ journal # NoJournal /\ Settled(journal, config, registry) /\ Go(p, "clear")
      \/ /\ journal # NoJournal /\ HalfPrepared(journal, config, registry)
         /\ Become(p, [c EXCEPT !.at = "roll back", !.seen = config,
                                !.owner = journal.provider])
      \/ /\ journal # NoJournal /\ HalfRemoved(journal, config, registry)
         /\ Become(p, [c EXCEPT !.at = "commit", !.base = registry,
                                !.after = journal.after,
                                !.owner = journal.provider])
    BY <1>0 DEF Recover, Runs
<1> QED BY <1>4, <1>5, <1>6, <1>7, <1>8, <1>9

\* Taking the table back leaves it as it was before.
LEMMA RollBackHolds ==
    ASSUME IInv, JInv, NEW p \in Proc, RollBack(p) PROVE JInv'
<1> DEFINE c == run[p]
           t == Tables(View)
<1>0. /\ c # Idle /\ c.at = "roll back" /\ config \in Config
      /\ config' = [config EXCEPT ![c.owner] = "absent"]
      /\ UNCHANGED <<registry, journal, txn, mishaps>>
      /\ Go(p, "rolled back") \/ Leave(p)
    BY DEF RollBack, At, IInv, TypeOK
<1>1. /\ Works(p) /\ ~ Unrecovered(c)
      /\ Calm => Torn(journal, t, config)
                 /\ Stands(c, journal, Tables(registry), t, config)
    BY <1>0, PlaceWorks DEF Unrecovered, Inside, Stages
<1>3. ASSUME Calm
      PROVE  /\ journal # NoJournal /\ journal.action = "prepare"
             /\ journal.provider = c.owner /\ t[c.owner] = "absent"
             /\ Torn(journal, t, config')
    <2>1. /\ journal # NoJournal /\ journal.action = "prepare"
          /\ journal.provider = c.owner /\ t[c.owner] = "absent"
        BY <1>0, <1>1, <1>3 DEF Stands
    <2>2. Recorded(journal) /\ Torn(journal, t, config)
        BY <1>1, <1>3, <2>1 DEF JInv, Kept
    <2>3. /\ config'[c.owner] = "absent"
          /\ \A v \in Provider \ {c.owner} : config'[v] = config[v]
        BY <1>0, <2>1, <2>2 DEF Recorded, Config
    <2>4. journal.config # "absent" /\ c.owner \in Provider
        BY <2>1, <2>2, AuthKinds DEF Recorded
    <2> HIDE DEF t, c
    <2>5. Torn(journal, t, config')
        BY <2>1, <2>2, <2>3, <2>4 DEF Torn
    <2> QED BY <2>1, <2>5
<1>4. PICK d : /\ Become(p, d)
               /\ d = Idle \/ (d.at = "rolled back" /\ d.order = c.order
                               /\ d.owner = c.owner)
    <2> DEFINE e == [c EXCEPT !.at = "rolled back"]
    <2>1. e.at = "rolled back" /\ e.order = c.order /\ e.owner = c.owner
        BY <1>0, GoesTo
    <2>2. Become(p, e) \/ Become(p, Idle)
        BY <1>0 DEF Go, Leave
    <2> HIDE DEF e
    <2> QED BY <2>1, <2>2
<1>5. d = Idle \/ (Sketched(d) /\ d.at \notin Inside)
    BY <1>1, <1>4 DEF Sketched, Works, Stages, Inside
<1>6. Calm /\ d # Idle => Stands(d, journal, t, t, config')
    BY <1>3, <1>4 DEF Stands, Stages
<1> QED BY <1>0, <1>1, <1>3, <1>4, <1>5, <1>6, WorkMoves

\* When the table is back, everything agrees.
LEMMA RolledBackHolds ==
    ASSUME IInv, JInv, NEW p \in Proc, RolledBack(p) PROVE JInv'
<1> DEFINE c == run[p]
           t == Tables(View)
           d == [c EXCEPT !.at = "clear"]
<1>0. /\ c # Idle /\ c.at = "rolled back" /\ config[c.owner] = "absent"
      /\ UNCHANGED <<registry, config, journal, txn, mishaps>>
      /\ Become(p, d)
    BY DEF RolledBack, At, Go
<1>1. /\ Works(p) /\ ~ Unrecovered(c) /\ config \in Config /\ View \in Registry
      /\ Calm => Torn(journal, t, config)
                 /\ Stands(c, journal, Tables(registry), t, config)
    BY <1>0, PlaceWorks DEF Unrecovered, Inside, Stages
<1>3. ASSUME Calm PROVE config = t
    <2>1. /\ journal # NoJournal /\ journal.provider = c.owner /\ t[c.owner] = "absent"
        BY <1>0, <1>1, <1>3 DEF Stands
    <2>2. t \in [Provider -> Auth \cup {"absent"}]
        BY <1>1, TableOfRecord
    <2>3. \A v \in Provider : config[v] = t[v]
        BY <1>0, <1>1, <1>3, <2>1 DEF Torn
    <2>4. config \in Config
        BY <1>1
    <2> HIDE DEF t, c, d
    <2>5. config = t
        BY <2>2, <2>3, <2>4 DEF Config
    <2> QED BY <2>5 DEF t
<1>4. d.at = "clear" /\ d.order = c.order
    BY <1>0, GoesTo
<1> HIDE DEF d
<1>5. Sketched(d) /\ d.at \notin Inside
    BY <1>1, <1>4 DEF Sketched, Works, Stages, Inside
<1>6. Calm => Stands(d, journal, t, t, config)
    BY <1>3, <1>4 DEF Stands, Stages
<1>7. Calm => Torn(journal, t, config)
    BY <1>1
<1> QED BY <1>0, <1>1, <1>5, <1>6, <1>7, WorkMoves

\* The journal goes when everything agrees.
LEMMA ClearHolds ==
    ASSUME IInv, JInv, NEW p \in Proc, Clear(p) \/ Done(p) PROVE JInv'
<1> DEFINE c == run[p]
           t == Tables(View)
<1>0. /\ c # Idle /\ c.at \in {"clear", "done"} /\ journal' = NoJournal
      /\ UNCHANGED <<registry, config, txn, mishaps>>
      /\ Leave(p) \/ Become(p, Fresh(c.order, "read"))
    BY DEF Clear, Done, At
<1>1. /\ Works(p) /\ ~ Unrecovered(c)
      /\ Calm => Stands(c, journal, Tables(registry), t, config)
    BY <1>0, PlaceWorks DEF Unrecovered, Inside, Stages
<1>3. Calm => Torn(NoJournal, t, config)
    BY <1>0, <1>1 DEF Stands, Torn
<1>4. PICK d : /\ Become(p, d)
               /\ d = Idle \/ (d.at = "read" /\ d.order = c.order /\ d.owner = "none")
    BY <1>0 DEF Leave, Fresh
<1>5. d = Idle \/ /\ Sketched(d) /\ d.at \notin Inside
                  /\ Stands(d, NoJournal, t, t, config)
    BY <1>1, <1>4 DEF Sketched, Works, Stands, Stages, Inside
<1> QED BY <1>0, <1>1, <1>3, <1>4, <1>5, WorkMoves

-----------------------------------------------------------------------------
(* Prepare and remove. *)

\* The table that is written is the one in the journal, or none.
LEMMA WantedTable ==
    ASSUME NEW c, c.order.command \in {"prepare", "remove"},
           NEW phase, Recorded(Entry(c, phase))
    PROVE  /\ c.order.command = "prepare" => Wanted(c) = Entry(c, phase).config
           /\ c.order.command = "remove" => Wanted(c) = "absent"
           /\ c.order.provider \in Provider
           /\ Tables(c.after) = [Tables(c.base) EXCEPT ![c.order.provider] = Wanted(c)]
<1> DEFINE j == Entry(c, phase)
           u == c.order.provider
<1>1. /\ j.provider = u /\ j.action = c.order.command
      /\ j.before = c.base /\ j.after = c.after
    BY DEF Entry
<1>2. Wanted(c) = Tables(c.after)[u] /\ u \in Provider /\ c.base \in Registry
    BY <1>1 DEF Wanted, Tables, Recorded
<1>3. Tables(c.base) \in [Provider -> Auth \cup {"absent"}]
    BY <1>2, TableOfRecord
<1>4. CASE c.order.command = "prepare"
    <2>1. Tables(c.after) = [Tables(c.base) EXCEPT ![u] = j.config]
        BY <1>1, <1>4 DEF Recorded
    <2> QED BY <1>2, <1>3, <1>4, <2>1
<1>5. CASE c.order.command = "remove"
    <2>1. c.after = Without(c.base, u)
        BY <1>1, <1>5 DEF Recorded
    <2>2. Tables(c.after) = [Tables(c.base) EXCEPT ![u] = "absent"]
        BY <1>2, <2>1, TableChanges
    <2> QED BY <1>2, <1>3, <1>5, <2>2
<1> QED BY <1>4, <1>5

\* What prepare and remove know of their plan.
LEMMA PlanIsKnown ==
    ASSUME IInv, JInv, NEW p \in Proc, run[p] # Idle,
           run[p].at \in {"journal", "write", "check", "applied"}
    PROVE  /\ Planning(run[p]) /\ Recorded(Entry(run[p], "preparing"))
           /\ run[p].order.command \in {"prepare", "remove"}
           /\ Works(p) /\ ~ Unrecovered(run[p])
           /\ View \in Registry /\ config \in Config
           /\ Calm => /\ Torn(journal, Tables(View), config)
                      /\ Stands(run[p], journal, Tables(registry), Tables(View), config)
<1>1. /\ Works(p) /\ Sketched(run[p])
      /\ Calm => /\ Torn(journal, Tables(View), config)
                 /\ Stands(run[p], journal, Tables(registry), Tables(View), config)
      /\ View \in Registry /\ config \in Config
    BY PlaceWorks
<1>2. Planning(run[p])
    BY <1>1 DEF Sketched
<1>3. ~ Unrecovered(run[p])
    BY DEF Unrecovered, Inside, Stages
<1> QED BY <1>1, <1>2, <1>3 DEF Planning

\* A command plans on a journal that is gone.
LEMMA PlanHolds ==
    ASSUME IInv, JInv, NEW p \in Proc, ReadPrepare(p) \/ ReadRemove(p) PROVE JInv'
<1> DEFINE c == run[p]
           v == c.order.provider
           t == Tables(registry)
<1>0. /\ c # Idle /\ c.at = "read" /\ c.order.command \in {"prepare", "remove"}
      /\ UNCHANGED <<registry, config, journal, txn, mishaps>>
    BY DEF ReadPrepare, ReadRemove, At, Runs
<1>1. /\ c \in Command /\ c.order \in Order /\ registry \in Registry
      /\ v \in Provider
    BY <1>0, BusyIsGood, OrderNames DEF IInv, TypeOK
<1>2. /\ Works(p) /\ ~ Unrecovered(c) /\ c.owner = "none"
      /\ Calm => /\ Stands(c, journal, t, Tables(View), config)
                 /\ Torn(journal, Tables(View), config)
    BY <1>0, PlaceWorks DEF Journaled, Unrecovered, Inside, Stages, Sketched
<1>3. PICK after :
         /\ Plan(p, "journal", after)
         /\ \/ /\ c.order.command = "prepare" /\ ~ Registered(registry, v)
               /\ after = Prepared(registry, v, c.order.auth, helper)
            \/ /\ c.order.command = "remove" /\ Registered(registry, v)
               /\ RolesOf(registry, v) = {} /\ after = Without(registry, v)
    BY <1>0 DEF ReadPrepare, ReadRemove, Runs
<1> DEFINE d == [c EXCEPT !.at = "journal", !.seen = config, !.base = registry,
                          !.after = after]
<1>4. /\ d.at = "journal" /\ d.order = c.order /\ d.base = registry
      /\ d.after = after /\ d.owner = c.owner
    BY <1>1 DEF Command
<1>5. Become(p, d)
    BY <1>3 DEF Plan
<1> HIDE DEF d
<1> DEFINE j == Entry(d, "preparing")
<1>6. /\ j.action = c.order.command /\ j.provider = v
      /\ j.before = registry /\ j.after = after
      /\ c.order.command = "prepare" => j.config = c.order.auth
      /\ c.order.command = "remove" => j.config = registry.providers[v].auth
    BY <1>0, <1>4 DEF Entry
<1> HIDE DEF j
<1>7. Recorded(j)
    <2>1. CASE c.order.command = "prepare"
        <3>1. ~ Registered(registry, v)
              /\ after = Prepared(registry, v, c.order.auth, helper)
            BY <1>3, <2>1
        <3>2. /\ t[v] = "absent" /\ c.order.auth \in Auth
              /\ Tables(after) = [t EXCEPT ![v] = c.order.auth]
            BY <1>1, <2>1, <3>1, TableOfRecord, TableChanges, OrderNames
        <3> QED BY <1>1, <1>6, <2>1, <3>2 DEF Recorded
    <2>2. CASE c.order.command = "remove"
        <3>1. Registered(registry, v) /\ RolesOf(registry, v) = {}
              /\ after = Without(registry, v)
            BY <1>3, <2>2
        <3>2. t[v] = registry.providers[v].auth /\ t[v] \in Auth
            BY <1>1, <3>1, TableOfRecord
        <3> QED BY <1>1, <1>6, <2>2, <3>1, <3>2 DEF Recorded
    <2> QED BY <1>0, <2>1, <2>2
<1>8. Planning(d)
    BY <1>0, <1>2, <1>4, <1>7 DEF Planning, j
<1>9. Sketched(d) /\ d.at \notin Inside
    BY <1>4, <1>8 DEF Sketched, Stages, Inside
<1>10. Calm => Stands(d, journal, Tables(View), Tables(View), config)
    BY <1>0, <1>2, <1>4 DEF Stands, Stages
<1>11. Calm => Torn(journal, Tables(View), config)
    BY <1>2
<1> QED BY <1>0, <1>2, <1>5, <1>9, <1>10, <1>11, WorkMoves

\* The journal is written before the table, and again when the table is there.
LEMMA WriteJournalHolds ==
    ASSUME IInv, JInv, NEW p \in Proc, WriteJournal(p) PROVE JInv'
<1> DEFINE c == run[p]
           t == Tables(View)
           u == c.order.provider
           phase == IF c.at = "journal" THEN "preparing" ELSE "applied"
           place == IF c.at = "journal" THEN "write" ELSE "commit"
           d == [c EXCEPT !.at = place]
           j == Entry(c, phase)
<1>0. /\ c # Idle /\ c.at \in {"journal", "applied"}
      /\ journal' = j
      /\ UNCHANGED <<registry, config, txn, mishaps>>
      /\ Become(p, d)
    BY DEF WriteJournal, At, Go
<1>1. c.order.command \in {"prepare", "remove"} /\ Planning(c)
    BY <1>0, PlanIsKnown
<1>2. /\ Recorded(Entry(c, "preparing")) /\ Works(p) /\ ~ Unrecovered(c)
      /\ View \in Registry
      /\ Calm => /\ Torn(journal, t, config)
                 /\ Stands(c, journal, Tables(registry), t, config)
    BY <1>0, PlanIsKnown
<1>3. /\ Recorded(j) /\ j # NoJournal /\ j.provider = u /\ j.action = c.order.command
      /\ j.phase = phase /\ j.config = Entry(c, "preparing").config
      /\ j.before = c.base
    BY <1>1, <1>2, EntryIsRecorded
<1>4. /\ d.at = place /\ d.order = c.order /\ d.base = c.base /\ d.after = c.after
      /\ d.owner = c.owner
    BY <1>0, GoesTo
<1> HIDE DEF d
<1>5. Entry(d, phase) = j /\ Entry(d, "preparing") = Entry(c, "preparing")
      /\ Wanted(d) = Wanted(c)
    BY <1>4, SameEntry
<1>6. /\ c.order.command = "prepare" => Wanted(c) = j.config
      /\ c.order.command = "remove" => Wanted(c) = "absent"
      /\ u \in Provider
    <2>1. Recorded(Entry(c, "preparing"))
        BY <1>2
    <2> HIDE DEF j
    <2>2. /\ c.order.command = "prepare" => Wanted(c) = Entry(c, "preparing").config
          /\ c.order.command = "remove" => Wanted(c) = "absent"
          /\ u \in Provider
          /\ Tables(c.after) = [Tables(c.base) EXCEPT ![u] = Wanted(c)]
        BY <1>1, <2>1, WantedTable
    <2> QED BY <1>3, <2>2
<1>7. /\ j.config \in Auth /\ "absent" \notin Auth
      /\ t \in [Provider -> Auth \cup {"absent"}]
    BY <1>2, <1>3, TableOfRecord DEF Recorded
<1>12. Planning(d) /\ ~ Finishing(d)
    BY <1>1, <1>4, <1>5, NamesAreDistinct DEF Planning, Finishing
<1> HIDE DEF j
<1>8. ASSUME Calm PROVE Torn(j, t, config) /\ Stands(d, j, t, t, config)
    <2>1. t = Tables(c.base)
        BY <1>0, <1>2, <1>8 DEF Stands
    <2>2. Torn(j, t, config)
        <3>1. CASE c.at = "journal"
            <4>1. config = t /\ phase = "preparing"
                BY <1>2, <1>8, <3>1 DEF Stands, Torn
            <4>2. t[u] = "absent" \/ (t[u] = j.config /\ j.action = "remove")
                BY <1>3, <2>1 DEF Recorded
            <4> HIDE DEF t, c, u
            <4> QED BY <1>3, <1>6, <1>7, <4>1, <4>2 DEF Torn
        <3>2. CASE c.at = "applied"
            <4>1. journal = Entry(c, "preparing") /\ config[u] = Wanted(c)
                BY <1>2, <1>8, <3>2 DEF Stands
            <4>2. /\ journal # NoJournal /\ journal.provider = u
                  /\ journal.action = c.order.command /\ journal.config = j.config
                BY <1>1, <1>2, <1>3, <4>1, EntryIsRecorded
            <4>3. Torn(journal, t, config)
                BY <1>2, <1>8
            <4> HIDE DEF t, u, c
            <4> QED BY <1>1, <1>3, <1>6, <1>7, <4>1, <4>2, <4>3 DEF Torn
        <3> QED BY <1>0, <3>1, <3>2
    <2>3. c.at = "applied" => config[u] = Wanted(c)
        BY <1>2, <1>8 DEF Stands
    <2>4. CASE c.at = "journal"
        BY <1>4, <1>5, <2>1, <2>2, <2>4 DEF Stands, Stages
    <2>5. CASE c.at = "applied"
        <3>1. d.at = "commit" /\ j = Entry(d, "applied")
            BY <1>4, <1>5, <2>5
        <3> QED BY <1>4, <1>5, <1>12, <2>1, <2>2, <2>3, <2>5, <3>1 DEF Stands, Stages
    <2> QED BY <1>0, <2>2, <2>4, <2>5
<1>9. Sketched(d) /\ d.at \notin Inside
    BY <1>4, <1>12 DEF Sketched, Stages, Inside
<1> QED BY <1>0, <1>2, <1>3, <1>8, <1>9, WorkMoves

\* The table is written as the journal says, whether or not the answer arrives.
LEMMA WriteTableHolds ==
    ASSUME IInv, JInv, NEW p \in Proc, WriteTable(p) PROVE JInv'
<1> DEFINE c == run[p]
           t == Tables(View)
           u == c.order.provider
           j == Entry(c, "preparing")
<1>0. /\ c # Idle /\ c.at = "write"
      /\ config' = [config EXCEPT ![u] = Wanted(c)]
      /\ UNCHANGED <<registry, journal, txn, mishaps>>
      /\ Go(p, "check") \/ Leave(p)
    BY DEF WriteTable, At
<1>1. c.order.command \in {"prepare", "remove"} /\ Planning(c)
    BY <1>0, PlanIsKnown
<1>2. /\ Recorded(j) /\ Works(p) /\ ~ Unrecovered(c)
      /\ View \in Registry /\ config \in Config
      /\ Calm => /\ Torn(journal, t, config)
                 /\ Stands(c, journal, Tables(registry), t, config)
    BY <1>0, PlanIsKnown
<1>3. /\ j # NoJournal /\ j.provider = u /\ j.action = c.order.command
      /\ j.phase = "preparing" /\ j.before = c.base
    BY <1>1, <1>2, EntryIsRecorded
<1>4. /\ c.order.command = "prepare" => Wanted(c) = j.config
      /\ c.order.command = "remove" => Wanted(c) = "absent"
      /\ u \in Provider
    <2>1. Recorded(Entry(c, "preparing"))
        BY <1>2
    <2>2. /\ c.order.command = "prepare" => Wanted(c) = Entry(c, "preparing").config
          /\ c.order.command = "remove" => Wanted(c) = "absent"
          /\ u \in Provider
          /\ Tables(c.after) = [Tables(c.base) EXCEPT ![u] = Wanted(c)]
        BY <1>1, <2>1, WantedTable
    <2> QED BY <2>2
<1>5. j.config \in Auth /\ "absent" \notin Auth
    BY <1>2, TableOfRecord DEF Recorded
<1>6. PICK d : /\ Become(p, d)
               /\ \/ d = Idle
                  \/ /\ d.at = "check" /\ d.order = c.order /\ d.owner = c.owner
                     /\ d.base = c.base /\ d.after = c.after
    <2> DEFINE e == [c EXCEPT !.at = "check"]
    <2>1. /\ e.at = "check" /\ e.order = c.order /\ e.base = c.base
          /\ e.after = c.after /\ e.owner = c.owner
        BY <1>0, GoesTo
    <2>2. Become(p, e) \/ Become(p, Idle)
        BY <1>0 DEF Go, Leave
    <2> HIDE DEF e
    <2> QED BY <2>1, <2>2
<1>7. d # Idle => Entry(d, "preparing") = j /\ Planning(d)
    BY <1>1, <1>6, SameEntry DEF Planning
<1>8. d = Idle \/ (Sketched(d) /\ d.at \notin Inside)
    BY <1>6, <1>7 DEF Sketched, Stages, Inside
<1>9. /\ config'[u] = Wanted(c)
      /\ \A v \in Provider \ {u} : config'[v] = config[v]
    BY <1>0, <1>2, <1>4 DEF Config
<1>10. ASSUME Calm
       PROVE  Torn(journal, t, config') /\ (d # Idle => Stands(d, journal, t, t, config'))
    <2>1. journal = j /\ t = Tables(c.base) /\ Torn(j, t, config)
        BY <1>0, <1>2, <1>10 DEF Stands
    <2>2. t[u] = "absent" \/ (t[u] = j.config /\ j.action = "remove")
        <3>1. Recorded(j) /\ t = Tables(j.before) /\ j.provider = u
            BY <1>2, <1>3, <2>1
        <3> HIDE DEF t, j, u
        <3> QED BY <3>1 DEF Recorded
    <2>3. d # Idle => Stands(d, journal, t, t, config')
        BY <1>6, <1>7, <2>1 DEF Stands, Stages
    <2> HIDE DEF t, c, u, j
    <2>4. Torn(j, t, config')
        BY <1>1, <1>3, <1>4, <1>5, <1>9, <2>1, <2>2 DEF Torn
    <2> QED BY <2>1, <2>3, <2>4
<1> QED BY <1>0, <1>2, <1>6, <1>8, <1>10, WorkMoves

\* The table is checked before the journal says that it was written.
LEMMA CheckTableHolds ==
    ASSUME IInv, JInv, NEW p \in Proc, CheckTable(p) PROVE JInv'
<1> DEFINE c == run[p]
           t == Tables(View)
           d == [c EXCEPT !.at = "applied"]
<1>0. /\ c # Idle /\ c.at = "check" /\ config[c.order.provider] = Wanted(c)
      /\ UNCHANGED <<registry, config, journal, txn, mishaps>>
      /\ Become(p, d)
    BY DEF CheckTable, At, Go
<1>1. /\ Planning(c) /\ Works(p) /\ ~ Unrecovered(c)
      /\ Calm => /\ Torn(journal, t, config)
                 /\ Stands(c, journal, Tables(registry), t, config)
    BY <1>0, PlanIsKnown
<1>3. /\ d.at = "applied" /\ d.order = c.order /\ d.base = c.base
      /\ d.after = c.after /\ d.owner = c.owner
    BY <1>0, GoesTo
<1> HIDE DEF d
<1>4. Entry(d, "preparing") = Entry(c, "preparing") /\ Wanted(d) = Wanted(c)
    BY <1>3, SameEntry
<1>5. Sketched(d) /\ d.at \notin Inside
    BY <1>1, <1>3, <1>4 DEF Sketched, Planning, Stages, Inside
<1>6. Calm => Stands(d, journal, t, t, config)
    BY <1>0, <1>1, <1>3, <1>4 DEF Stands, Stages
<1>7. Calm => Torn(journal, t, config)
    BY <1>1
<1> QED BY <1>0, <1>1, <1>5, <1>6, <1>7, WorkMoves

-----------------------------------------------------------------------------
(* The transactions. *)

\* What the transaction of a command makes of the tables: what the command has
\* made of the configuration, or nothing.
LEMMA AfterIsThere ==
    ASSUME IInv, JInv, Calm, NEW p \in Proc, run[p] # Idle, run[p].at \in Stages
    PROVE  /\ Torn(journal, Tables(run[p].after), config)
           /\ Works(p) => config = Tables(run[p].after)
           /\ ~ Works(p) => Tables(run[p].after) = Tables(View)
<1> DEFINE c == run[p]
           t == Tables(View)
           s == Tables(c.after)
           u == IF Planning(c) THEN c.order.provider ELSE c.owner
           w == s[u]
<1>0. /\ Held /\ Sketched(c) /\ config \in Config
      /\ journal # NoJournal => Recorded(journal)
      /\ Torn(journal, t, config)
    BY ViewIsGood DEF JInv, Kept, Held
<1>1. /\ Owns(c, txn) /\ txn # NoTxn /\ txn.before = c.base /\ View = c.base
      /\ c.base \in Registry
    BY <1>0, TxnHasGood DEF Held, Owns, View
<1>2. t \in [Provider -> Auth \cup {"absent"}] /\ "absent" \notin Auth
    BY <1>1, TableOfRecord
<1>3. CASE ~ Works(p)
    <2>1. Keeping(c)
        BY <1>0, <1>3 DEF Sketched, Works, Finishing, Planning, Journaled
    <2> QED BY <1>0, <1>1, <1>3, <2>1 DEF Keeping
<1>4. CASE Works(p)
    <2>0. /\ Stands(c, journal, Tables(registry), t, config)
          /\ Planning(c) \/ Finishing(c)
        BY <1>0, <1>4 DEF Held, Works, Sketched, Keeping
    <2>1. /\ journal # NoJournal /\ journal.provider = u /\ u \in Provider
          /\ config[u] = w /\ s = [t EXCEPT ![u] = w]
          /\ w = "absent" \/ (w = journal.config /\ journal.action = "prepare")
          /\ Recorded(journal)
        <3>1. CASE Planning(c)
            <4>1. journal = Entry(c, "applied") /\ config[u] = Wanted(c)
                BY <2>0, <3>1 DEF Stands
            <4>2. /\ Recorded(journal) /\ journal # NoJournal /\ journal.provider = u
                  /\ journal.action = c.order.command
                BY <3>1, <4>1, EntryIsRecorded DEF Planning
            <4>3. /\ c.order.command = "prepare" => Wanted(c) = journal.config
                  /\ c.order.command = "remove" => Wanted(c) = "absent"
                  /\ u \in Provider /\ s = [t EXCEPT ![u] = Wanted(c)]
                BY <1>1, <3>1, <4>1, <4>2, WantedTable DEF Planning
            <4>4. w = Wanted(c)
                BY <1>2, <4>3
            <4> QED BY <3>1, <4>1, <4>2, <4>3, <4>4 DEF Planning
        <3>2. CASE Finishing(c) /\ ~ Planning(c)
            <4>1. /\ journal # NoJournal /\ journal.action = "remove"
                  /\ journal.provider = u /\ config[u] = "absent" /\ u \in Provider
                BY <2>0, <3>2 DEF Stands, Finishing
            <4>2. s = [t EXCEPT ![u] = "absent"]
                BY <1>1, <3>2, TableChanges DEF Finishing
            <4>3. w = "absent"
                BY <1>2, <4>1, <4>2
            <4>4. Recorded(journal)
                BY <1>0, <4>1
            <4> HIDE DEF t, s, u, w, c
            <4> QED BY <4>1, <4>2, <4>3, <4>4
        <3> QED BY <2>0, <3>1, <3>2
    <2>2. journal.config \in Auth /\ journal.action \in {"prepare", "remove"}
        BY <2>1 DEF Recorded
    <2>3. /\ s \in [Provider -> Auth \cup {"absent"}]
          /\ \A v \in Provider \ {u} : s[v] = t[v]
        BY <1>2, <2>1, <2>2
    <2>4. s[u] = w
        OBVIOUS
    <2> HIDE DEF t, s, c, u, w
    <2>5. \A v \in Provider : config[v] = s[v]
        BY <1>0, <2>1, <2>3, <2>4 DEF Torn
    <2>6. config = s
        BY <1>0, <2>3, <2>5 DEF Config
    <2>7. Torn(journal, s, config)
        BY <1>2, <2>1, <2>2, <2>3, <2>4, <2>5 DEF Torn
    <2> QED BY <1>4, <2>6, <2>7 DEF s, c
<1> QED BY <1>3, <1>4

\* A transaction starts where no other one is left.
LEMMA StageHolds ==
    ASSUME IInv, JInv, NEW p \in Proc, Stage(p) PROVE JInv'
<1> DEFINE c == run[p]
           d == [c EXCEPT !.at = "staged"]
           x == [stage |-> "staged", before |-> c.base, after |-> c.after,
                 stale |-> FALSE]
<1>0. /\ c # Idle /\ c.at = "commit" /\ Free(p) /\ txn = NoTxn
      /\ registry = c.base /\ txn' = x /\ Become(p, d)
      /\ UNCHANGED <<registry, config, journal, mishaps>>
    BY DEF Stage, At, Go
<1>1. /\ d.at = "staged" /\ d.order = c.order /\ d.owner = c.owner
      /\ d.base = c.base /\ d.after = c.after
    BY <1>0, GoesTo
<1>2. /\ x.stage = "staged" /\ x.before = c.base /\ x.after = c.after
      /\ x # NoTxn
    <2>1. "before" \in DOMAIN x /\ "before" \notin DOMAIN NoTxn
        BY DEF NoTxn
    <2> QED BY <2>1
<1> HIDE DEF d, x
<1>3. /\ Entry(d, "applied") = Entry(c, "applied")
      /\ Entry(d, "preparing") = Entry(c, "preparing")
      /\ Wanted(d) = Wanted(c)
    BY <1>1, SameEntry
<1>4. /\ Planning(d) <=> Planning(c)
      /\ Finishing(d) <=> Finishing(c)
      /\ Keeping(d) <=> Keeping(c)
    BY <1>1, <1>3 DEF Planning, Finishing, Keeping
<1>5. Sketched(c) /\ Sketched(d)
    <2>1. Sketched(c)
        BY <1>0 DEF JInv, Kept
    <2> QED BY <1>0, <1>1, <1>4, <2>1 DEF Sketched, Stages
<1>6. /\ View' = c.base /\ View = c.base /\ registry' = RegistryThere'
      /\ registry' = c.base /\ (Calm' <=> Calm)
    BY <1>0, <1>2 DEF View, RegistryThere, Calm
<1>7. Calm => Torn(journal, Tables(registry'), config)
    BY <1>0 DEF JInv, Held
<1>8. Owns(d, txn')
    BY <1>0, <1>1, <1>2 DEF Owns
<1>9. ASSUME Calm, d.order.command \in Journaled
      PROVE  /\ \A y \in Proc : Works(y) => y = p
             /\ Stands(d, journal, Tables(registry'), Tables(View), config)
    <2>1. /\ Stands(c, journal, Tables(registry), Tables(View), config)
          /\ \A y \in Proc : Works(y) => y = p
        BY <1>0, <1>1, <1>9, PlaceWorks
    <2>2. Unrecovered(d)
        BY <1>1 DEF Unrecovered, Inside, Stages
    <2>3. Stands(d, journal, Tables(registry'), Tables(View), config)
        BY <1>0, <1>1, <1>3, <1>4, <2>1, <2>2 DEF Stands, Stages
    <2> QED BY <2>1, <2>3
<1> QED BY <1>0, <1>5, <1>6, <1>7, <1>8, <1>9, EngineMoves

\* The transaction of a command goes to its next stage.
LEMMA MovedHolds ==
    ASSUME IInv, JInv, NEW p \in Proc, Publish(p) \/ Link(p) \/ Swap(p) PROVE JInv'
<1> DEFINE c == run[p]
<1>0. PICK to \in {"published", "linked", "replaced"} :
         /\ Become(p, [c EXCEPT !.at = to])
         /\ c # Idle /\ c.at \in Stages /\ txn # NoTxn /\ txn.stage = c.at
         /\ UNCHANGED <<config, journal>> /\ mishaps \subseteq mishaps'
         /\ \/ /\ to # "replaced" /\ c.at # "replaced" /\ registry' = registry
               /\ txn' = [txn EXCEPT !.stage = to]
            \/ /\ to = "replaced" /\ registry' = txn.after
               /\ txn' = [txn EXCEPT !.stage = to, !.stale = FALSE]
    <2>1. CASE Publish(p)
        BY <2>1 DEF Publish, Moved, At, Go, Stages
    <2>2. CASE Link(p)
        BY <2>2 DEF Link, Moved, At, Go, Stages
    <2>3. CASE Swap(p)
        BY <2>3 DEF Swap, Moved, At, Go, Stages
    <2> QED BY <2>1, <2>2, <2>3
<1> DEFINE d == [c EXCEPT !.at = to]
<1>1. /\ d.at = to /\ d.order = c.order /\ d.owner = c.owner
      /\ d.base = c.base /\ d.after = c.after
    BY <1>0, GoesTo
<1> HIDE DEF d
<1>b. Become(p, d)
    BY <1>0 DEF d
<1>2. /\ txn' \in Txn /\ txn' # NoTxn /\ txn'.stage = to
      /\ txn'.before = txn.before /\ txn'.after = txn.after
    <2>1. txn \in Txn /\ to \in Stages
        BY <1>0, TxnHasGood DEF Stages
    <2> DEFINE x == [txn EXCEPT !.stage = to]
               y == [txn EXCEPT !.stage = to, !.stale = FALSE]
    <2>a. /\ x \in Txn /\ x.stage = to /\ x.before = txn.before /\ x.after = txn.after
          /\ y \in Txn /\ y.stage = to /\ y.before = txn.before /\ y.after = txn.after
        <3>1. x \in Txn /\ x.stage = to /\ x.before = txn.before /\ x.after = txn.after
            BY <2>1 DEF Txn
        <3>2. y \in Txn /\ y.stage = to /\ y.before = txn.before /\ y.after = txn.after
            BY <2>1 DEF Txn
        <3> HIDE DEF x, y
        <3> QED BY <3>1, <3>2
    <2>b. txn' = x \/ txn' = y
        BY <1>0
    <2> HIDE DEF x, y
    <2>2. /\ txn' \in Txn /\ txn'.stage = to
          /\ txn'.before = txn.before /\ txn'.after = txn.after
        BY <2>a, <2>b
    <2> QED BY <2>2, TxnIsSome
<1>3. /\ Entry(d, "applied") = Entry(c, "applied")
      /\ Entry(d, "preparing") = Entry(c, "preparing")
      /\ Wanted(d) = Wanted(c)
    BY <1>1, SameEntry
<1>4. /\ Planning(d) <=> Planning(c)
      /\ Finishing(d) <=> Finishing(c)
      /\ Keeping(d) <=> Keeping(c)
    BY <1>1, <1>3 DEF Planning, Finishing, Keeping
<1>5. Sketched(c) /\ Sketched(d)
    <2>1. Sketched(c)
        BY <1>0 DEF JInv, Kept
    <2> QED BY <1>0, <1>1, <1>4, <2>1 DEF Sketched, Stages
<1>6. Free(p)
    BY <1>0, InsideIsFree DEF JInv, Inside
<1>7. View' = View
    BY <1>0, <1>2 DEF View
<1>8. ASSUME Calm'
      PROVE  /\ registry' = RegistryThere'
             /\ Owns(d, txn')
             /\ Torn(journal, Tables(registry'), config)
             /\ to = "replaced" => registry' = c.after
             /\ Calm
    <2>0. Held /\ Calm
        BY <1>0, <1>8, CalmBefore DEF JInv
    <2>1. txn.before = c.base /\ txn.after = c.after /\ registry = RegistryThere
        BY <1>0, <2>0 DEF Held, Owns
    <2>2. Owns(d, txn')
        BY <1>1, <1>2, <2>1 DEF Owns
    <2>3. registry' = RegistryThere'
        BY <1>0, <1>2, <2>1 DEF RegistryThere
    <2>4. Torn(journal, Tables(registry'), config)
        <3>1. CASE registry' = registry
            BY <2>0, <3>1 DEF Held
        <3>2. CASE registry' = c.after
            BY <1>0, <2>0, <3>2, AfterIsThere
        <3> QED BY <1>0, <2>1, <3>1, <3>2
    <2> QED BY <1>0, <2>0, <2>1, <2>2, <2>3, <2>4
<1>9. ASSUME Calm', d.order.command \in Journaled
      PROVE  /\ \A y \in Proc : Works(y) => y = p
             /\ Stands(d, journal, Tables(registry'), Tables(View), config)
    <2>1. /\ Stands(c, journal, Tables(registry), Tables(View), config)
          /\ \A y \in Proc : Works(y) => y = p
          /\ Works(p)
        BY <1>0, <1>1, <1>8, <1>9, PlaceWorks
    <2>2. Unrecovered(d)
        BY <1>1 DEF Unrecovered, Inside, Stages
    <2>3. config = Tables(c.after)
        BY <1>0, <1>8, <1>9, <2>1, AfterIsThere
    <2>4. Stands(d, journal, Tables(registry'), Tables(View), config)
        BY <1>0, <1>1, <1>3, <1>4, <2>1, <2>2, <2>3 DEF Stands, Stages
    <2> QED BY <2>1, <2>4
<1>10. ASSUME Calm', NEW y \in Proc \ {p}, Works(y), ~ Unrecovered(run[y])
       PROVE  Tables(registry') = Tables(View)
    <2>1. Held /\ Calm
        BY <1>8, <1>10 DEF JInv
    <2>2. Tables(registry) = Tables(View) /\ ~ Works(p)
        BY <1>10, <2>1 DEF Held, Stands
    <2>3. Tables(c.after) = Tables(View)
        BY <1>0, <2>1, <2>2, AfterIsThere
    <2> QED BY <1>0, <1>8, <1>10, <2>2, <2>3
<1> QED BY <1>0, <1>b, <1>2, <1>5, <1>6, <1>7, <1>8, <1>9, <1>10, EngineMoves

\* With the commit the registry that is there is the one recovery leaves.
LEMMA CommitHolds ==
    ASSUME IInv, JInv, NEW p \in Proc, Commit(p) PROVE JInv'
<1> DEFINE c == run[p]
<1>0. /\ c # Idle /\ c.at = "replaced" /\ txn # NoTxn /\ txn.stage = "replaced"
      /\ txn' = NoTxn
      /\ UNCHANGED <<registry, config, journal, mishaps>>
      /\ c.at \in Stages
      /\ \/ c.owner # "none" /\ Go(p, "clear")
         \/ c.owner = "none" /\ c.order.command \in Journaled /\ Go(p, "done")
         \/ c.owner = "none" /\ c.order.command \notin Journaled /\ Leave(p)
    BY DEF Commit, At, Stages
<1>1. Sketched(c)
    BY <1>0 DEF JInv, Kept
<1>2. Free(p)
    BY <1>0, InsideIsFree DEF JInv, Inside
<1>3. View' = registry /\ registry' = registry /\ (Calm' <=> Calm)
    BY <1>0 DEF View, Calm
<1>4. ASSUME Calm
      PROVE  /\ Held
             /\ registry = c.after
    <2>1. Held
        BY <1>4 DEF JInv
    <2>2. registry = RegistryThere /\ txn.after = c.after
        BY <1>0, <2>1 DEF Held, Owns
    <2> QED BY <1>0, <2>1, <2>2 DEF RegistryThere
<1>5. Calm => Torn(journal, Tables(registry'), config) /\ Torn(journal, Tables(View'), config)
    BY <1>3, <1>4 DEF Held
<1>6. PICK d : /\ Become(p, d)
               /\ \/ d = Idle
                  \/ /\ d.at \in {"clear", "done"} /\ d.order = c.order
                     /\ c.order.command \in Journaled
                     /\ d.at = "done" => c.order.command \in {"prepare", "remove"}
    <2>1. CASE c.owner # "none" /\ Go(p, "clear")
        <3> DEFINE e == [c EXCEPT !.at = "clear"]
        <3>1. e.at = "clear" /\ e.order = c.order /\ Become(p, e)
            BY <1>0, <2>1, GoesTo DEF Go
        <3>2. c.order.command \in Journaled
            BY <1>0, <1>1, <2>1 DEF Sketched, Finishing, Planning, Keeping
        <3> HIDE DEF e
        <3> QED BY <3>1, <3>2
    <2>2. CASE c.owner = "none" /\ c.order.command \in Journaled /\ Go(p, "done")
        <3> DEFINE e == [c EXCEPT !.at = "done"]
        <3>1. e.at = "done" /\ e.order = c.order /\ Become(p, e)
            BY <1>0, <2>2, GoesTo DEF Go
        <3>2. c.order.command \in {"prepare", "remove"}
            BY <1>0, <1>1, <2>2, NamesAreDistinct
               DEF Sketched, Finishing, Planning, Keeping
        <3> HIDE DEF e
        <3> QED BY <2>2, <3>1, <3>2
    <2> QED BY <1>0, <2>1, <2>2 DEF Leave
<1>7. d = Idle \/ (Sketched(d) /\ d.at \notin Inside)
    BY <1>6 DEF Sketched, Stages, Inside
<1>8. d # Idle => Owns(d, txn')
    BY <1>6 DEF Owns, Stages
<1>9. ASSUME Calm, d # Idle
      PROVE  /\ \A x \in Proc : Works(x) => x = p
             /\ Stands(d, journal', Tables(registry'), Tables(View'), config')
    <2>1. Works(p)
        BY <1>0, <1>6, <1>9 DEF Works
    <2>2. config = Tables(registry)
        BY <1>0, <1>4, <1>9, <2>1, AfterIsThere
    <2>3. Stands(d, journal', Tables(registry'), Tables(View'), config')
        BY <1>0, <1>3, <1>6, <1>9, <2>2 DEF Stands, Stages
    <2> QED BY <1>4, <1>9, <2>1, <2>3 DEF Held
<1>10. ASSUME Calm, NEW x \in Proc \ {p}, Works(x)
       PROVE  Stands(run[x], journal', Tables(registry'), Tables(View'), config')
    <2>1. /\ Stands(run[x], journal, Tables(registry), Tables(View), config)
          /\ ~ Works(p)
        BY <1>4, <1>10 DEF Held
    <2>2. Tables(registry) = Tables(View)
        BY <1>0, <1>4, <1>10, <2>1, AfterIsThere
    <2> QED BY <1>0, <1>3, <2>1, <2>2
<1>11. Calm' => (txn' # NoTxn => registry' = RegistryThere')
    BY <1>0
<1> QED BY <1>0, <1>2, <1>3, <1>5, <1>6, <1>7, <1>8, <1>9, <1>10, <1>11, AllMoves

\* A process that raised goes on to undo its transaction.
LEMMA RaiseHolds ==
    ASSUME IInv, JInv, NEW p \in Proc, Raise(p) PROVE JInv'
<1> DEFINE c == run[p]
           d == [c EXCEPT !.at = "revert"]
<1>0. /\ c # Idle /\ c.at \in Stages /\ Become(p, d)
      /\ UNCHANGED <<registry, config, journal, txn, mishaps>>
    BY DEF Raise, Busy, Go
<1>1. d.at = "revert" /\ d.order = c.order
    BY <1>0, GoesTo
<1> HIDE DEF d
<1>2. Sketched(d)
    BY <1>1 DEF Sketched, Stages
<1>3. ASSUME Calm, d.order.command \in Journaled
      PROVE  /\ \A x \in Proc : Works(x) => x = p
             /\ Stands(d, journal, Tables(registry), Tables(View), config)
    <2>1. \A x \in Proc : Works(x) => x = p
        BY <1>0, <1>1, <1>3, PlaceWorks
    <2>2. Stands(d, journal, Tables(registry), Tables(View), config)
        BY <1>1 DEF Stands, Stages, Unrecovered, Inside
    <2> QED BY <2>1, <2>2
<1>4. Calm' => Calm
    BY <1>0 DEF Calm
<1> QED BY <1>0, <1>1, <1>2, <1>3, <1>4, BesideMoves DEF Inside

\* Recovery of a transaction leaves what it was promised to leave.
LEMMA UndoHolds ==
    ASSUME IInv, JInv, NEW p \in Proc, UndoRegistry(p) \/ UndoFiles(p) PROVE JInv'
<1> DEFINE c == run[p]
<1>0. /\ c # Idle /\ c.at \in {"engine", "revert", "commit"} /\ txn # NoTxn
      /\ UNCHANGED <<config, journal>> /\ mishaps \subseteq mishaps'
      /\ c.at = "commit" => Free(p)
      /\ Meddles(p) \subseteq mishaps'
    BY DEF UndoRegistry, UndoFiles, Reverts, At
<1>1. Calm' => Free(p)
    <2>1. c.at = "revert" => Free(p)
        BY <1>0, InsideIsFree DEF JInv, Inside
    <2>2. Calm' /\ c.at = "engine" => Free(p)
        BY <1>0 DEF Meddles, At, Calm
    <2> QED BY <1>0, <2>1, <2>2
<1>2. txn \in Txn
    BY <1>0, TxnHasGood
<1>3. \/ /\ txn' # NoTxn /\ txn'.before = txn.before /\ txn'.stage = "published"
         /\ registry' = txn.before
      \/ /\ txn' = NoTxn /\ txn.stage # "replaced" /\ registry' = registry
    <2>1. CASE UndoRegistry(p)
        <3> DEFINE x == [txn EXCEPT !.stage = "published"]
        <3>1. x \in Txn /\ x.stage = "published" /\ x.before = txn.before
            BY <1>2, TxnGoes DEF Stages
        <3>2. txn' = x /\ registry' = txn.before
            BY <2>1 DEF UndoRegistry
        <3> HIDE DEF x
        <3> QED BY <3>1, <3>2, TxnIsSome
    <2>2. CASE UndoFiles(p)
        BY <2>2 DEF UndoFiles
    <2> QED BY <2>1, <2>2
<1>4. ASSUME Calm'
      PROVE  /\ registry' = View /\ View' = View
             /\ txn' # NoTxn => registry' = RegistryThere'
             /\ Held
    <2>1. Held
        BY <1>0, <1>4, CalmBefore DEF JInv
    <2>2. registry = RegistryThere
        BY <1>0, <2>1 DEF Held
    <2>3. registry' = txn.before
        BY <1>3, <2>2 DEF RegistryThere
    <2>4. View = txn.before /\ View' = txn.before
        BY <1>0, <1>3, <2>3 DEF View
    <2>5. txn' # NoTxn => registry' = RegistryThere'
        BY <1>3 DEF RegistryThere
    <2> QED BY <2>1, <2>3, <2>4, <2>5
<1>5. Sketched(c)
    BY <1>0 DEF JInv, Kept
<1>6. PICK d : Become(p, d) /\ (d = Idle \/ d = c)
    BY <1>0 DEF UndoRegistry, UndoFiles, Leave, Become, IInv, TypeOK
<1>7. d = Idle \/ Sketched(d)
    BY <1>5, <1>6
<1>8. d = Idle \/ d.at \notin Inside \/ Free(p)
    <2>1. c.at \in Inside => Free(p)
        BY <1>0, InsideIsFree DEF JInv
    <2> QED BY <1>6, <2>1
<1>9. d # Idle => Owns(d, txn')
    BY <1>0, <1>6 DEF Owns, Stages
<1>10. ASSUME Calm', d # Idle, d.order.command \in Journaled
       PROVE  /\ \A x \in Proc : Works(x) => x = p
              /\ Stands(d, journal, Tables(registry'), Tables(View), config)
    <2>1. Works(p) /\ d = c
        BY <1>0, <1>6, <1>10 DEF Works
    <2>2. Stands(c, journal, Tables(registry), Tables(View), config)
        BY <1>4, <1>10, <2>1 DEF Held
    <2>3. Stands(c, journal, Tables(registry'), Tables(View), config)
        BY <1>4, <1>10, <2>2 DEF Stands
    <2> QED BY <1>4, <1>10, <2>1, <2>3 DEF Held
<1>11. Calm' => Torn(journal, Tables(registry'), config)
    BY <1>4 DEF Held
<1>12. Calm' => \A x \in Proc \ {p} : Works(x) /\ ~ Unrecovered(run[x]) =>
          Tables(registry') = Tables(View)
    BY <1>4
<1>13. Calm' => Tables(View') = Tables(View)
    BY <1>4
<1> QED BY <1>0, <1>1, <1>4, <1>6, <1>7, <1>8, <1>9, <1>10, <1>11, <1>12, <1>13,
           EngineMoves

\* A command whose engine has nothing left to recover goes on.
LEMMA RecoveredHolds ==
    ASSUME IInv, JInv, NEW p \in Proc, Recovered(p) PROVE JInv'
<1> DEFINE c == run[p]
           place == IF c.order.command \in Journaled THEN "recover" ELSE "read"
           d == [c EXCEPT !.at = place]
<1>0. /\ c # Idle /\ c.at = "engine" /\ txn = NoTxn /\ Become(p, d)
      /\ UNCHANGED <<registry, config, journal, txn, mishaps>>
    BY DEF Recovered, At, Go
<1>1. d.at = place /\ d.order = c.order /\ d.owner = c.owner
    BY <1>0, GoesTo
<1> HIDE DEF d
<1>2. c.owner = "none"
    BY <1>0 DEF JInv, Kept, Sketched
<1>3. Sketched(d) /\ d.at \notin Inside
    BY <1>1, <1>2 DEF Sketched, Stages, Inside
<1>4. ASSUME Calm, d.order.command \in Journaled
      PROVE  /\ \A x \in Proc : Works(x) => x = p
             /\ Stands(d, journal, Tables(registry), Tables(View), config)
    <2>1. \A x \in Proc : Works(x) => x = p
        BY <1>0, <1>1, <1>4, PlaceWorks
    <2>2. registry = View /\ d.at = "recover"
        BY <1>0, <1>1, <1>4 DEF View
    <2>3. Stands(d, journal, Tables(registry), Tables(View), config)
        BY <2>2 DEF Stands, Stages
    <2> QED BY <2>1, <2>3
<1>5. Calm' => Calm
    BY <1>0 DEF Calm
<1> QED BY <1>0, <1>3, <1>4, <1>5, BesideMoves

-----------------------------------------------------------------------------
(* The commands that read no journal. *)

\* A command that read the registry and will leave the tables as they are.
LEMMA DraftHolds ==
    ASSUME IInv, JInv, NEW p \in Proc, run[p] # Idle, run[p].at = "read",
           run[p].order.command \notin Journaled,
           NEW place \in {"compare", "commit", "attest"}, NEW after,
           Draft(p, place, after), Tables(after) = Tables(registry),
           UNCHANGED <<registry, config, journal, txn, mishaps>>
    PROVE  JInv'
<1> DEFINE d == [run[p] EXCEPT !.at = place, !.base = registry, !.after = after]
<1>1. Become(p, d)
    BY DEF Draft
<1>2. /\ d.at = place /\ d.base = registry /\ d.after = after
      /\ d.order = run[p].order /\ d.owner = run[p].owner
    BY BusyIsGood DEF Command
<1> HIDE DEF d
<1>3. run[p].owner = "none"
    BY DEF JInv, Kept, Sketched
<1>4. Keeping(d)
    BY <1>2, <1>3 DEF Keeping
<1>5. Sketched(d) /\ d.at \notin Inside
    BY <1>2, <1>4 DEF Sketched, Stages, Inside
<1> QED BY <1>1, <1>2, <1>5, BesideMoves

\* Each of the reads makes of the registry one that stands for the same tables.
LEMMA ReadHolds ==
    ASSUME IInv, JInv, NEW p \in Proc,
           \/ ReadGate0(p) \/ ReadConnect(p) \/ ReadReady(p)
           \/ ReadDisconnect(p) \/ ReadRetrust(p) \/ ReadInvoke(p)
    PROVE  JInv'
<1> DEFINE v == run[p].order.provider
           o == run[p].order.role
           r == registry
<1>0. /\ r \in Registry /\ Valid(r)
      /\ run[p].at = "read"
    BY DEF IInv, TypeOK, RegistriesAreGood, Good, Reads, At, ReadGate0, ReadConnect,
           ReadReady, ReadDisconnect, ReadRetrust, ReadInvoke
<1>1. CASE ReadGate0(p)
    <2>1. /\ Reads(p, "gate0") /\ Draft(p, "compare", Authenticated(r, v))
          /\ r.providers[v].state \in Stored
        BY <1>1 DEF ReadGate0, Gate0Accepts, Stored
    <2>2. run[p] # Idle /\ run[p].order.command = "gate0" /\ v \in Provider
        BY <2>1, ReadsAreGood, OrderNames
    <2>3. Tables(Authenticated(r, v)) = Tables(r)
        BY <1>0, <2>1, <2>2, RegisteredIsStored, ProviderTablesStay
    <2> QED BY <1>0, <2>1, <2>2, <2>3, ReadsAreGood, DraftHolds DEF Journaled
<1>2. CASE ReadConnect(p)
    <2>1. /\ Reads(p, "connect") /\ Draft(p, "commit", Staged(r, o, v))
          /\ r.providers[v].state \in Stored
        BY <1>2 DEF ReadConnect, Stored
    <2>2. run[p] # Idle /\ run[p].order.command = "connect" /\ v \in Provider
        BY <2>1, ReadsAreGood, OrderNames
    <2>3. Tables(Staged(r, o, v)) = Tables(r)
        BY <1>0, <2>1, <2>2, RegisteredIsStored, ProviderTablesStay
    <2> QED BY <1>0, <2>1, <2>2, <2>3, ReadsAreGood, DraftHolds DEF Journaled
<1>3. CASE ReadReady(p)
    <2>1. /\ Reads(p, "ready") /\ Draft(p, "compare", MadeReady(r, o))
          /\ r.roles[o].state = "RESTART_REQUIRED"
        BY <1>3 DEF ReadReady, ReadyAccepts
    <2>2. run[p] # Idle /\ run[p].order.command = "ready" /\ o \in Role
        BY <2>1, ReadsAreGood, OrderNames
    <2>3. r.roles[o] # Unconnected /\ r.roles[o].provider \in Provider
        BY <1>0, <2>1, <2>2, ConnectedHasRecord DEF RoleRecord
    <2>4. Tables(MadeReady(r, o)) = Tables(r)
        BY <1>0, <2>2, <2>3, RoleTablesStay DEF Valid
    <2> QED BY <1>0, <2>1, <2>2, <2>4, ReadsAreGood, DraftHolds DEF Journaled
<1>4. CASE ReadDisconnect(p)
    <2>1. /\ Reads(p, "disconnect") /\ Draft(p, "commit", Disconnected(r, o))
          /\ r.roles[o] # Unconnected
        BY <1>4 DEF ReadDisconnect
    <2>2. run[p] # Idle /\ run[p].order.command = "disconnect" /\ o \in Role
        BY <2>1, ReadsAreGood, OrderNames
    <2>3. r.roles[o].provider \in Provider
        BY <1>0, <2>1, <2>2, ConnectedHasRecord DEF RoleRecord
    <2>4. Tables(Disconnected(r, o)) = Tables(r)
        BY <1>0, <2>1, <2>2, <2>3, RoleTablesStay DEF Valid
    <2> QED BY <1>0, <2>1, <2>2, <2>4, ReadsAreGood, DraftHolds DEF Journaled
<1>5. CASE ReadRetrust(p)
    <2>1. /\ Reads(p, "retrust") /\ Draft(p, "compare", Retrusted(r, v, helper))
          /\ r.providers[v].auth = "user_helper"
        BY <1>5 DEF ReadRetrust, RetrustAccepts
    <2>2. run[p] # Idle /\ run[p].order.command = "retrust" /\ v \in Provider
        BY <2>1, ReadsAreGood, OrderNames
    <2>3. Registered(r, v)
        BY <2>1 DEF Registered, Unregistered
    <2>4. Tables(Retrusted(r, v, helper)) = Tables(r)
        BY <1>0, <2>2, <2>3, ProviderTablesStay
    <2> QED BY <1>0, <2>1, <2>2, <2>4, ReadsAreGood, DraftHolds DEF Journaled
<1>6. CASE ReadInvoke(p)
    <2>1. Reads(p, "invoke") /\ Draft(p, "attest", r)
        BY <1>6 DEF ReadInvoke
    <2>2. run[p] # Idle /\ run[p].order.command = "invoke"
        BY <2>1, ReadsAreGood
    <2> QED BY <1>0, <2>1, <2>2, ReadsAreGood, DraftHolds DEF Journaled
<1> QED BY <1>1, <1>2, <1>3, <1>4, <1>5, <1>6

\* A command without a journal goes on as it was.
LEMMA GoHolds ==
    ASSUME IInv, JInv, NEW p \in Proc, Compare(p) \/ Probe(p) \/ Attest(p) \/ Launch(p)
    PROVE  JInv'
<1>0. /\ run[p] # Idle /\ run[p].at \in {"compare", "probe", "attest", "launch"}
      /\ UNCHANGED <<registry, config, journal, txn, mishaps>>
    BY DEF Compare, Probe, Attest, Launch, At
<1>1. PICK place \in {"replace", "probing", "launch", "model"} :
         Go(p, place) /\ (place = "replace" => run[p].at = "compare")
    BY DEF Compare, Probe, Attest, Launch, At
<1> DEFINE d == [run[p] EXCEPT !.at = place]
<1>2. /\ Become(p, d) /\ d.at = place /\ d.order = run[p].order
      /\ d.base = run[p].base /\ d.after = run[p].after
    BY <1>0, <1>1, GoesTo DEF Go
<1> HIDE DEF d
<1>3. Sketched(run[p])
    BY <1>0 DEF JInv, Kept
<1>4. run[p].order.command \notin Journaled
    BY <1>0, <1>3 DEF Sketched
<1>5. Sketched(d) /\ d.at \notin Inside
    BY <1>0, <1>1, <1>2, <1>3, <1>4 DEF Sketched, Stages, Inside
<1> QED BY <1>0, <1>2, <1>4, <1>5, BesideMoves

\* A replacement leaves the tables as they are, or an update is lost or a
\* transaction written over.
LEMMA ReplaceHolds ==
    ASSUME IInv, FInv, JInv, NEW p \in Proc, Replace(p) PROVE JInv'
<1>0. /\ run[p] # Idle /\ run[p].at = "replace" /\ registry' = run[p].after
      /\ UNCHANGED <<config, journal>> /\ mishaps \subseteq mishaps'
      /\ txn # NoTxn => "disturbed" \in mishaps'
      /\ txn = NoTxn => txn' = NoTxn
      /\ Leave(p) \/ Go(p, "probe")
    BY DEF Replace, At
<1>1. Sketched(run[p]) /\ Compared(run[p])
    BY <1>0 DEF JInv, Kept, FInv
<1>2. run[p].order.command \notin Journaled
    BY <1>0, <1>1 DEF Sketched
<1>3. ASSUME Calm'
      PROVE  /\ txn = NoTxn /\ txn' = NoTxn /\ Held
             /\ View' = registry' /\ View = registry
             /\ Tables(registry') = Tables(registry)
    <2>1. Calm /\ Held
        BY <1>0, <1>3, CalmBefore DEF JInv
    <2>2. registry = run[p].base
        BY <1>0, <1>1, <2>1 DEF Compared, Calm
    <2>3. Tables(run[p].after) = Tables(run[p].base)
        BY <1>0, <1>1 DEF Sketched
    <2>4. txn = NoTxn /\ txn' = NoTxn
        BY <1>0, <1>3 DEF Calm
    <2> QED BY <1>0, <2>1, <2>2, <2>3, <2>4 DEF View
<1>4. PICK d : /\ Become(p, d)
               /\ d = Idle \/ (d.at = "probe" /\ d.order = run[p].order)
    <2> DEFINE e == [run[p] EXCEPT !.at = "probe"]
    <2>1. e.at = "probe" /\ e.order = run[p].order
        BY <1>0, GoesTo
    <2>2. Become(p, e) \/ Become(p, Idle)
        BY <1>0 DEF Go, Leave
    <2> HIDE DEF e
    <2> QED BY <2>1, <2>2
<1>5. d = Idle \/ (Sketched(d) /\ d.at \notin Inside)
    BY <1>2, <1>4 DEF Sketched, Stages, Inside
<1>6. d # Idle => Owns(d, txn') /\ d.order.command \notin Journaled
    BY <1>2, <1>4 DEF Owns, Stages
<1>7. Calm' => Torn(journal, Tables(registry'), config)
    BY <1>3 DEF Held
<1>8. Calm' => Tables(View') = Tables(View) /\ Tables(registry') = Tables(View)
    BY <1>3
<1>9. Calm' => txn' = txn /\ txn' = NoTxn
    BY <1>3
<1> QED BY <1>0, <1>4, <1>5, <1>6, <1>7, <1>8, <1>9, EngineMoves

\* What Gate 0 will write after the probe stands for the same tables.
LEMMA ProbedHolds ==
    ASSUME IInv, JInv, NEW p \in Proc, Probed(p) PROVE JInv'
<1> DEFINE v == run[p].order.provider
           after == Qualify(run[p].after, v)
           d == [run[p] EXCEPT !.at = "compare", !.base = run[p].after,
                               !.after = after]
<1>0. /\ run[p] # Idle /\ run[p].at = "probing" /\ Become(p, d)
      /\ UNCHANGED <<registry, config, journal, txn, mishaps>>
    BY DEF Probed, At
<1>1. /\ run[p] \in Command /\ run[p].after \in Registry
      /\ run[p].order.command = "gate0"
      /\ Registered(run[p].after, v) /\ v \in Provider
    BY <1>0, BusyIsGood, OrderNames DEF Command, GoodRun
<1>2. Tables(after) = Tables(run[p].after)
    BY <1>1, ProviderTablesStay
<1> HIDE DEF after
<1>3. /\ d.at = "compare" /\ d.base = run[p].after /\ d.after = after
      /\ d.order = run[p].order
    BY <1>1 DEF Command
<1> HIDE DEF d
<1>4. Sketched(d) /\ d.order.command \notin Journaled /\ d.at \notin Inside
    BY <1>1, <1>2, <1>3 DEF Sketched, Journaled, Stages, Inside
<1> QED BY <1>0, <1>4, BesideMoves

\* An edit of a table is noted, and no other act of the user touches one.
LEMMA UserHolds ==
    ASSUME IInv, JInv, UserStep PROVE JInv'
<1>1. /\ UNCHANGED <<registry, journal, txn, run>> /\ mishaps \subseteq mishaps'
      /\ config' = config \/ "table edit" \in mishaps'
    BY DEF UserStep, EditTable, EditAgent, ReplaceHelper, Edit
<1>2. Kept'
    BY <1>1 DEF JInv, Kept
<1>3. ASSUME Calm' PROVE Held'
    <2>1. config' = config
        BY <1>1, <1>3 DEF Calm
    <2>2. Held
        BY <1>1, <1>3, CalmBefore DEF JInv
    <2>3. View' = View /\ RegistryThere' = RegistryThere
        BY <1>1 DEF View, RegistryThere
    <2> QED BY <1>1, <2>1, <2>2, <2>3 DEF Held, Works
<1> QED BY <1>2, <1>3 DEF JInv

-----------------------------------------------------------------------------
\* Every step keeps the invariant.
LEMMA NextHolds == IInv /\ FInv /\ JInv /\ [Next]_vars => JInv'
<1> SUFFICES ASSUME IInv, FInv, JInv, [Next]_vars PROVE JInv'
    OBVIOUS
<1>1. CASE UserStep
    BY <1>1, UserHolds
<1>2. ASSUME NEW p \in Proc, Step(p) PROVE JInv'
    BY <1>2, StartHolds, EndHolds, StageHolds, MovedHolds, CommitHolds, RaiseHolds,
       UndoHolds, RecoveredHolds, RecoverHolds, RollBackHolds, RolledBackHolds,
       ClearHolds, PlanHolds, WriteJournalHolds, WriteTableHolds, CheckTableHolds,
       ReadHolds, GoHolds, ReplaceHolds, ProbedHolds DEF Step
<1>3. CASE UNCHANGED vars
    <2>1. View' = View /\ RegistryThere' = RegistryThere
        BY <1>3 DEF vars, View, RegistryThere
    <2> QED BY <1>3, <2>1 DEF vars, JInv, Kept, Held, Calm, Works
<1> QED BY <1>1, <1>2, <1>3 DEF Next

\* It holds at the start: nothing is registered and there is no table.
LEMMA InitHeld == Init => JInv
<1> SUFFICES ASSUME Init PROVE JInv
    OBVIOUS
<1>1. config = Tables(registry) /\ View = registry /\ txn = NoTxn
    BY DEF Init, NoConfig, NoRegistry, Tables, Expected, View
<1> QED BY <1>1 DEF Init, JInv, Kept, Held, Torn, Works

\* The invariants together.
LEMMA AllInvariant == Spec => []JInv
<1>1. Init => IInv /\ SInv /\ FInv /\ JInv
    BY InitHolds, InitFollows, InitHeld
<1>2. IInv /\ SInv /\ FInv /\ JInv /\ [Next]_vars => (IInv /\ SInv /\ FInv /\ JInv)'
    BY NextKeeps, NextFollows, NextHolds
<1> QED BY <1>1, <1>2, PTL DEF Spec

\* prepare_provider, remove_provider and their recovery leave a provider
\* registered exactly if its table is in the configuration, once the transaction
\* that was cut off is recovered, wherever any number of commands was cut off,
\* inside the transaction too, and for any number of providers and commands;
\* unless two of them overlapped, an update was lost, an uncommitted registry was
\* decided on or written over, or the user edited a table.
THEOREM RegisteredAreConfigured == Spec => []RegisteredIsConfigured
    BY AllInvariant, HeldAgrees, PTL

\* recover_provider_journal finds a case for whatever a cut-off command left,
\* before and after the transaction is recovered, as long as the registry is
\* still one of the two in the journal.
THEOREM RecoveryStaysPossible == Spec => []RecoveryIsPossible
    BY AllInvariant, HeldRecovers, PTL

=============================================================================
