----------------------- MODULE ExternalLifecycleProofs -----------------------
(***************************************************************************)
(* Proofs about ExternalLifecycle.  A registry is good, for what passed    *)
(* Gate 0 so far, if its next reader accepts it, its staged and ready      *)
(* providers have roles, and its proven providers passed Gate 0 with the   *)
(* helper they trust.  The invariant is that every registry in sight is    *)
(* good: the file, the two of a transaction that is not committed, and     *)
(* what each command has read or is about to write.  A lost update, or a   *)
(* recovery that takes a registry back, replaces one good registry by      *)
(* another.                                                                *)
(***************************************************************************)
EXTENDS ExternalLifecycle, TLAPS

Good(r, q) ==
    /\ r \in Registry
    /\ Valid(r)
    /\ \A v \in Provider :
          /\ r.providers[v].state \in {"RESTART_REQUIRED", "READY"}
             => RolesOf(r, v) # {}
          /\ r.providers[v].state \in Proven =>
                r.providers[v].qualified /\ <<v, r.providers[v].trust>> \in q

-----------------------------------------------------------------------------
(* The registries the commands make of good ones. *)

\* A record of a provider that is registered is a record with a stored state,
\* and a stored state makes a record that of a registered provider.
LEMMA RegisteredIsStored ==
    ASSUME NEW r \in Registry, NEW v \in Provider
    PROVE  /\ Registered(r, v) => r.providers[v] \in ProviderRecord
           /\ ~ Registered(r, v) => r.providers[v] = Unregistered
           /\ r.providers[v].state \in Stored => Registered(r, v)
           /\ Registered(r, v) => r.providers[v].state \in Stored
<1>1. r.providers[v] \in ProviderRecord \cup {Unregistered}
    BY DEF Registry
<1>2. Unregistered.state \notin Stored
    BY DEF Unregistered, Stored
<1>3. \A record \in ProviderRecord : record.state \in Stored
    BY DEF ProviderRecord
<1> QED BY <1>1, <1>2, <1>3 DEF Registered

\* A role that is connected has a role record, and one that is not has none.
LEMMA ConnectedHasRecord ==
    ASSUME NEW r \in Registry, NEW o \in Role
    PROVE  /\ r.roles[o] # Unconnected => r.roles[o] \in RoleRecord
           /\ r.roles[o].provider \in Provider => r.roles[o] # Unconnected
           /\ r.roles[o].state \in {"RESTART_REQUIRED", "READY"}
              => r.roles[o] # Unconnected
    BY NamesAreDistinct DEF Registry, RoleRecord, Unconnected

\* The empty registry is good.
LEMMA NoRegistryGood == ASSUME NEW q PROVE Good(NoRegistry, q)
    BY DEF Good, NoRegistry, Registry, Valid, Registered, Unregistered,
           Unconnected, Proven

\* What passed Gate 0 stays passed.
LEMMA GoodGrows ==
    ASSUME NEW q, NEW s, q \subseteq s, NEW r, Good(r, q)
    PROVE  Good(r, s)
    BY DEF Good

\* A change of one provider's record: the others and the roles stay, and the
\* result is good if the new record is right by itself.
LEMMA OneProviderChanges ==
    ASSUME NEW q, NEW r, Good(r, q), NEW v \in Provider,
           NEW record \in ProviderRecord,
           record.state \in {"RESTART_REQUIRED", "READY"} => RolesOf(r, v) # {},
           record.state \in Proven => record.qualified /\ <<v, record.trust>> \in q,
           NEW s, s = [r EXCEPT !.providers[v] = record]
    PROVE  Good(s, q)
<1>1. /\ r \in Registry
      /\ s.providers = [r.providers EXCEPT ![v] = record]
      /\ s.roles = r.roles
      /\ s \in Registry
    BY DEF Good, Registry
<1>2. Registered(s, v)
    BY <1>1 DEF Registered, Registry, ProviderRecord, Unregistered, Stored
<1>3. \A w \in Provider : w # v => s.providers[w] = r.providers[w]
    BY <1>1 DEF Registry
<1>4. Valid(s)
    BY <1>1, <1>2, <1>3 DEF Good, Valid, Registered
<1>5. \A w \in Provider : RolesOf(s, w) = RolesOf(r, w)
    BY <1>1 DEF RolesOf
<1>6. s.providers[v] = record
    BY <1>1 DEF Registry
<1>7. ASSUME NEW w \in Provider
      PROVE  /\ s.providers[w].state \in {"RESTART_REQUIRED", "READY"}
                => RolesOf(s, w) # {}
             /\ s.providers[w].state \in Proven =>
                   s.providers[w].qualified /\ <<w, s.providers[w].trust>> \in q
    <2>1. CASE w = v
        BY <2>1, <1>5, <1>6
    <2>2. CASE w # v
        BY <2>2, <1>3, <1>5 DEF Good
    <2> QED BY <2>1, <2>2
<1> QED BY <1>1, <1>4, <1>7 DEF Good

\* Preparing, authenticating, qualifying and trusting a helper keep it good.
LEMMA PreparedGood ==
    ASSUME NEW q, NEW r, Good(r, q), NEW v \in Provider, NEW auth \in Auth,
           NEW trusted \in Helper
    PROVE  Good(Prepared(r, v, auth, trusted), q)
<1> DEFINE record == [state |-> "AUTH_REQUIRED", qualified |-> v \in Qualified,
                      auth |-> auth,
                      trust |-> IF auth = "user_helper" THEN trusted ELSE "none"]
<1>1. record \in ProviderRecord
    BY DEF ProviderRecord, Stored
<1>2. Prepared(r, v, auth, trusted) = [r EXCEPT !.providers[v] = record]
    BY DEF Prepared
<1>3. record.state \notin Proven \cup {"RESTART_REQUIRED", "READY"}
    BY DEF Proven
<1> HIDE DEF record
<1> QED BY <1>1, <1>2, <1>3, OneProviderChanges

\* Gate 0 only raises the provider to a state that proves nothing.
LEMMA AuthenticatedGood ==
    ASSUME NEW q, NEW r, Good(r, q), NEW v \in Provider, Registered(r, v)
    PROVE  /\ Good(Authenticated(r, v), q)
           /\ Authenticated(r, v).providers[v].state = "AUTH_READY"
<1> DEFINE record == [r.providers[v] EXCEPT !.state = "AUTH_READY"]
<1>0. r \in Registry
    BY DEF Good
<1>1. record \in ProviderRecord /\ record.state = "AUTH_READY"
    BY <1>0, RegisteredIsStored DEF ProviderRecord, Stored
<1>2. Authenticated(r, v) = [r EXCEPT !.providers[v] = record]
    BY DEF Authenticated
<1>3. record.state \notin Proven \cup {"RESTART_REQUIRED", "READY"}
    BY <1>1 DEF Proven
<1> HIDE DEF record
<1>4. Good(Authenticated(r, v), q)
    BY <1>1, <1>2, <1>3, OneProviderChanges
<1>5. Authenticated(r, v).providers[v] = record
    BY <1>0, <1>2 DEF Registry
<1> QED BY <1>1, <1>4, <1>5

\* Trusting another helper takes away what the old one proved.
LEMMA RetrustedGood ==
    ASSUME NEW q, NEW r, Good(r, q), NEW v \in Provider, Registered(r, v),
           NEW trusted \in Helper
    PROVE  Good(Retrusted(r, v, trusted), q)
<1> DEFINE record == [r.providers[v] EXCEPT !.trust = trusted,
                                            !.state = "AUTH_REQUIRED",
                                            !.qualified = FALSE]
<1>0. r \in Registry
    BY DEF Good
<1>1. record \in ProviderRecord /\ record.state = "AUTH_REQUIRED"
    BY <1>0, RegisteredIsStored DEF ProviderRecord, Stored
<1>2. Retrusted(r, v, trusted) = [r EXCEPT !.providers[v] = record]
    BY <1>0 DEF Retrusted, Registry
<1>3. record.state \notin Proven \cup {"RESTART_REQUIRED", "READY"}
    BY <1>1 DEF Proven
<1> HIDE DEF record
<1> QED BY <1>1, <1>2, <1>3, OneProviderChanges

\* A qualified provider passed Gate 0 with the helper it trusts.
LEMMA QualifyGood ==
    ASSUME NEW q, NEW r, Good(r, q), NEW v \in Provider, Registered(r, v)
    PROVE  Good(Qualify(r, v), q \cup {<<v, r.providers[v].trust>>})
<1> DEFINE record == [r.providers[v] EXCEPT !.state = "CAPABILITY_VERIFIED",
                                            !.qualified = TRUE]
           s == q \cup {<<v, r.providers[v].trust>>}
<1>0. r \in Registry /\ Good(r, s)
    BY GoodGrows DEF Good
<1>1. /\ record \in ProviderRecord
      /\ record.state = "CAPABILITY_VERIFIED"
      /\ record.qualified
      /\ record.trust = r.providers[v].trust
    BY <1>0, RegisteredIsStored DEF ProviderRecord, Stored
<1>2. Qualify(r, v) = [r EXCEPT !.providers[v] = record]
    BY <1>0 DEF Qualify, Registry
<1>3. /\ record.state \notin {"RESTART_REQUIRED", "READY"}
      /\ record.qualified /\ <<v, record.trust>> \in s
    BY <1>1
<1> HIDE DEF record, s
<1>4. Good(Qualify(r, v), s)
    BY <1>0, <1>1, <1>2, <1>3, OneProviderChanges
<1> QED BY <1>4 DEF s

\* Removing a provider without roles keeps a registry good.
LEMMA WithoutGood ==
    ASSUME NEW q, NEW r, Good(r, q), NEW v \in Provider, RolesOf(r, v) = {}
    PROVE  Good(Without(r, v), q)
<1> DEFINE s == Without(r, v)
<1>1. /\ r \in Registry
      /\ s.providers = [r.providers EXCEPT ![v] = Unregistered]
      /\ s.roles = r.roles
      /\ s \in Registry
    BY DEF Good, Registry, Without
<1>2. /\ s.providers[v] = Unregistered
      /\ \A w \in Provider : w # v => s.providers[w] = r.providers[w]
    BY <1>1 DEF Registry
<1> HIDE DEF s
<1>3. \A o \in Role : r.roles[o].provider # v
    BY DEF RolesOf
<1>4. Unregistered.trust = "none" /\ Unregistered.state \notin Proven
      /\ Unregistered.state \notin {"RESTART_REQUIRED", "READY"}
    BY DEF Unregistered, Proven
<1>5. Valid(s)
    <2>1. ASSUME NEW o \in Role, s.roles[o] # Unconnected
          PROVE  Registered(s, s.roles[o].provider)
        BY <1>1, <1>2, <1>3, <2>1, ConnectedHasRecord
           DEF Good, Valid, Registered, RoleRecord
    <2>2. ASSUME NEW w \in Provider, s.providers[w].trust # "none"
          PROVE  Registered(s, w)
        BY <1>2, <1>4, <2>2 DEF Registered
    <2> QED BY <2>1, <2>2 DEF Valid
<1>6. \A w \in Provider : RolesOf(s, w) = RolesOf(r, w)
    BY <1>1 DEF RolesOf
<1>7. ASSUME NEW w \in Provider
      PROVE  /\ s.providers[w].state \in {"RESTART_REQUIRED", "READY"}
                => RolesOf(s, w) # {}
             /\ s.providers[w].state \in Proven =>
                   s.providers[w].qualified /\ <<w, s.providers[w].trust>> \in q
    BY <1>2, <1>4, <1>6 DEF Good
<1>8. Good(s, q)
    BY <1>1, <1>5, <1>7 DEF Good
<1> QED BY <1>8 DEF s

\* A change of one role and of the record of a provider: what it takes for the
\* result to be good.
LEMMA RoleAndProviderChange ==
    ASSUME NEW q, NEW r, Good(r, q), NEW o \in Role, NEW v \in Provider,
           NEW role \in RoleRecord \cup {Unconnected},
           NEW record \in ProviderRecord,
           role # Unconnected => role.provider = v,
           r.roles[o] # Unconnected => r.roles[o].provider = v,
           NEW s \in Registry,
           s.providers = [r.providers EXCEPT ![v] = record],
           s.roles = [r.roles EXCEPT ![o] = role],
           record.state \in {"RESTART_REQUIRED", "READY"} => RolesOf(s, v) # {},
           record.state \in Proven => record.qualified /\ <<v, record.trust>> \in q
    PROVE  Good(s, q)
<1>1. r \in Registry
    BY DEF Good
<1>2. /\ s.providers[v] = record
      /\ \A w \in Provider : w # v => s.providers[w] = r.providers[w]
      /\ s.roles[o] = role
      /\ \A p \in Role : p # o => s.roles[p] = r.roles[p]
    BY <1>1 DEF Registry
<1>3. Registered(s, v)
    BY <1>2, RegisteredIsStored DEF ProviderRecord
<1>4. \A w \in Provider : Registered(r, w) => Registered(s, w)
    BY <1>2, <1>3 DEF Registered
<1>5. Valid(s)
    <2>1. ASSUME NEW p \in Role, s.roles[p] # Unconnected
          PROVE  Registered(s, s.roles[p].provider)
        <3>1. CASE p = o
            BY <2>1, <3>1, <1>2, <1>3
        <3>2. CASE p # o
            <4>1. s.roles[p] = r.roles[p] /\ r.roles[p] \in RoleRecord
                BY <1>1, <1>2, <2>1, <3>2, ConnectedHasRecord
            <4>2. r.roles[p].provider \in Provider
                BY <4>1 DEF RoleRecord
            <4> QED BY <4>1, <4>2, <2>1, <1>4 DEF Good, Valid
        <3> QED BY <3>1, <3>2
    <2>2. ASSUME NEW w \in Provider, s.providers[w].trust # "none"
          PROVE  Registered(s, w)
        BY <2>2, <1>2, <1>3, <1>4 DEF Good, Valid
    <2> QED BY <2>1, <2>2 DEF Valid
<1>6. \A w \in Provider : w # v => RolesOf(s, w) = RolesOf(r, w)
    <2>1. Unconnected.provider \notin Provider
        BY NamesAreDistinct DEF Unconnected
    <2>2. \A w \in Provider : w # v => s.roles[o].provider # w /\ r.roles[o].provider # w
        BY <2>1, <1>2
    <2> QED BY <2>2, <1>2 DEF RolesOf
<1>7. ASSUME NEW w \in Provider
      PROVE  /\ s.providers[w].state \in {"RESTART_REQUIRED", "READY"}
                => RolesOf(s, w) # {}
             /\ s.providers[w].state \in Proven =>
                   s.providers[w].qualified /\ <<w, s.providers[w].trust>> \in q
    <2>1. CASE w = v
        BY <2>1, <1>2
    <2>2. CASE w # v
        BY <2>2, <1>2, <1>6 DEF Good
    <2> QED BY <2>1, <2>2
<1> QED BY <1>5, <1>7 DEF Good

\* Connecting a role and making it ready keep a registry good.
LEMMA StagedGood ==
    ASSUME NEW q, NEW r, Good(r, q), NEW o \in Role, NEW v \in Provider,
           r.roles[o] = Unconnected, r.providers[v].state \in Proven
    PROVE  Good(Staged(r, o, v), q)
<1> DEFINE s == Staged(r, o, v)
           role == [state |-> "RESTART_REQUIRED", provider |-> v]
           record == [r.providers[v] EXCEPT !.state = "RESTART_REQUIRED"]
<1>1. r \in Registry /\ Registered(r, v)
    BY RegisteredIsStored DEF Good, Proven, Stored
<1>2. /\ record \in ProviderRecord
      /\ record.state = "RESTART_REQUIRED"
      /\ record.qualified = r.providers[v].qualified
      /\ record.trust = r.providers[v].trust
    BY <1>1, RegisteredIsStored DEF ProviderRecord, Stored
<1>3. role \in RoleRecord /\ role.provider = v
    BY DEF RoleRecord
<1>4. s = [r EXCEPT !.providers = [r.providers EXCEPT ![v] = record],
                    !.roles = [r.roles EXCEPT ![o] = role]]
    BY Zenon DEF Staged
<1> HIDE DEF s, role, record
<1>5. /\ s \in Registry
      /\ s.providers = [r.providers EXCEPT ![v] = record]
      /\ s.roles = [r.roles EXCEPT ![o] = role]
    <2> DEFINE f == [r.providers EXCEPT ![v] = record]
               g == [r.roles EXCEPT ![o] = role]
    <2>1. /\ f \in [Provider -> ProviderRecord \cup {Unregistered}]
          /\ g \in [Role -> RoleRecord \cup {Unconnected}]
        BY <1>1, <1>2, <1>3 DEF Registry
    <2>2. s = [r EXCEPT !.providers = f, !.roles = g]
        BY <1>4
    <2> HIDE DEF f, g
    <2>3. s \in Registry /\ s.providers = f /\ s.roles = g
        BY <2>1, <2>2, <1>1 DEF Registry
    <2> QED BY <2>3 DEF f, g
<1>6. o \in RolesOf(s, v)
    BY <1>1, <1>3, <1>5 DEF RolesOf, Registry
<1>7. record.qualified /\ <<v, record.trust>> \in q
    BY <1>2 DEF Good
<1>8. Good(s, q)
    BY <1>2, <1>3, <1>5, <1>6, <1>7, RoleAndProviderChange
<1> QED BY <1>8 DEF s

\* A provider made ready has the role that made it so.
LEMMA MadeReadyGood ==
    ASSUME NEW q, NEW r, Good(r, q), NEW o \in Role, r.roles[o] # Unconnected,
           r.providers[r.roles[o].provider].state \in {"RESTART_REQUIRED", "READY"}
    PROVE  Good(MadeReady(r, o), q)
<1> DEFINE s == MadeReady(r, o)
           v == r.roles[o].provider
           role == [r.roles[o] EXCEPT !.state = "READY"]
           record == [r.providers[v] EXCEPT !.state = "READY"]
<1>0. r \in Registry /\ r.roles[o] \in RoleRecord
    BY ConnectedHasRecord DEF Good
<1>1. v \in Provider /\ Registered(r, v)
    BY <1>0 DEF RoleRecord, Good, Valid
<1>2. /\ record \in ProviderRecord
      /\ record.state = "READY"
      /\ record.qualified = r.providers[v].qualified
      /\ record.trust = r.providers[v].trust
    BY <1>0, <1>1, RegisteredIsStored DEF ProviderRecord, Stored
<1>3. role \in RoleRecord /\ role.provider = v
    BY <1>0 DEF RoleRecord
<1>4. s = [r EXCEPT !.providers = [r.providers EXCEPT ![v] = record],
                    !.roles = [r.roles EXCEPT ![o] = role]]
    BY Zenon DEF MadeReady
<1>7. r.providers[v].qualified /\ <<v, r.providers[v].trust>> \in q
    BY <1>1 DEF Good, Proven
<1> HIDE DEF s, role, record
<1>5. /\ s \in Registry
      /\ s.providers = [r.providers EXCEPT ![v] = record]
      /\ s.roles = [r.roles EXCEPT ![o] = role]
    <2> DEFINE f == [r.providers EXCEPT ![v] = record]
               g == [r.roles EXCEPT ![o] = role]
    <2>1. /\ f \in [Provider -> ProviderRecord \cup {Unregistered}]
          /\ g \in [Role -> RoleRecord \cup {Unconnected}]
        BY <1>0, <1>1, <1>2, <1>3 DEF Registry
    <2>2. s = [r EXCEPT !.providers = f, !.roles = g]
        BY <1>4
    <2> HIDE DEF f, g
    <2>3. s \in Registry /\ s.providers = f /\ s.roles = g
        BY <2>1, <2>2, <1>0 DEF Registry
    <2> QED BY <2>3 DEF f, g
<1>6. o \in RolesOf(s, v)
    BY <1>0, <1>3, <1>5 DEF RolesOf, Registry
<1> HIDE DEF v
<1>9. r.roles[o].provider = v
    BY DEF v
<1>8. Good(s, q)
    BY <1>1, <1>2, <1>3, <1>5, <1>6, <1>7, <1>9, RoleAndProviderChange
<1> QED BY <1>8 DEF s

\* Disconnecting a role keeps a registry good, whichever roles remain.
LEMMA DisconnectedGood ==
    ASSUME NEW q, NEW r, Good(r, q), NEW o \in Role, r.roles[o] # Unconnected
    PROVE  Good(Disconnected(r, o), q)
<1> DEFINE s == Disconnected(r, o)
           v == r.roles[o].provider
           left == RolesOf(r, v) \ {o}
           old == r.providers[v].state
           state == IF left = {} /\ old \in {"RESTART_REQUIRED", "READY"}
                    THEN "CAPABILITY_VERIFIED"
                    ELSE IF /\ left # {} /\ old = "RESTART_REQUIRED"
                            /\ \A p \in left : r.roles[p].state = "READY"
                         THEN "READY" ELSE old
           record == [r.providers[v] EXCEPT !.state = state]
           f == [r.providers EXCEPT ![v] = record]
           g == [r.roles EXCEPT ![o] = Unconnected]
<1>0. r \in Registry /\ r.roles[o] \in RoleRecord
    BY ConnectedHasRecord DEF Good
<1>1. v \in Provider /\ Registered(r, v) /\ old \in Stored
    BY <1>0, RegisteredIsStored DEF RoleRecord, Good, Valid
<1>2. s = [r EXCEPT !.roles = g, !.providers = f]
    BY Zenon DEF Disconnected
<1>3. /\ state \in Stored
      /\ state \in Proven => old \in Proven
      /\ state \in {"RESTART_REQUIRED", "READY"} => left # {}
    <2>1. CASE left = {}
        BY <2>1, <1>1, <1>0 DEF Good, Stored, Proven
    <2>2. CASE left # {}
        BY <2>2, <1>1 DEF Stored, Proven
    <2> QED BY <2>1, <2>2
<1>4. old \in Proven =>
        r.providers[v].qualified /\ <<v, r.providers[v].trust>> \in q
    BY <1>1 DEF Good
<1> HIDE DEF state
<1>5. /\ record \in ProviderRecord
      /\ record.state = state
      /\ record.qualified = r.providers[v].qualified
      /\ record.trust = r.providers[v].trust
    BY <1>0, <1>1, <1>3, RegisteredIsStored DEF ProviderRecord
<1> HIDE DEF s, record
<1>6. /\ f \in [Provider -> ProviderRecord \cup {Unregistered}]
      /\ g \in [Role -> RoleRecord \cup {Unconnected}]
    BY <1>0, <1>1, <1>5 DEF Registry
<1> HIDE DEF f, g
<1>7. s \in Registry /\ s.providers = f /\ s.roles = g
    BY <1>0, <1>2, <1>6 DEF Registry
<1>8. RolesOf(s, v) = left
    <2>1. Unconnected.provider # v
        BY <1>1, NamesAreDistinct DEF Unconnected
    <2>2. s.roles = [r.roles EXCEPT ![o] = Unconnected]
        BY <1>7 DEF g
    <2> QED BY <1>0, <2>1, <2>2 DEF RolesOf, Registry
<1> HIDE DEF left, old, v
<1>9. r.roles[o].provider = v
    BY DEF v
<1>10. s.providers = [r.providers EXCEPT ![v] = record]
       /\ s.roles = [r.roles EXCEPT ![o] = Unconnected]
    BY <1>7 DEF f, g
<1>11. Good(s, q)
    BY <1>1, <1>3, <1>4, <1>5, <1>7, <1>8, <1>9, <1>10, RoleAndProviderChange
<1> QED BY <1>11 DEF s

-----------------------------------------------------------------------------
(* The inductive invariant. *)

\* What a command that is about to write a table knows.
Planned(c) ==
    LET v == c.order.provider IN
    \/ /\ c.order.command = "prepare"
       /\ c.seen[v] = "absent" /\ Wanted(c) \in Auth
    \/ /\ c.order.command = "remove"
       /\ c.seen[v] \in Auth /\ Wanted(c) = "absent"
       /\ c.base.providers[v].auth \in Auth

\* What invoke has read of the role it was told.
Attested(c) ==
    LET role == c.base.roles[c.order.role]
        record == c.base.providers[role.provider]
    IN  /\ c.order.role \in Role
        /\ role.state = "READY"
        /\ record.state = "READY" /\ record.qualified

GoodRun(c, q) ==
    /\ c \in Command
    /\ Good(c.base, q)
    /\ Good(c.after, q)
    /\ c.at \in {"journal", "write", "check", "applied"} => Planned(c)
    /\ c.at = "roll back" => c.owner \in Provider /\ c.seen[c.owner] \in Auth
    /\ c.at \in {"probe", "probing"} => /\ c.order.command = "gate0"
                                        /\ Registered(c.after, c.order.provider)
    /\ c.at \in {"attest", "launch"} => Attested(c)

TxnIsGood(t, q) == t # NoTxn => Good(t.before, q) /\ Good(t.after, q)

\* What passed Gate 0; everything, once a helper was replaced in one.
Passed ==
    IF "swapped" \in mishaps THEN Provider \X (Helper \cup {"none"}) ELSE probed

RegistriesAreGood ==
    /\ Good(registry, Passed)
    /\ TxnIsGood(txn, Passed)
    /\ \A p \in Proc : run[p] # Idle => GoodRun(run[p], Passed)

IInv == TypeOK /\ RegistriesAreGood

\* While the model of a Gate 0 runs, the helper is the one that was verified.
SInv ==
    "swapped" \notin mishaps =>
        \A p \in Proc : At(p, "probing") =>
            HelperTrusted(run[p].after.providers[run[p].order.provider])

\* The part of the type invariant that most commands leave alone.
RestIsTyped ==
    /\ config \in Config
    /\ journal \in Journal \cup {NoJournal}
    /\ agents \in [Role -> Provider \cup {"absent", "other"}]
    /\ txn \in Txn \cup {NoTxn}
    /\ helper \in Helper
    /\ probed \subseteq Provider \X (Helper \cup {"none"})
    /\ mishaps \subseteq {"overlap", "disturbed", "table edit", "agent edit", "swapped"}
    /\ edits \in Nat
    /\ swaps \in Nat
    /\ beside \in Nat

\* What an order names, by its command.
LEMMA OrderNames ==
    ASSUME NEW order \in Order
    PROVE  /\ order.command \in {"prepare", "remove", "gate0", "retrust", "connect"}
              => order.provider \in Provider
           /\ order.command \in {"connect", "ready", "disconnect", "invoke"}
              => order.role \in Role
           /\ order.command = "prepare" => order.auth \in Auth
    BY DEF Order

\* A run that is good stays so when more providers pass Gate 0.
LEMMA GoodRunGrows ==
    ASSUME NEW q, NEW s, q \subseteq s, NEW c, GoodRun(c, q)
    PROVE  GoodRun(c, s)
    BY GoodGrows DEF GoodRun

\* A transaction is not the absent one.
LEMMA TxnIsSome == NoTxn \notin Txn
<1>1. \A t \in Txn : "before" \in DOMAIN t
    BY DEF Txn
<1>2. "before" \notin DOMAIN NoTxn
    BY DEF NoTxn
<1> QED BY <1>1, <1>2

\* What passed Gate 0 stays what it is if no helper is replaced in one.
LEMMA PassedStays ==
    ASSUME probed' = probed, mishaps \subseteq mishaps',
           mishaps' \subseteq mishaps \cup {"overlap", "disturbed"}
    PROVE  Passed' = Passed
    BY DEF Passed

\* A file that belongs to a role is that of a provider, or absent.
LEMMA FileOfIsTyped ==
    ASSUME NEW r \in Registry, NEW o \in Role
    PROVE  FileOf(r, o) \in Provider \cup {"absent"}
<1>1. CASE r.roles[o] = Unconnected
    BY <1>1 DEF FileOf
<1>2. CASE r.roles[o] # Unconnected
    <2>1. r.roles[o] \in RoleRecord
        BY <1>2, ConnectedHasRecord
    <2> QED BY <1>2, <2>1 DEF FileOf, RoleRecord
<1> QED BY <1>1, <1>2

\* One process moves: the registries in sight are good if the ones in the files
\* and those of the command that moved are.
LEMMA RunMoves ==
    ASSUME IInv, NEW p \in Proc, NEW d, d = Idle \/ GoodRun(d, Passed'),
           Become(p, d), Passed \subseteq Passed', Good(registry', Passed'),
           TxnIsGood(txn', Passed')
    PROVE  /\ registry' \in Registry
           /\ run' \in [Proc -> Command \cup {Idle}]
           /\ RegistriesAreGood'
<1>1. d \in Command \cup {Idle}
    BY DEF GoodRun
<1>2. run \in [Proc -> Command \cup {Idle}] /\ run' = [run EXCEPT ![p] = d]
    BY DEF IInv, TypeOK, Become
<1>3. run' \in [Proc -> Command \cup {Idle}]
    BY <1>1, <1>2
<1>4. ASSUME NEW x \in Proc, run'[x] # Idle PROVE GoodRun(run'[x], Passed')
    <2>1. CASE x = p
        BY <1>2, <1>4, <2>1
    <2>2. CASE x # p
        <3>1. run'[x] = run[x]
            BY <1>2, <2>2
        <3>2. GoodRun(run[x], Passed)
            BY <3>1, <1>4 DEF IInv, RegistriesAreGood
        <3> QED BY <3>1, <3>2, GoodRunGrows
    <2> QED BY <2>1, <2>2
<1> QED BY <1>3, <1>4 DEF RegistriesAreGood, Good

\* A busy process has a good run.
LEMMA BusyIsGood ==
    ASSUME IInv, NEW p \in Proc, run[p] # Idle
    PROVE  /\ GoodRun(run[p], Passed)
           /\ run[p] \in Command
           /\ run[p].order \in Order
    BY DEF IInv, RegistriesAreGood, GoodRun, Command

\* A command that goes on without having read anything, or forgets it.
LEMMA FreshIsGood ==
    ASSUME NEW q, NEW order \in Order, NEW place \in {"engine", "recover", "read"}
    PROVE  GoodRun(Fresh(order, place), q)
<1>1. NoConfig \in Config
    BY DEF NoConfig, Config
<1>2. NoRegistry \in Registry /\ Good(NoRegistry, q)
    BY NoRegistryGood DEF Good
<1>3. Fresh(order, place) \in Command
    BY <1>1, <1>2 DEF Fresh, Command, Place
<1> QED BY <1>2, <1>3 DEF GoodRun, Fresh

\* What is left to show of a step of a command.
LEMMA Keeps ==
    ASSUME IInv, NEW p \in Proc, NEW d, d = Idle \/ GoodRun(d, Passed'),
           Become(p, d), Passed \subseteq Passed', Good(registry', Passed'),
           TxnIsGood(txn', Passed'), RestIsTyped'
    PROVE  IInv'
<1>1. /\ registry' \in Registry
      /\ run' \in [Proc -> Command \cup {Idle}]
      /\ RegistriesAreGood'
    BY RunMoves
<1> QED BY <1>1 DEF IInv, TypeOK, RestIsTyped

\* The same of a step that changes no registry that is in a file.
LEMMA FilesStay ==
    ASSUME IInv, NEW p \in Proc, NEW d, d = Idle \/ GoodRun(d, Passed),
           Become(p, d), UNCHANGED <<registry, txn, probed>>,
           mishaps \subseteq mishaps',
           mishaps' \subseteq mishaps \cup {"overlap", "disturbed"}, RestIsTyped'
    PROVE  IInv'
<1>1. Passed' = Passed
    BY PassedStays
<1>2. Good(registry', Passed') /\ TxnIsGood(txn', Passed')
    BY <1>1 DEF IInv, RegistriesAreGood
<1> QED BY <1>1, <1>2, Keeps

\* The same of a step that changes nothing but the command.
LEMMA OnlyRunMoves ==
    ASSUME IInv, NEW p \in Proc, NEW d, d = Idle \/ GoodRun(d, Passed),
           Become(p, d),
           UNCHANGED <<registry, config, journal, agents, txn, probed, mishaps>>,
           UNCHANGED User
    PROVE  IInv'
<1>1. RestIsTyped'
    BY DEF IInv, TypeOK, RestIsTyped, User
<1> QED BY <1>1, FilesStay

\* The same of a step of the transactions, or one that writes the registry.
LEMMA EngineKeeps ==
    ASSUME IInv, NEW p \in Proc, NEW d, d = Idle \/ GoodRun(d, Passed),
           Become(p, d), Good(registry', Passed),
           txn' \in Txn \cup {NoTxn}, TxnIsGood(txn', Passed),
           agents' \in [Role -> Provider \cup {"absent", "other"}],
           mishaps \subseteq mishaps', mishaps' \subseteq mishaps \cup {"disturbed"},
           UNCHANGED <<config, journal, probed>>, UNCHANGED User
    PROVE  IInv'
<1>1. Passed' = Passed
    BY PassedStays
<1>2. RestIsTyped'
    BY DEF IInv, TypeOK, RestIsTyped, User
<1> QED BY <1>1, <1>2, Keeps

-----------------------------------------------------------------------------
(* Starting, ending, recovering. *)

\* A command starts with nothing read.
LEMMA StartKeeps ==
    ASSUME IInv, NEW p \in Proc, Start(p) PROVE IInv'
<1>1. PICK order \in Order :
         /\ Become(p, Fresh(order, IF order.command \in Transacted THEN "engine"
                                   ELSE IF order.command = "recover"
                                   THEN "recover" ELSE "read"))
         /\ mishaps' = mishaps \cup
               IF order.command \in Journaled
                  /\ \E q \in Proc : Busy(q) /\ run[q].order.command \in Journaled
               THEN {"overlap"} ELSE {}
    BY DEF Start
<1> DEFINE place == IF order.command \in Transacted THEN "engine"
                    ELSE IF order.command = "recover" THEN "recover" ELSE "read"
<1>2. place \in {"engine", "recover", "read"}
    OBVIOUS
<1> HIDE DEF place
<1>3. GoodRun(Fresh(order, place), Passed)
    BY <1>2, FreshIsGood
<1>4. Become(p, Fresh(order, place))
    BY <1>1 DEF place
<1>5. /\ mishaps \subseteq mishaps'
      /\ mishaps' \subseteq mishaps \cup {"overlap", "disturbed"}
    BY <1>1
<1>6. beside' \in Nat
    <2>1. beside' = beside \/ beside' = beside + 1
        BY DEF Start
    <2>2. beside \in Nat
        BY DEF IInv, TypeOK
    <2> QED BY <2>1, <2>2
<1>7. UNCHANGED <<registry, config, journal, agents, txn, helper, probed, edits, swaps>>
    BY DEF Start
<1>8. RestIsTyped'
    BY <1>5, <1>6, <1>7 DEF IInv, TypeOK, RestIsTyped
<1> QED BY <1>3, <1>4, <1>5, <1>7, <1>8, FilesStay

\* A command that ends leaves nothing behind to be wrong.
LEMMA EndKeeps ==
    ASSUME IInv, NEW p \in Proc, End(p) PROVE IInv'
    BY OnlyRunMoves DEF End, Leave

\* Going on to a place that asks nothing.
LEMMA GoIsGood ==
    ASSUME IInv, NEW p \in Proc, run[p] # Idle,
           NEW place \in {"clear", "rolled back", "commit", "done", "compare",
                          "replace", "model", "recover", "read"} \cup Inside
    PROVE  GoodRun([run[p] EXCEPT !.at = place], Passed)
<1>1. GoodRun(run[p], Passed) /\ run[p] \in Command
    BY BusyIsGood
<1> DEFINE d == [run[p] EXCEPT !.at = place]
<1>2. /\ d \in Command /\ d.at = place
      /\ d.base = run[p].base /\ d.after = run[p].after
    BY <1>1 DEF Command, Place, Inside, Stages
<1> HIDE DEF d
<1>3. GoodRun(d, Passed)
    BY <1>1, <1>2 DEF GoodRun, Inside, Stages
<1> QED BY <1>3 DEF d

\* Going on with the write of a table, knowing what it takes.
LEMMA PlannedGoes ==
    ASSUME IInv, NEW p \in Proc, run[p] # Idle, Planned(run[p]),
           NEW place \in {"write", "check", "applied"}
    PROVE  GoodRun([run[p] EXCEPT !.at = place], Passed)
<1>1. GoodRun(run[p], Passed) /\ run[p] \in Command
    BY BusyIsGood
<1> DEFINE d == [run[p] EXCEPT !.at = place]
<1>2. /\ d \in Command /\ d.at = place /\ d.order = run[p].order
      /\ d.owner = run[p].owner /\ d.seen = run[p].seen
      /\ d.base = run[p].base /\ d.after = run[p].after
    BY <1>1 DEF Command, Place
<1> HIDE DEF d
<1>3. Planned(d)
    BY <1>2 DEF Planned, Wanted
<1>4. GoodRun(d, Passed)
    BY <1>1, <1>2, <1>3 DEF GoodRun
<1> QED BY <1>4 DEF d

\* Recovery decides on registries that are good.
LEMMA RecoverKeeps ==
    ASSUME IInv, NEW p \in Proc, Recover(p) PROVE IInv'
<1> DEFINE c == run[p]
<1>0. /\ run[p] # Idle
      /\ UNCHANGED <<registry, config, journal, agents, txn, probed>>
      /\ UNCHANGED User
      /\ mishaps \subseteq mishaps'
      /\ mishaps' \subseteq mishaps \cup {"overlap", "disturbed"}
    BY DEF Recover, At
<1>1. GoodRun(c, Passed) /\ c \in Command /\ c.order \in Order
    BY <1>0, BusyIsGood
<1>2. Good(registry, Passed) /\ registry \in Registry /\ config \in Config
    BY DEF IInv, RegistriesAreGood, TypeOK
<1>3. RestIsTyped'
    BY <1>0 DEF IInv, TypeOK, RestIsTyped, User
<1>4. ASSUME NEW d, d = Idle \/ GoodRun(d, Passed), Become(p, d) PROVE IInv'
    BY <1>0, <1>3, <1>4, FilesStay
<1>5. CASE Leave(p)
    BY <1>4, <1>5 DEF Leave
<1>6. ASSUME NEW place \in {"read", "clear"}, Go(p, place) PROVE IInv'
    <2>1. GoodRun([run[p] EXCEPT !.at = place], Passed)
        BY <1>0, GoIsGood
    <2> QED BY <1>4, <1>6, <2>1 DEF Go
<1>7. CASE /\ journal # NoJournal
           /\ HalfPrepared(journal, config, registry)
           /\ Become(p, [run[p] EXCEPT !.at = "roll back", !.seen = config,
                                       !.owner = journal.provider])
    <2> DEFINE d == [c EXCEPT !.at = "roll back", !.seen = config,
                              !.owner = journal.provider]
    <2>1. journal \in Journal
        BY <1>7 DEF IInv, TypeOK
    <2>2. journal.provider \in Provider /\ config[journal.provider] \in Auth
        BY <1>7, <2>1 DEF Journal, HalfPrepared, Applied
    <2>3. /\ d \in Command /\ d.at = "roll back" /\ d.seen = config
          /\ d.owner = journal.provider /\ d.base = c.base /\ d.after = c.after
        BY <1>1, <1>2, <2>2 DEF Command, Place
    <2>4. Become(p, d)
        BY <1>7
    <2> HIDE DEF d
    <2>5. GoodRun(d, Passed)
        BY <1>1, <2>2, <2>3 DEF GoodRun
    <2> QED BY <1>4, <2>4, <2>5
<1>8. CASE /\ journal # NoJournal
           /\ HalfRemoved(journal, config, registry)
           /\ Become(p, [run[p] EXCEPT !.at = "commit", !.base = registry,
                                       !.after = journal.after,
                                       !.owner = journal.provider])
    <2> DEFINE d == [c EXCEPT !.at = "commit", !.base = registry,
                              !.after = journal.after, !.owner = journal.provider]
    <2>1. journal \in Journal
        BY <1>8 DEF IInv, TypeOK
    <2>2. /\ journal.provider \in Provider /\ journal.after \in Registry
          /\ RolesOf(registry, journal.provider) = {}
          /\ Without(registry, journal.provider) = journal.after
        BY <1>8, <2>1 DEF Journal, HalfRemoved
    <2>3. Good(journal.after, Passed)
        <3>1. Good(Without(registry, journal.provider), Passed)
            BY <1>2, <2>2, WithoutGood
        <3> QED BY <2>2, <3>1
    <2>4. /\ d \in Command /\ d.at = "commit" /\ d.base = registry
          /\ d.owner = journal.provider /\ d.after = journal.after
        BY <1>1, <1>2, <2>2 DEF Command, Place
    <2>5. Become(p, d)
        BY <1>8
    <2> HIDE DEF d
    <2>6. GoodRun(d, Passed)
        BY <1>2, <2>3, <2>4 DEF GoodRun
    <2> QED BY <1>4, <2>5, <2>6
<1> QED BY <1>5, <1>6, <1>7, <1>8 DEF Recover

\* Removing a table changes no registry.
LEMMA RollBackKeeps ==
    ASSUME IInv, NEW p \in Proc, RollBack(p) PROVE IInv'
<1>0. /\ run[p] # Idle /\ run[p].at = "roll back"
      /\ config' = [config EXCEPT ![run[p].owner] = "absent"]
      /\ UNCHANGED <<registry, journal, agents, txn, probed, mishaps>>
      /\ UNCHANGED User
    BY DEF RollBack, At
<1>1. config' \in Config
    BY <1>0 DEF IInv, TypeOK, Config
<1>2. RestIsTyped'
    BY <1>0, <1>1 DEF IInv, TypeOK, RestIsTyped, User
<1>3. GoodRun([run[p] EXCEPT !.at = "rolled back"], Passed)
    BY <1>0, GoIsGood
<1>4. CASE Go(p, "rolled back")
    BY <1>0, <1>2, <1>3, <1>4, FilesStay DEF Go
<1>5. CASE Leave(p)
    BY <1>0, <1>2, <1>5, FilesStay DEF Leave
<1> QED BY <1>4, <1>5 DEF RollBack

\* Reading the table back changes no registry.
LEMMA RolledBackKeeps ==
    ASSUME IInv, NEW p \in Proc, RolledBack(p) PROVE IInv'
<1>1. GoodRun([run[p] EXCEPT !.at = "clear"], Passed)
    BY GoIsGood DEF RolledBack, At
<1> QED BY <1>1, OnlyRunMoves DEF RolledBack, Go

\* Removing a journal changes no registry.
LEMMA ClearKeeps ==
    ASSUME IInv, NEW p \in Proc, Clear(p) PROVE IInv'
<1>0. /\ run[p] # Idle /\ journal' = NoJournal
      /\ UNCHANGED <<registry, config, agents, txn, probed, mishaps>>
      /\ UNCHANGED User
    BY DEF Clear, At
<1>1. RestIsTyped'
    BY <1>0 DEF IInv, TypeOK, RestIsTyped, User
<1>2. GoodRun(Fresh(run[p].order, "read"), Passed)
    BY <1>0, BusyIsGood, FreshIsGood
<1>3. CASE Become(p, Fresh(run[p].order, "read"))
    BY <1>0, <1>1, <1>2, <1>3, FilesStay
<1>4. CASE Leave(p)
    BY <1>0, <1>1, <1>4, FilesStay DEF Leave
<1> QED BY <1>3, <1>4 DEF Clear

-----------------------------------------------------------------------------
(* The transactions. *)

\* The registries of a transaction that is there are good.
LEMMA TxnHasGood ==
    ASSUME IInv, txn # NoTxn
    PROVE  /\ txn \in Txn
           /\ Good(txn.before, Passed) /\ txn.before \in Registry
           /\ Good(txn.after, Passed) /\ txn.after \in Registry
    BY DEF IInv, TypeOK, RegistriesAreGood, TxnIsGood, Good

\* A transaction that goes on keeps its registries.
LEMMA TxnGoes ==
    ASSUME NEW t \in Txn, NEW stage \in Stages
    PROVE  /\ [t EXCEPT !.stage = stage] \in Txn
           /\ [t EXCEPT !.stage = stage].stage = stage
           /\ [t EXCEPT !.stage = stage].before = t.before
           /\ [t EXCEPT !.stage = stage].after = t.after
           /\ [t EXCEPT !.stage = stage].stale = t.stale
           /\ [t EXCEPT !.stage = stage, !.stale = FALSE] \in Txn
           /\ [t EXCEPT !.stage = stage, !.stale = FALSE].stage = stage
           /\ [t EXCEPT !.stage = stage, !.stale = FALSE].before = t.before
           /\ [t EXCEPT !.stage = stage, !.stale = FALSE].after = t.after
           /\ [t EXCEPT !.stage = stage, !.stale = FALSE].stale = FALSE
           /\ [t EXCEPT !.stale = TRUE] \in Txn
           /\ [t EXCEPT !.stale = TRUE].stage = t.stage
           /\ [t EXCEPT !.stale = TRUE].before = t.before
           /\ [t EXCEPT !.stale = TRUE].after = t.after
           /\ [t EXCEPT !.stale = TRUE].stale = TRUE
    BY DEF Txn

\* What is published or restored are files of a registry.
LEMMA FilesAreTyped ==
    ASSUME IInv, NEW r \in Registry, NEW touched,
           agents' = [o \in Role |-> IF o \in touched THEN FileOf(r, o) ELSE agents[o]]
    PROVE  agents' \in [Role -> Provider \cup {"absent", "other"}]
<1>1. agents \in [Role -> Provider \cup {"absent", "other"}]
    BY DEF IInv, TypeOK
<1>2. \A o \in Role : FileOf(r, o) \in Provider \cup {"absent"}
    BY FileOfIsTyped
<1> QED BY <1>1, <1>2

\* A transaction is staged with the two registries the command holds.
LEMMA StageKeeps ==
    ASSUME IInv, NEW p \in Proc, Stage(p) PROVE IInv'
<1> DEFINE t == [stage |-> "staged", before |-> run[p].base,
                 after |-> run[p].after, stale |-> FALSE]
<1>0. /\ run[p] # Idle /\ txn' = t /\ Go(p, "staged")
      /\ UNCHANGED <<registry, config, journal, agents, probed, mishaps>>
      /\ UNCHANGED User
    BY DEF Stage, At
<1>1. GoodRun(run[p], Passed)
    BY <1>0, BusyIsGood
<1>2. Good(t.before, Passed) /\ Good(t.after, Passed)
    BY <1>1 DEF GoodRun
<1>3. t \in Txn
    BY <1>2 DEF Txn, Stages, Good
<1> HIDE DEF t
<1>4. GoodRun([run[p] EXCEPT !.at = "staged"], Passed)
    BY <1>0, GoIsGood DEF Inside, Stages
<1>5. Good(registry', Passed) /\ agents' \in [Role -> Provider \cup {"absent", "other"}]
    BY <1>0 DEF IInv, RegistriesAreGood, TypeOK
<1>6. TxnIsGood(txn', Passed)
    BY <1>0, <1>2 DEF TxnIsGood
<1> QED BY <1>0, <1>3, <1>4, <1>5, <1>6, EngineKeeps DEF Go

\* The process that runs the transaction goes to its next stage.
LEMMA MovedIsGood ==
    ASSUME IInv, NEW p \in Proc, NEW from, NEW to \in Inside, Moved(p, from, to)
    PROVE  /\ GoodRun([run[p] EXCEPT !.at = to], Passed)
           /\ Become(p, [run[p] EXCEPT !.at = to])
           /\ UNCHANGED <<config, journal, probed>>
           /\ UNCHANGED User
           /\ txn # NoTxn
<1>1. run[p] # Idle
    BY DEF Moved, At
<1> QED BY <1>1, GoIsGood DEF Moved, Go

\* Publishing agent files changes no registry.
LEMMA PublishKeeps ==
    ASSUME IInv, NEW p \in Proc, Publish(p) PROVE IInv'
<1> DEFINE d == [run[p] EXCEPT !.at = "published"]
           touched == Touched(txn.before, txn.after)
           t == [txn EXCEPT !.stage = "published"]
<1>0. /\ Moved(p, "staged", "published")
      /\ agents' = [o \in Role |-> IF o \in touched THEN FileOf(txn.after, o)
                                   ELSE agents[o]]
      /\ txn' = t
      /\ UNCHANGED <<registry, mishaps>>
    BY DEF Publish
<1>1. /\ GoodRun(d, Passed) /\ Become(p, d)
      /\ UNCHANGED <<config, journal, probed>> /\ UNCHANGED User
      /\ txn # NoTxn
    BY <1>0, MovedIsGood DEF Inside, Stages
<1> HIDE DEF d, touched
<1>2. t \in Txn /\ t.before = txn.before /\ t.after = txn.after
    BY <1>1, TxnHasGood, TxnGoes DEF Stages
<1> HIDE DEF t
<1>3. txn' \in Txn \cup {NoTxn} /\ TxnIsGood(txn', Passed)
    BY <1>0, <1>1, <1>2, TxnHasGood DEF TxnIsGood
<1>4. agents' \in [Role -> Provider \cup {"absent", "other"}]
    BY <1>0, <1>1, TxnHasGood, FilesAreTyped
<1>5. Good(registry', Passed)
    BY <1>0 DEF IInv, RegistriesAreGood
<1> QED BY <1>0, <1>1, <1>3, <1>4, <1>5, EngineKeeps

\* The second link of the registry changes no registry.
LEMMA LinkKeeps ==
    ASSUME IInv, NEW p \in Proc, Link(p) PROVE IInv'
<1> DEFINE d == [run[p] EXCEPT !.at = "linked"]
           t == [txn EXCEPT !.stage = "linked"]
<1>0. /\ Moved(p, "published", "linked") /\ txn' = t
      /\ UNCHANGED <<registry, agents, mishaps>>
    BY DEF Link
<1>1. /\ GoodRun(d, Passed) /\ Become(p, d)
      /\ UNCHANGED <<config, journal, probed>> /\ UNCHANGED User
      /\ txn # NoTxn
    BY <1>0, MovedIsGood DEF Inside, Stages
<1> HIDE DEF d
<1>2. t \in Txn /\ t.before = txn.before /\ t.after = txn.after
    BY <1>1, TxnHasGood, TxnGoes DEF Stages
<1> HIDE DEF t
<1>3. txn' \in Txn \cup {NoTxn} /\ TxnIsGood(txn', Passed)
    BY <1>0, <1>1, <1>2, TxnHasGood DEF TxnIsGood
<1>4. Good(registry', Passed) /\ agents' \in [Role -> Provider \cup {"absent", "other"}]
    BY <1>0 DEF IInv, RegistriesAreGood, TypeOK
<1> QED BY <1>0, <1>1, <1>3, <1>4, EngineKeeps

\* The registry is replaced by the good one that was staged.
LEMMA SwapKeeps ==
    ASSUME IInv, NEW p \in Proc, Swap(p) PROVE IInv'
<1> DEFINE d == [run[p] EXCEPT !.at = "replaced"]
           t == [txn EXCEPT !.stage = "replaced", !.stale = FALSE]
<1>0. /\ Moved(p, "linked", "replaced") /\ registry' = txn.after /\ txn' = t
      /\ UNCHANGED agents
      /\ mishaps \subseteq mishaps' /\ mishaps' \subseteq mishaps \cup {"disturbed"}
    BY DEF Swap, Overwrites
<1>1. /\ GoodRun(d, Passed) /\ Become(p, d)
      /\ UNCHANGED <<config, journal, probed>> /\ UNCHANGED User
      /\ txn # NoTxn
    BY <1>0, MovedIsGood DEF Inside, Stages
<1> HIDE DEF d
<1>2. t \in Txn /\ t.before = txn.before /\ t.after = txn.after
    BY <1>1, TxnHasGood, TxnGoes DEF Stages
<1> HIDE DEF t
<1>3. txn' \in Txn \cup {NoTxn} /\ TxnIsGood(txn', Passed)
    BY <1>0, <1>1, <1>2, TxnHasGood DEF TxnIsGood
<1>4. Good(registry', Passed) /\ agents' \in [Role -> Provider \cup {"absent", "other"}]
    BY <1>0, <1>1, TxnHasGood DEF IInv, TypeOK
<1> QED BY <1>0, <1>1, <1>3, <1>4, EngineKeeps

\* The commit changes no registry.
LEMMA CommitKeeps ==
    ASSUME IInv, NEW p \in Proc, Commit(p) PROVE IInv'
<1>0. /\ run[p] # Idle /\ txn' = NoTxn
      /\ UNCHANGED <<registry, config, journal, agents, probed, mishaps>>
      /\ UNCHANGED User
    BY DEF Commit, At
<1>1. TxnIsGood(txn', Passed)
    BY <1>0 DEF TxnIsGood
<1>2. Good(registry', Passed) /\ agents' \in [Role -> Provider \cup {"absent", "other"}]
    BY <1>0 DEF IInv, RegistriesAreGood, TypeOK
<1>3. ASSUME NEW d, d = Idle \/ GoodRun(d, Passed), Become(p, d) PROVE IInv'
    BY <1>0, <1>1, <1>2, <1>3, EngineKeeps
<1>4. CASE Leave(p)
    BY <1>3, <1>4 DEF Leave
<1>5. ASSUME NEW place \in {"clear", "done"}, Go(p, place) PROVE IInv'
    BY <1>0, <1>3, <1>5, GoIsGood DEF Go
<1> QED BY <1>4, <1>5 DEF Commit

\* A failure changes no file by itself.
LEMMA RaiseKeeps ==
    ASSUME IInv, NEW p \in Proc, Raise(p) PROVE IInv'
<1>1. GoodRun([run[p] EXCEPT !.at = "revert"], Passed)
    BY GoIsGood DEF Raise, Busy, Inside
<1> QED BY <1>1, OnlyRunMoves DEF Raise, Go

\* The registry is taken back to the good one it was before.
LEMMA UndoRegistryKeeps ==
    ASSUME IInv, NEW p \in Proc, UndoRegistry(p) PROVE IInv'
<1> DEFINE t == [txn EXCEPT !.stage = "published"]
<1>0. /\ Reverts(p) /\ registry' = txn.before /\ txn' = t
      /\ UNCHANGED <<agents, run>>
      /\ mishaps \subseteq mishaps' /\ mishaps' \subseteq mishaps \cup {"disturbed"}
    BY DEF UndoRegistry, Overwrites, Meddles
<1>1. /\ run[p] # Idle /\ txn # NoTxn
      /\ UNCHANGED <<config, journal, probed>> /\ UNCHANGED User
    BY <1>0 DEF Reverts, At
<1>2. t \in Txn /\ t.before = txn.before /\ t.after = txn.after
    BY <1>1, TxnHasGood, TxnGoes DEF Stages
<1> HIDE DEF t
<1>3. txn' \in Txn \cup {NoTxn} /\ TxnIsGood(txn', Passed)
    BY <1>0, <1>1, <1>2, TxnHasGood DEF TxnIsGood
<1>4. Good(registry', Passed) /\ agents' \in [Role -> Provider \cup {"absent", "other"}]
    BY <1>0, <1>1, TxnHasGood DEF IInv, TypeOK
<1>5. Become(p, run[p])
    BY <1>0 DEF Become, IInv, TypeOK
<1>6. GoodRun(run[p], Passed)
    BY <1>1, BusyIsGood
<1> QED BY <1>0, <1>1, <1>3, <1>4, <1>5, <1>6, EngineKeeps

\* The files that are restored belong to the registry before.
LEMMA RestoredAreTyped ==
    ASSUME IInv, txn # NoTxn, RestoreFiles
    PROVE  agents' \in [Role -> Provider \cup {"absent", "other"}]
    BY TxnHasGood, FilesAreTyped DEF RestoreFiles

\* Restoring the files changes no registry.
LEMMA UndoFilesKeeps ==
    ASSUME IInv, NEW p \in Proc, UndoFiles(p) PROVE IInv'
<1>0. /\ Reverts(p) /\ RestoreFiles /\ txn' = NoTxn /\ UNCHANGED registry
      /\ mishaps \subseteq mishaps' /\ mishaps' \subseteq mishaps \cup {"disturbed"}
    BY DEF UndoFiles, Meddles
<1>1. /\ run[p] # Idle /\ txn # NoTxn
      /\ UNCHANGED <<config, journal, probed>> /\ UNCHANGED User
    BY <1>0 DEF Reverts, At
<1>2. agents' \in [Role -> Provider \cup {"absent", "other"}]
    BY <1>0, <1>1, RestoredAreTyped
<1>3. Good(registry', Passed) /\ TxnIsGood(txn', Passed)
    BY <1>0 DEF TxnIsGood, IInv, RegistriesAreGood
<1>4. ASSUME NEW d, d = Idle \/ GoodRun(d, Passed), Become(p, d) PROVE IInv'
    BY <1>0, <1>1, <1>2, <1>3, <1>4, EngineKeeps
<1>5. CASE Leave(p)
    BY <1>4, <1>5 DEF Leave
<1>6. CASE UNCHANGED run
    <2>1. Become(p, run[p])
        BY <1>6 DEF Become, IInv, TypeOK
    <2>2. GoodRun(run[p], Passed)
        BY <1>1, BusyIsGood
    <2> QED BY <1>4, <2>1, <2>2
<1> QED BY <1>5, <1>6 DEF UndoFiles

\* A journal that is kept changes no registry.
LEMMA KeepJournalKeeps ==
    ASSUME IInv, NEW p \in Proc, KeepJournal(p) PROVE IInv'
<1>0. /\ Reverts(p) /\ RestoreFiles /\ Leave(p)
      /\ UNCHANGED <<registry, txn, mishaps>>
    BY DEF KeepJournal
<1>1. /\ txn # NoTxn /\ UNCHANGED <<config, journal, probed>> /\ UNCHANGED User
    BY <1>0 DEF Reverts
<1>2. agents' \in [Role -> Provider \cup {"absent", "other"}]
    BY <1>0, <1>1, RestoredAreTyped
<1>3. RestIsTyped'
    BY <1>0, <1>1, <1>2 DEF IInv, TypeOK, RestIsTyped, User
<1> QED BY <1>0, <1>1, <1>3, FilesStay DEF Leave

\* The end of recovery changes no registry.
LEMMA RecoveredKeeps ==
    ASSUME IInv, NEW p \in Proc, Recovered(p) PROVE IInv'
<1> DEFINE place == IF run[p].order.command \in Journaled THEN "recover" ELSE "read"
<1>1. run[p] # Idle /\ Go(p, place)
      /\ UNCHANGED <<registry, config, journal, agents, txn, probed, mishaps>>
      /\ UNCHANGED User
    BY DEF Recovered, At
<1>2. place \in {"recover", "read"}
    OBVIOUS
<1> HIDE DEF place
<1>3. GoodRun([run[p] EXCEPT !.at = place], Passed)
    BY <1>1, <1>2, GoIsGood
<1> QED BY <1>1, <1>3, OnlyRunMoves DEF Go

-----------------------------------------------------------------------------
(* Prepare and remove. *)

\* A command that has read what it needs and planned the write of a table.
LEMMA PlanIsGood ==
    ASSUME IInv, NEW p \in Proc, run[p] # Idle, NEW after, Good(after, Passed),
           NEW d, d = [run[p] EXCEPT !.at = "journal", !.seen = config,
                                     !.base = registry, !.after = after],
           Planned(d)
    PROVE  GoodRun(d, Passed)
<1>1. GoodRun(run[p], Passed) /\ run[p] \in Command
    BY BusyIsGood
<1>2. Good(registry, Passed) /\ registry \in Registry /\ config \in Config
    BY DEF IInv, TypeOK, RegistriesAreGood, Good
<1>3. after \in Registry
    BY DEF Good
<1>4. /\ d \in Command /\ d.at = "journal" /\ d.base = registry /\ d.after = after
    BY <1>1, <1>2, <1>3 DEF Command, Place
<1> QED BY <1>2, <1>4 DEF GoodRun

\* What prepare plans is good.
LEMMA ReadPrepareKeeps ==
    ASSUME IInv, NEW p \in Proc, ReadPrepare(p) PROVE IInv'
<1> DEFINE c == run[p]
           v == c.order.provider
           after == Prepared(registry, v, c.order.auth, helper)
           d == [c EXCEPT !.at = "journal", !.seen = config, !.base = registry,
                          !.after = after]
<1>0. /\ c # Idle /\ c.order.command = "prepare" /\ config[v] = "absent"
      /\ Become(p, d)
      /\ UNCHANGED <<registry, config, journal, agents, txn, probed, mishaps>>
      /\ UNCHANGED User
    BY DEF ReadPrepare, At, Runs, Plan
<1>1. c \in Command /\ v \in Provider /\ c.order.auth \in Auth
    BY <1>0, BusyIsGood, OrderNames
<1>2. Good(registry, Passed) /\ registry \in Registry /\ helper \in Helper
      /\ config \in Config
    BY DEF IInv, RegistriesAreGood, TypeOK
<1>3. Good(after, Passed)
    BY <1>1, <1>2, PreparedGood
<1>4. Expected(after.providers[v]) = c.order.auth
    <2>1. after.providers[v].auth = c.order.auth
          /\ after.providers[v].state = "AUTH_REQUIRED"
        BY <1>1, <1>2 DEF Prepared, Registry
    <2> QED BY <2>1 DEF Expected, Unregistered
<1> HIDE DEF after
<1>5. d.order = c.order /\ d.seen = config /\ d.after = after
    BY <1>1 DEF Command
<1> HIDE DEF d
<1>6. Planned(d)
    BY <1>0, <1>1, <1>4, <1>5 DEF Planned, Wanted
<1>7. GoodRun(d, Passed)
    <2>1. d = [run[p] EXCEPT !.at = "journal", !.seen = config,
                             !.base = registry, !.after = after]
        BY DEF d
    <2> QED BY <1>0, <1>3, <1>6, <2>1, PlanIsGood
<1> QED BY <1>0, <1>7, OnlyRunMoves

\* What remove plans is good.
LEMMA ReadRemoveKeeps ==
    ASSUME IInv, NEW p \in Proc, ReadRemove(p) PROVE IInv'
<1> DEFINE c == run[p]
           v == c.order.provider
           after == Without(registry, v)
           d == [c EXCEPT !.at = "journal", !.seen = config, !.base = registry,
                          !.after = after]
<1>0. /\ c # Idle /\ c.order.command = "remove" /\ Registered(registry, v)
      /\ RolesOf(registry, v) = {}
      /\ config[v] = Expected(registry.providers[v])
      /\ Become(p, d)
      /\ UNCHANGED <<registry, config, journal, agents, txn, probed, mishaps>>
      /\ UNCHANGED User
    BY DEF ReadRemove, At, Runs, Plan
<1>1. c \in Command /\ v \in Provider
    BY <1>0, BusyIsGood, OrderNames
<1>2. Good(registry, Passed) /\ registry \in Registry /\ config \in Config
    BY DEF IInv, RegistriesAreGood, TypeOK
<1>3. Good(after, Passed)
    BY <1>0, <1>1, <1>2, WithoutGood
<1>4. Expected(after.providers[v]) = "absent"
    <2>1. after.providers[v] = Unregistered
        BY <1>1, <1>2 DEF Without, Registry
    <2> QED BY <2>1 DEF Expected
<1>5. registry.providers[v].auth \in Auth /\ config[v] \in Auth
    <2>1. registry.providers[v] \in ProviderRecord
        BY <1>0, <1>1, <1>2, RegisteredIsStored
    <2>2. registry.providers[v] # Unregistered
        BY <1>0 DEF Registered
    <2>3. registry.providers[v].auth \in Auth
        BY <2>1 DEF ProviderRecord
    <2> QED BY <1>0, <2>2, <2>3 DEF Expected
<1> HIDE DEF after
<1>6. d.order = c.order /\ d.seen = config /\ d.after = after /\ d.base = registry
    BY <1>1 DEF Command
<1> HIDE DEF d
<1>7. Planned(d)
    BY <1>0, <1>1, <1>4, <1>5, <1>6 DEF Planned, Wanted
<1>8. GoodRun(d, Passed)
    <2>1. d = [run[p] EXCEPT !.at = "journal", !.seen = config,
                             !.base = registry, !.after = after]
        BY DEF d
    <2> QED BY <1>0, <1>3, <1>7, <2>1, PlanIsGood
<1> QED BY <1>0, <1>8, OnlyRunMoves

\* A command at one of these places is planned.
LEMMA PlannedThere ==
    ASSUME IInv, NEW p \in Proc, run[p] # Idle,
           run[p].at \in {"journal", "write", "check", "applied"}
    PROVE  Planned(run[p]) /\ run[p].order.provider \in Provider
<1>1. GoodRun(run[p], Passed) /\ run[p].order \in Order
    BY BusyIsGood
<1>2. Planned(run[p])
    BY <1>1 DEF GoodRun
<1> QED BY <1>1, <1>2, OrderNames DEF Planned

\* The journal holds the two registries of the plan.
LEMMA WriteJournalKeeps ==
    ASSUME IInv, NEW p \in Proc, WriteJournal(p) PROVE IInv'
<1> DEFINE c == run[p]
           phase == IF c.at = "journal" THEN "preparing" ELSE "applied"
<1>0. /\ c # Idle /\ c.at \in {"journal", "applied"}
      /\ journal' = Entry(c, phase)
      /\ Go(p, IF c.at = "journal" THEN "write" ELSE "commit")
      /\ UNCHANGED <<registry, config, agents, txn, probed, mishaps>>
      /\ UNCHANGED User
    BY DEF WriteJournal, At
<1>1. /\ GoodRun(c, Passed) /\ c \in Command /\ c.order \in Order
      /\ Planned(c) /\ c.order.provider \in Provider
    BY <1>0, BusyIsGood, PlannedThere
<1>2. c.base \in Registry /\ c.after \in Registry
    BY <1>1 DEF Command
<1>3. phase \in {"preparing", "applied"}
    OBVIOUS
<1> HIDE DEF phase
<1>4. Entry(c, phase) \in Journal
    <2>1. CASE c.order.command = "prepare"
        BY <1>1, <1>2, <1>3, <2>1, OrderNames DEF Entry, Journal
    <2>2. CASE c.order.command = "remove" /\ c.base.providers[c.order.provider].auth \in Auth
        BY <1>1, <1>2, <1>3, <2>2 DEF Entry, Journal
    <2> QED BY <1>1, <2>1, <2>2 DEF Planned
<1>6. RestIsTyped'
    BY <1>0, <1>4 DEF IInv, TypeOK, RestIsTyped, User
<1>7. CASE c.at = "journal"
    <2>1. GoodRun([run[p] EXCEPT !.at = "write"], Passed)
        BY <1>0, <1>1, PlannedGoes
    <2>2. Become(p, [run[p] EXCEPT !.at = "write"])
        BY <1>0, <1>7 DEF Go
    <2> QED BY <1>0, <2>1, <2>2, <1>6, FilesStay
<1>8. CASE c.at = "applied"
    <2>1. GoodRun([run[p] EXCEPT !.at = "commit"], Passed)
        BY <1>0, GoIsGood
    <2>2. Become(p, [run[p] EXCEPT !.at = "commit"])
        BY <1>0, <1>8 DEF Go
    <2> QED BY <1>0, <2>1, <2>2, <1>6, FilesStay
<1> QED BY <1>0, <1>7, <1>8

\* The table written has the kind of authentication of a record.
LEMMA WriteTableKeeps ==
    ASSUME IInv, NEW p \in Proc, WriteTable(p) PROVE IInv'
<1>0. /\ run[p] # Idle /\ run[p].at = "write"
      /\ config' = [config EXCEPT ![run[p].order.provider] = Wanted(run[p])]
      /\ UNCHANGED <<registry, journal, agents, txn, probed, mishaps>>
      /\ UNCHANGED User
    BY DEF WriteTable, At
<1>1. Planned(run[p])
    BY <1>0, PlannedThere
<1>2. Wanted(run[p]) \in Auth \cup {"absent"}
    BY <1>1 DEF Planned
<1>3. config' \in Config
    BY <1>0, <1>2 DEF IInv, TypeOK, Config
<1>4. RestIsTyped'
    BY <1>0, <1>3 DEF IInv, TypeOK, RestIsTyped, User
<1>6. GoodRun([run[p] EXCEPT !.at = "check"], Passed)
    BY <1>0, <1>1, PlannedGoes
<1>7. CASE Go(p, "check")
    BY <1>0, <1>4, <1>6, <1>7, FilesStay DEF Go
<1>8. CASE Leave(p)
    BY <1>0, <1>4, <1>8, FilesStay DEF Leave
<1> QED BY <1>7, <1>8 DEF WriteTable

\* Reading the table back changes no registry.
LEMMA CheckTableKeeps ==
    ASSUME IInv, NEW p \in Proc, CheckTable(p) PROVE IInv'
<1>1. run[p] # Idle /\ run[p].at = "check"
    BY DEF CheckTable, At
<1>2. GoodRun([run[p] EXCEPT !.at = "applied"], Passed)
    BY <1>1, PlannedThere, PlannedGoes
<1> QED BY <1>2, OnlyRunMoves DEF CheckTable, Go

\* Removing the journal changes no registry.
LEMMA DoneKeeps ==
    ASSUME IInv, NEW p \in Proc, Done(p) PROVE IInv'
<1>0. /\ journal' = NoJournal /\ Leave(p)
      /\ UNCHANGED <<registry, config, agents, txn, probed, mishaps>>
      /\ UNCHANGED User
    BY DEF Done
<1>1. RestIsTyped'
    BY <1>0 DEF IInv, TypeOK, RestIsTyped, User
<1> QED BY <1>0, <1>1, FilesStay DEF Leave

-----------------------------------------------------------------------------
(* The commands that read no journal. *)

\* A command that read the registry and will write what it made of it.
LEMMA DraftKeeps ==
    ASSUME IInv, NEW p \in Proc, run[p] # Idle, NEW place \in {"compare", "commit"},
           NEW after, Good(after, Passed), Draft(p, place, after),
           UNCHANGED <<registry, config, journal, agents, txn, probed, mishaps>>,
           UNCHANGED User
    PROVE  IInv'
<1> DEFINE d == [run[p] EXCEPT !.at = place, !.base = registry, !.after = after]
<1>1. run[p] \in Command /\ Good(registry, Passed) /\ registry \in Registry
      /\ after \in Registry
    BY BusyIsGood DEF IInv, RegistriesAreGood, Good
<1>2. /\ d \in Command /\ d.at = place /\ d.base = registry /\ d.after = after
    BY <1>1 DEF Command, Place
<1>3. Become(p, d)
    BY DEF Draft
<1> HIDE DEF d
<1>4. GoodRun(d, Passed)
    BY <1>1, <1>2 DEF GoodRun
<1> QED BY <1>3, <1>4, OnlyRunMoves

\* The registry a command reads is good.
LEMMA ReadsAreGood ==
    ASSUME IInv, NEW p \in Proc, NEW command, Reads(p, command)
    PROVE  /\ run[p] # Idle /\ run[p].order.command = command
           /\ run[p].order \in Order
           /\ Good(registry, Passed) /\ registry \in Registry
           /\ UNCHANGED <<registry, config, journal, agents, txn, probed, mishaps>>
           /\ UNCHANGED User
<1>1. run[p] # Idle /\ run[p].order.command = command
    BY DEF Reads, At, Runs
<1>2. run[p].order \in Order
    BY <1>1, BusyIsGood
<1> QED BY <1>1, <1>2 DEF Reads, IInv, RegistriesAreGood, TypeOK

\* What Gate 0 is about to write first is good.
LEMMA ReadGate0Keeps ==
    ASSUME IInv, NEW p \in Proc, ReadGate0(p) PROVE IInv'
<1> DEFINE v == run[p].order.provider
<1>1. /\ Reads(p, "gate0")
      /\ registry.providers[v].state \in {"AUTH_REQUIRED", "AUTH_READY"}
      /\ Draft(p, "compare", Authenticated(registry, v))
    BY DEF ReadGate0, Gate0Accepts
<1>2. v \in Provider
    BY <1>1, ReadsAreGood, OrderNames
<1>3. Registered(registry, v)
    BY <1>1, <1>2, ReadsAreGood, RegisteredIsStored DEF Stored
<1>4. Good(Authenticated(registry, v), Passed)
    BY <1>1, <1>2, <1>3, ReadsAreGood, AuthenticatedGood
<1> QED BY <1>1, <1>4, ReadsAreGood, DraftKeeps

\* What connect is about to write is good.
LEMMA ReadConnectKeeps ==
    ASSUME IInv, NEW p \in Proc, ReadConnect(p) PROVE IInv'
<1> DEFINE v == run[p].order.provider
           o == run[p].order.role
<1>1. /\ Reads(p, "connect")
      /\ registry.providers[v].state \in {"CAPABILITY_VERIFIED", "READY"}
      /\ registry.roles[o] = Unconnected
      /\ Draft(p, "commit", Staged(registry, o, v))
    BY DEF ReadConnect
<1>2. v \in Provider /\ o \in Role
    BY <1>1, ReadsAreGood, OrderNames
<1>3. registry.providers[v].state \in Proven
    BY <1>1 DEF Proven
<1>4. Good(Staged(registry, o, v), Passed)
    BY <1>1, <1>2, <1>3, ReadsAreGood, StagedGood
<1> QED BY <1>1, <1>4, ReadsAreGood, DraftKeeps

\* Only a provider that is staged or ready can become ready.
LEMMA MovesToReady ==
    ASSUME NEW from \in Stored, Moves(from, "READY")
    PROVE  from \in {"RESTART_REQUIRED", "READY"}
    BY DEF Stored, Moves, Forward

\* What ready is about to write is good.
LEMMA ReadReadyKeeps ==
    ASSUME IInv, NEW p \in Proc, ReadReady(p) PROVE IInv'
<1> DEFINE o == run[p].order.role
           v == registry.roles[o].provider
<1>1. /\ Reads(p, "ready")
      /\ registry.roles[o].state = "RESTART_REQUIRED"
      /\ Moves(registry.providers[v].state, "READY")
      /\ Draft(p, "compare", MadeReady(registry, o))
    BY DEF ReadReady, ReadyAccepts
<1>2. o \in Role
    BY <1>1, ReadsAreGood, OrderNames
<1>3. registry.roles[o] # Unconnected /\ registry.roles[o] \in RoleRecord
    BY <1>1, <1>2, ReadsAreGood, ConnectedHasRecord
<1>4. v \in Provider
    BY <1>3 DEF RoleRecord
<1>5. registry.providers[v].state \in Stored
    <2>1. Registered(registry, v)
        BY <1>1, <1>2, <1>3, ReadsAreGood DEF Good, Valid
    <2> QED BY <2>1, <1>1, <1>4, ReadsAreGood, RegisteredIsStored
<1>6. registry.providers[v].state \in {"RESTART_REQUIRED", "READY"}
    BY <1>1, <1>5, MovesToReady
<1>7. Good(MadeReady(registry, o), Passed)
    BY <1>1, <1>2, <1>3, <1>6, ReadsAreGood, MadeReadyGood
<1> QED BY <1>1, <1>7, ReadsAreGood, DraftKeeps

\* What disconnect is about to write is good.
LEMMA ReadDisconnectKeeps ==
    ASSUME IInv, NEW p \in Proc, ReadDisconnect(p) PROVE IInv'
<1> DEFINE o == run[p].order.role
<1>1. /\ Reads(p, "disconnect")
      /\ registry.roles[o] # Unconnected
      /\ Draft(p, "commit", Disconnected(registry, o))
    BY DEF ReadDisconnect
<1>2. o \in Role
    BY <1>1, ReadsAreGood, OrderNames
<1>3. Good(Disconnected(registry, o), Passed)
    BY <1>1, <1>2, ReadsAreGood, DisconnectedGood
<1> QED BY <1>1, <1>3, ReadsAreGood, DraftKeeps

\* What retrust is about to write is good.
LEMMA ReadRetrustKeeps ==
    ASSUME IInv, NEW p \in Proc, ReadRetrust(p) PROVE IInv'
<1> DEFINE v == run[p].order.provider
<1>1. /\ Reads(p, "retrust")
      /\ registry.providers[v].auth = "user_helper"
      /\ Draft(p, "compare", Retrusted(registry, v, helper))
    BY DEF ReadRetrust, RetrustAccepts
<1>2. v \in Provider
    BY <1>1, ReadsAreGood, OrderNames
<1>3. Registered(registry, v)
    BY <1>1 DEF Registered, Unregistered
<1>4. Good(Retrusted(registry, v, helper), Passed)
    BY <1>1, <1>2, <1>3, ReadsAreGood, RetrustedGood DEF IInv, TypeOK
<1> QED BY <1>1, <1>4, ReadsAreGood, DraftKeeps

\* What invoke attests is a ready role on a proven provider.
LEMMA ReadInvokeKeeps ==
    ASSUME IInv, NEW p \in Proc, ReadInvoke(p) PROVE IInv'
<1> DEFINE c == run[p]
           o == c.order.role
           role == registry.roles[o]
           record == registry.providers[role.provider]
           d == [c EXCEPT !.at = "attest", !.base = registry, !.after = registry]
<1>1. /\ Reads(p, "invoke")
      /\ role.state = "READY"
      /\ record.qualified /\ record.state = "READY"
      /\ Become(p, d)
    BY DEF ReadInvoke, InvokeAccepts, Draft
<1>2. /\ c \in Command /\ o \in Role
      /\ Good(registry, Passed) /\ registry \in Registry
    BY <1>1, ReadsAreGood, BusyIsGood, OrderNames
<1>3. /\ d \in Command /\ d.at = "attest" /\ d.order = c.order
      /\ d.base = registry /\ d.after = registry
    BY <1>2 DEF Command, Place
<1> HIDE DEF d
<1>4. Attested(d)
    BY <1>1, <1>2, <1>3 DEF Attested
<1>5. GoodRun(d, Passed)
    BY <1>2, <1>3, <1>4 DEF GoodRun
<1> QED BY <1>1, <1>5, ReadsAreGood, OnlyRunMoves

\* A comparison changes no registry.
LEMMA CompareKeeps ==
    ASSUME IInv, NEW p \in Proc, Compare(p) PROVE IInv'
<1>1. GoodRun([run[p] EXCEPT !.at = "replace"], Passed)
    BY GoIsGood DEF Compare, At
<1> QED BY <1>1, OnlyRunMoves DEF Compare, Go

\* A replacement installs a good registry, whatever it replaces.
LEMMA ReplaceKeeps ==
    ASSUME IInv, NEW p \in Proc, Replace(p) PROVE IInv'
<1> DEFINE c == run[p]
           v == c.order.provider
<1>0. /\ c # Idle /\ registry' = c.after
      /\ txn' = IF txn = NoTxn THEN txn ELSE [txn EXCEPT !.stale = TRUE]
      /\ UNCHANGED <<config, journal, agents, probed>>
      /\ UNCHANGED User
    BY DEF Replace, At
<1>1. GoodRun(c, Passed) /\ c \in Command /\ c.order \in Order /\ c.after \in Registry
    BY <1>0, BusyIsGood DEF Command
<1>2. Good(registry', Passed)
    BY <1>0, <1>1 DEF GoodRun
<1>3. txn' \in Txn \cup {NoTxn} /\ TxnIsGood(txn', Passed)
    <2>1. CASE txn = NoTxn
        BY <1>0, <2>1 DEF TxnIsGood
    <2>2. CASE txn # NoTxn
        <3>1. txn \in Txn /\ Good(txn.before, Passed) /\ Good(txn.after, Passed)
            BY <2>2 DEF IInv, TypeOK, RegistriesAreGood, TxnIsGood
        <3> DEFINE t == [txn EXCEPT !.stale = TRUE]
        <3>2. t \in Txn /\ t.before = txn.before /\ t.after = txn.after
            BY <3>1 DEF Txn
        <3>3. txn' = t
            BY <1>0, <2>2
        <3> HIDE DEF t
        <3> QED BY <3>1, <3>2, <3>3 DEF TxnIsGood
    <2> QED BY <2>1, <2>2
<1>4. mishaps \subseteq mishaps' /\ mishaps' \subseteq mishaps \cup {"disturbed"}
    BY DEF Replace, Overwrites
<1>5. agents' \in [Role -> Provider \cup {"absent", "other"}]
    BY <1>0 DEF IInv, TypeOK
<1>6. ASSUME NEW d, d = Idle \/ GoodRun(d, Passed), Become(p, d) PROVE IInv'
    BY <1>0, <1>2, <1>3, <1>4, <1>5, <1>6, EngineKeeps
<1>7. CASE Leave(p)
    BY <1>6, <1>7 DEF Leave
<1>8. CASE /\ c.order.command = "gate0"
           /\ c.after.providers[v].state = "AUTH_READY"
           /\ Go(p, "probe")
    <2> DEFINE d == [c EXCEPT !.at = "probe"]
    <2>1. /\ d \in Command /\ d.at = "probe" /\ d.order = c.order
          /\ d.base = c.base /\ d.after = c.after
        BY <1>1 DEF Command, Place
    <2>2. v \in Provider
        BY <1>1, <1>8, OrderNames
    <2>3. Registered(c.after, v)
        BY <1>1, <1>8, <2>2, RegisteredIsStored DEF Stored
    <2>4. Become(p, d)
        BY <1>8 DEF Go
    <2> HIDE DEF d
    <2>5. GoodRun(d, Passed)
        BY <1>1, <1>8, <2>1, <2>3 DEF GoodRun
    <2> QED BY <1>6, <2>4, <2>5
<1> QED BY <1>7, <1>8 DEF Replace, Runs

\* The second look of Gate 0 at the helper changes no registry.
LEMMA ProbeKeeps ==
    ASSUME IInv, NEW p \in Proc, Probe(p) PROVE IInv'
<1> DEFINE c == run[p]
           d == [c EXCEPT !.at = "probing"]
<1>0. /\ c # Idle /\ c.at = "probe" /\ Become(p, d)
      /\ UNCHANGED <<registry, config, journal, agents, txn, probed, mishaps>>
      /\ UNCHANGED User
    BY DEF Probe, At, Go
<1>1. GoodRun(c, Passed) /\ c \in Command
    BY <1>0, BusyIsGood
<1>2. /\ d \in Command /\ d.at = "probing" /\ d.order = c.order
      /\ d.base = c.base /\ d.after = c.after
    BY <1>1 DEF Command, Place
<1> HIDE DEF d
<1>3. GoodRun(d, Passed)
    BY <1>0, <1>1, <1>2 DEF GoodRun
<1> QED BY <1>0, <1>3, OnlyRunMoves

\* After the probe the registry Gate 0 is about to write is good: the helper
\* that ran is the one that is trusted, unless it was replaced.
LEMMA ProbedKeeps ==
    ASSUME IInv, SInv, NEW p \in Proc, Probed(p) PROVE IInv'
<1> DEFINE c == run[p]
           v == c.order.provider
           record == c.after.providers[v]
           used == IF record.auth = "user_helper" THEN helper ELSE record.trust
           after == Qualify(c.after, v)
           d == [c EXCEPT !.at = "compare", !.base = c.after, !.after = after]
<1>0. /\ c # Idle /\ c.at = "probing"
      /\ probed' = probed \cup {<<v, used>>}
      /\ Become(p, d)
      /\ UNCHANGED <<registry, config, journal, agents, txn, mishaps>>
      /\ UNCHANGED User
    BY DEF Probed, At
<1>1. /\ GoodRun(c, Passed) /\ c \in Command /\ c.order \in Order
      /\ c.after \in Registry
    BY <1>0, BusyIsGood DEF Command
<1>2. /\ c.order.command = "gate0" /\ Registered(c.after, v)
      /\ Good(c.after, Passed)
    BY <1>0, <1>1 DEF GoodRun
<1>3. v \in Provider
    BY <1>1, <1>2, OrderNames
<1>4. record \in ProviderRecord /\ record.trust \in Helper \cup {"none"}
    <2>1. record \in ProviderRecord
        BY <1>1, <1>2, <1>3, RegisteredIsStored
    <2> QED BY <2>1 DEF ProviderRecord
<1>5. used \in Helper \cup {"none"}
    BY <1>4 DEF IInv, TypeOK
<1>6. "swapped" \notin mishaps => used = record.trust
    <2>1. ASSUME "swapped" \notin mishaps PROVE HelperTrusted(record)
        BY <1>0, <2>1 DEF SInv, At
    <2> QED BY <2>1 DEF HelperTrusted
<1> HIDE DEF used
<1>7. Passed \cup {<<v, record.trust>>} \subseteq Passed'
    <2>1. CASE "swapped" \in mishaps
        <3>1. Passed = Provider \X (Helper \cup {"none"}) /\ Passed' = Passed
            BY <1>0, <2>1 DEF Passed
        <3>2. <<v, record.trust>> \in Provider \X (Helper \cup {"none"})
            BY <1>3, <1>4
        <3> QED BY <3>1, <3>2, Zenon
    <2>2. CASE "swapped" \notin mishaps
        <3>1. Passed = probed /\ Passed' = probed'
            BY <1>0, <2>2 DEF Passed
        <3> QED BY <1>0, <1>6, <2>2, <3>1
    <2> QED BY <2>1, <2>2
<1>8. Good(after, Passed') /\ after \in Registry
    <2>1. Good(after, Passed \cup {<<v, record.trust>>})
        BY <1>2, <1>3, QualifyGood
    <2> HIDE DEF after, record
    <2> QED BY <1>7, <2>1, GoodGrows DEF Good
<1>9. Passed \subseteq Passed'
    BY <1>7
<1>10. /\ Good(registry', Passed') /\ Good(c.after, Passed')
       /\ TxnIsGood(txn', Passed')
    BY <1>0, <1>2, <1>9, GoodGrows DEF IInv, RegistriesAreGood, TxnIsGood
<1>11. RestIsTyped'
    <2>1. <<v, used>> \in Provider \X (Helper \cup {"none"})
        BY <1>3, <1>5
    <2>2. probed \subseteq Provider \X (Helper \cup {"none"})
        BY DEF IInv, TypeOK
    <2>3. probed' \subseteq Provider \X (Helper \cup {"none"})
        BY <1>0, <2>1, <2>2, Zenon
    <2> QED BY <1>0, <2>3 DEF IInv, TypeOK, RestIsTyped, User
<1> HIDE DEF after
<1>12. d \in Command /\ d.at = "compare" /\ d.base = c.after /\ d.after = after
    BY <1>1, <1>8 DEF Command, Place
<1> HIDE DEF d
<1>13. GoodRun(d, Passed')
    BY <1>8, <1>10, <1>12 DEF GoodRun
<1> QED BY <1>0, <1>9, <1>10, <1>11, <1>13, Keeps

\* The second look of invoke keeps what it attested.
LEMMA AttestKeeps ==
    ASSUME IInv, NEW p \in Proc, Attest(p) PROVE IInv'
<1> DEFINE c == run[p]
           d == [c EXCEPT !.at = "launch"]
<1>0. /\ c # Idle /\ c.at = "attest" /\ Become(p, d)
      /\ UNCHANGED <<registry, config, journal, agents, txn, probed, mishaps>>
      /\ UNCHANGED User
    BY DEF Attest, At, Go
<1>1. GoodRun(c, Passed) /\ c \in Command
    BY <1>0, BusyIsGood
<1>2. /\ d \in Command /\ d.at = "launch" /\ d.order = c.order
      /\ d.base = c.base /\ d.after = c.after
    BY <1>1 DEF Command, Place
<1> HIDE DEF d
<1>3. Attested(d)
    BY <1>0, <1>1, <1>2 DEF GoodRun, Attested
<1>4. GoodRun(d, Passed)
    BY <1>1, <1>2, <1>3 DEF GoodRun
<1> QED BY <1>0, <1>4, OnlyRunMoves

\* The launch keeps what was attested.
LEMMA LaunchKeeps ==
    ASSUME IInv, NEW p \in Proc, Launch(p) PROVE IInv'
<1>1. GoodRun([run[p] EXCEPT !.at = "model"], Passed)
    BY GoIsGood DEF Launch, At
<1> QED BY <1>1, OnlyRunMoves DEF Launch, Go

-----------------------------------------------------------------------------
(* The user, and the invariant. *)

\* The user edits tables, agent files and the helper, no registry.
LEMMA UserKeeps ==
    ASSUME IInv, UserStep PROVE IInv'
<1>1. /\ UNCHANGED <<registry, journal, txn, run, probed, beside>>
      /\ edits' \in Nat /\ swaps' \in Nat
      /\ helper' \in Helper
      /\ mishaps \subseteq mishaps'
      /\ mishaps' \subseteq {"overlap", "disturbed", "table edit", "agent edit", "swapped"}
      /\ config' \in Config
      /\ agents' \in [Role -> Provider \cup {"absent", "other"}]
    <2>0. TypeOK /\ edits \in Nat /\ swaps \in Nat
        BY DEF IInv, TypeOK
    <2>1. CASE EditTable
        <3>1. edits' = edits + 1
            BY <2>1 DEF EditTable, Edit
        <3>2. config' \in Config
            BY <2>0, <2>1 DEF EditTable, TypeOK, Config
        <3>3. edits' \in Nat
            BY <2>0, <3>1
        <3> QED BY <2>0, <2>1, <3>2, <3>3 DEF EditTable, Edit, TypeOK
    <2>2. CASE EditAgent
        <3>1. edits' = edits + 1
            BY <2>2 DEF EditAgent, Edit
        <3>2. agents' \in [Role -> Provider \cup {"absent", "other"}]
            BY <2>0, <2>2 DEF EditAgent, TypeOK
        <3>3. edits' \in Nat
            BY <2>0, <3>1
        <3> QED BY <2>0, <2>2, <3>2, <3>3 DEF EditAgent, Edit, TypeOK
    <2>3. CASE ReplaceHelper
        <3>1. swaps' = swaps + 1
            BY <2>3 DEF ReplaceHelper
        <3>2. swaps' \in Nat
            BY <2>0, <3>1
        <3> QED BY <2>0, <2>3, <3>2 DEF ReplaceHelper, TypeOK
    <2> QED BY <2>1, <2>2, <2>3 DEF UserStep
<1>2. TypeOK'
    BY <1>1 DEF IInv, TypeOK
<1>3. Passed \subseteq Passed'
    BY <1>1 DEF IInv, TypeOK, Passed
<1>4. RegistriesAreGood'
    <2>1. Good(registry', Passed')
        BY <1>1, <1>3, GoodGrows DEF IInv, RegistriesAreGood
    <2>2. TxnIsGood(txn', Passed')
        BY <1>1, <1>3, GoodGrows DEF IInv, RegistriesAreGood, TxnIsGood
    <2>3. ASSUME NEW x \in Proc, run'[x] # Idle PROVE GoodRun(run'[x], Passed')
        BY <1>1, <1>3, <2>3, GoodRunGrows DEF IInv, RegistriesAreGood
    <2> QED BY <2>1, <2>2, <2>3 DEF RegistriesAreGood
<1> QED BY <1>2, <1>4 DEF IInv

\* Every step of a command keeps the invariant.
LEMMA StepKeeps ==
    ASSUME IInv, SInv, NEW p \in Proc, Step(p) PROVE IInv'
<1>1. CASE \/ Start(p) \/ End(p) \/ Recover(p) \/ RollBack(p) \/ RolledBack(p)
           \/ Clear(p)
    BY <1>1, StartKeeps, EndKeeps, RecoverKeeps, RollBackKeeps, RolledBackKeeps,
       ClearKeeps
<1>2. CASE \/ Stage(p) \/ Publish(p) \/ Link(p) \/ Swap(p) \/ Commit(p) \/ Raise(p)
           \/ UndoRegistry(p) \/ UndoFiles(p) \/ KeepJournal(p) \/ Recovered(p)
    BY <1>2, StageKeeps, PublishKeeps, LinkKeeps, SwapKeeps, CommitKeeps,
       RaiseKeeps, UndoRegistryKeeps, UndoFilesKeeps, KeepJournalKeeps,
       RecoveredKeeps
<1>3. CASE \/ ReadPrepare(p) \/ ReadRemove(p) \/ WriteJournal(p) \/ WriteTable(p)
           \/ CheckTable(p) \/ Done(p)
    BY <1>3, ReadPrepareKeeps, ReadRemoveKeeps, WriteJournalKeeps,
       WriteTableKeeps, CheckTableKeeps, DoneKeeps
<1>4. CASE \/ ReadGate0(p) \/ ReadConnect(p) \/ ReadReady(p)
           \/ ReadDisconnect(p) \/ ReadRetrust(p) \/ ReadInvoke(p)
    BY <1>4, ReadGate0Keeps, ReadConnectKeeps, ReadReadyKeeps,
       ReadDisconnectKeeps, ReadRetrustKeeps, ReadInvokeKeeps
<1>5. CASE \/ Compare(p) \/ Replace(p) \/ Probe(p) \/ Probed(p) \/ Attest(p)
           \/ Launch(p)
    BY <1>5, CompareKeeps, ReplaceKeeps, ProbeKeeps, ProbedKeeps, AttestKeeps,
       LaunchKeeps
<1> QED BY <1>1, <1>2, <1>3, <1>4, <1>5 DEF Step

\* Every step of a command gives its process a new run and no other one; which
\* steps bring it into a probe or to a comparison.
LEMMA StepBecomes ==
    ASSUME IInv, NEW p \in Proc, Step(p)
    PROVE  \E d : /\ Become(p, d)
                  /\ \/ d = Idle
                     \/ d.at \notin {"probing", "compare", "replace"}
                     \/ d.at = "probing" /\ Probe(p)
                     \/ /\ d.at # "probing"
                        /\ \/ ReadGate0(p) \/ ReadReady(p) \/ ReadRetrust(p)
                           \/ Compare(p) \/ Probed(p)
<1> DEFINE Apart == {"probing", "compare", "replace"}
<1>0. ASSUME run[p] # Idle, NEW place, place \notin Apart, Go(p, place)
      PROVE  \E d : Become(p, d) /\ d.at \notin Apart
    <2> DEFINE d == [run[p] EXCEPT !.at = place]
    <2>1. d.at = place
        BY <1>0, BusyIsGood DEF Command
    <2>2. Become(p, d)
        BY <1>0 DEF Go
    <2> HIDE DEF d
    <2> QED BY <1>0, <2>1, <2>2
<1>b. ASSUME run[p] # Idle, run[p].at \notin Apart, UNCHANGED run
      PROVE  \E d : Become(p, d) /\ d.at \notin Apart
    <2>1. Become(p, run[p])
        BY <1>b DEF Become, IInv, TypeOK
    <2> QED BY <1>b, <2>1
<1>c. ASSUME NEW order, NEW place, place \notin Apart, Become(p, Fresh(order, place))
      PROVE  \E d : Become(p, d) /\ d.at \notin Apart
    <2>1. Fresh(order, place).at = place
        BY DEF Fresh
    <2> QED BY <1>c, <2>1
<1>d. ASSUME Leave(p) PROVE \E d : Become(p, d) /\ d = Idle
    BY <1>d DEF Leave
<1>e. run[p] # Idle => run[p] \in Command
    BY BusyIsGood
<1>1. CASE Start(p)
    <2>1. PICK order \in Order :
             Become(p, Fresh(order, IF order.command \in Transacted THEN "engine"
                                    ELSE IF order.command = "recover"
                                    THEN "recover" ELSE "read"))
        BY <1>1 DEF Start
    <2> QED BY <2>1, <1>c
<1>2. CASE End(p)
    BY <1>2, <1>d DEF End
<1>3. CASE Recover(p)
    <2>0. run[p] # Idle
        BY <1>3 DEF Recover, At
    <2>1. CASE Leave(p) \/ Go(p, "read") \/ Go(p, "clear")
        BY <2>0, <2>1, <1>0, <1>d
    <2>2. CASE Become(p, [run[p] EXCEPT !.at = "roll back", !.seen = config,
                                        !.owner = journal.provider])
        <3> DEFINE d == [run[p] EXCEPT !.at = "roll back", !.seen = config,
                                       !.owner = journal.provider]
        <3>1. d.at = "roll back"
            BY <2>0, <1>e DEF Command
        <3>2. Become(p, d)
            BY <2>2
        <3> HIDE DEF d
        <3> QED BY <3>1, <3>2
    <2>3. CASE Become(p, [run[p] EXCEPT !.at = "commit", !.base = registry,
                                        !.after = journal.after,
                                        !.owner = journal.provider])
        <3> DEFINE d == [run[p] EXCEPT !.at = "commit", !.base = registry,
                                       !.after = journal.after,
                                       !.owner = journal.provider]
        <3>1. d.at = "commit"
            BY <2>0, <1>e DEF Command
        <3>2. Become(p, d)
            BY <2>3
        <3> HIDE DEF d
        <3> QED BY <3>1, <3>2
    <2> QED BY <1>3, <2>1, <2>2, <2>3 DEF Recover
<1>4. CASE RollBack(p) \/ RolledBack(p) \/ WriteJournal(p) \/ WriteTable(p)
           \/ CheckTable(p) \/ Done(p) \/ Attest(p) \/ Launch(p)
    <2>1. run[p] # Idle
        BY <1>4 DEF RollBack, RolledBack, WriteJournal, WriteTable, CheckTable,
                    Done, Attest, Launch, At
    <2>2. \/ Leave(p)
          \/ \E place \in {"rolled back", "clear", "write", "commit", "check",
                           "applied", "launch", "model"} : Go(p, place)
        BY <1>4 DEF RollBack, RolledBack, WriteJournal, WriteTable, CheckTable,
                    Done, Attest, Launch
    <2> QED BY <2>1, <2>2, <1>0, <1>d
<1>5. CASE Clear(p)
    BY <1>5, <1>c, <1>d DEF Clear
<1>6. CASE Stage(p) \/ Publish(p) \/ Link(p) \/ Swap(p) \/ Commit(p) \/ Raise(p)
           \/ KeepJournal(p) \/ Recovered(p)
    <2>1. run[p] # Idle
        BY <1>6 DEF Stage, Publish, Link, Swap, Moved, Commit, Raise, Busy,
                    KeepJournal, Recovered, At
    <2>2. \/ Leave(p)
          \/ \E place \in {"staged", "published", "linked", "replaced", "clear",
                           "done", "revert", "recover", "read"} : Go(p, place)
        BY <1>6 DEF Stage, Publish, Link, Swap, Moved, Commit, Raise,
                    KeepJournal, Recovered
    <2> QED BY <2>1, <2>2, <1>0, <1>d
<1>7. CASE UndoRegistry(p) \/ UndoFiles(p)
    <2>1. run[p] # Idle /\ run[p].at \notin Apart
        BY <1>7 DEF UndoRegistry, UndoFiles, Reverts, At
    <2>2. Leave(p) \/ UNCHANGED run
        BY <1>7 DEF UndoRegistry, UndoFiles
    <2> QED BY <2>1, <2>2, <1>b, <1>d
<1>8. CASE ReadPrepare(p) \/ ReadRemove(p)
    <2>1. run[p] # Idle
        BY <1>8 DEF ReadPrepare, ReadRemove, At
    <2>2. PICK after : Plan(p, "journal", after)
        BY <1>8 DEF ReadPrepare, ReadRemove
    <2> DEFINE d == [run[p] EXCEPT !.at = "journal", !.seen = config,
                                   !.base = registry, !.after = after]
    <2>3. d.at = "journal"
        BY <2>1, <1>e DEF Command
    <2>4. Become(p, d)
        BY <2>2 DEF Plan
    <2> HIDE DEF d
    <2> QED BY <2>3, <2>4
<1>9. CASE ReadConnect(p) \/ ReadDisconnect(p) \/ ReadInvoke(p)
    <2>1. run[p] # Idle
        BY <1>9 DEF ReadConnect, ReadDisconnect, ReadInvoke, Reads, At
    <2>2. ASSUME NEW after, NEW place, place \notin Apart, Draft(p, place, after)
          PROVE  \E d : Become(p, d) /\ d.at \notin Apart
        <3> DEFINE d == [run[p] EXCEPT !.at = place, !.base = registry, !.after = after]
        <3>1. d.at = place
            BY <2>1, <1>e DEF Command
        <3>2. Become(p, d)
            BY <2>2 DEF Draft
        <3> HIDE DEF d
        <3> QED BY <2>2, <3>1, <3>2
    <2>3. CASE ReadConnect(p) \/ ReadDisconnect(p)
        <3>1. \E after : Draft(p, "commit", after)
            BY <2>3 DEF ReadConnect, ReadDisconnect
        <3> QED BY <2>2, <3>1
    <2>4. CASE ReadInvoke(p)
        <3>1. Draft(p, "attest", registry)
            BY <2>4 DEF ReadInvoke
        <3> QED BY <2>2, <3>1
    <2> QED BY <1>9, <2>3, <2>4
<1>10. CASE Replace(p)
    BY <1>10, <1>0, <1>d DEF Replace, At
<1>11. CASE Probe(p)
    <2> DEFINE d == [run[p] EXCEPT !.at = "probing"]
    <2>1. run[p] # Idle /\ Become(p, d)
        BY <1>11 DEF Probe, Go, At
    <2>2. d.at = "probing"
        BY <2>1, <1>e DEF Command
    <2> HIDE DEF d
    <2> QED BY <1>11, <2>1, <2>2
<1>12. CASE ReadGate0(p) \/ ReadReady(p) \/ ReadRetrust(p)
    <2>1. run[p] # Idle
        BY <1>12 DEF ReadGate0, ReadReady, ReadRetrust, Reads, At
    <2>2. PICK after : Draft(p, "compare", after)
        BY <1>12 DEF ReadGate0, ReadReady, ReadRetrust
    <2> DEFINE d == [run[p] EXCEPT !.at = "compare", !.base = registry, !.after = after]
    <2>3. d.at = "compare"
        BY <2>1, <1>e DEF Command
    <2>4. Become(p, d)
        BY <2>2 DEF Draft
    <2> HIDE DEF d
    <2> QED BY <1>12, <2>3, <2>4
<1>13. CASE Compare(p)
    <2> DEFINE d == [run[p] EXCEPT !.at = "replace"]
    <2>1. run[p] # Idle /\ Become(p, d)
        BY <1>13 DEF Compare, Go, At
    <2>2. d.at = "replace"
        BY <2>1, <1>e DEF Command
    <2> HIDE DEF d
    <2> QED BY <1>13, <2>1, <2>2
<1>14. CASE Probed(p)
    <2>1. run[p] # Idle
        BY <1>14 DEF Probed, At
    <2>2. PICK base, after :
             Become(p, [run[p] EXCEPT !.at = "compare", !.base = base, !.after = after])
        BY <1>14 DEF Probed
    <2> DEFINE d == [run[p] EXCEPT !.at = "compare", !.base = base, !.after = after]
    <2>3. d.at = "compare"
        BY <2>1, <1>e DEF Command
    <2>4. Become(p, d)
        BY <2>2
    <2> HIDE DEF d
    <2> QED BY <1>14, <2>3, <2>4
<1> QED BY <1>1, <1>2, <1>3, <1>4, <1>5, <1>6, <1>7, <1>8, <1>9, <1>10, <1>11,
           <1>12, <1>13, <1>14 DEF Step

\* What a step of one process leaves of another's run.
LEMMA OthersStay ==
    ASSUME IInv, NEW p \in Proc, NEW d, Become(p, d), NEW x \in Proc, x # p
    PROVE  run'[x] = run[x]
    BY DEF Become, IInv, TypeOK

\* No command replaces the user's helper or forgets a mishap.
LEMMA HelperStays ==
    ASSUME NEW p \in Proc, Step(p)
    PROVE  helper' = helper /\ mishaps \subseteq mishaps'
<1>1. CASE \/ Start(p) \/ End(p) \/ Recover(p) \/ RollBack(p) \/ RolledBack(p)
           \/ Clear(p)
    BY <1>1 DEF Start, End, Recover, RollBack, RolledBack, Clear, User
<1>2. CASE \/ Stage(p) \/ Publish(p) \/ Link(p) \/ Swap(p) \/ Commit(p) \/ Raise(p)
    BY <1>2 DEF Stage, Publish, Link, Swap, Moved, Commit, Raise, User
<1>3. CASE UndoRegistry(p) \/ UndoFiles(p) \/ KeepJournal(p) \/ Recovered(p)
    BY <1>3 DEF UndoRegistry, UndoFiles, KeepJournal, Reverts, Recovered, User
<1>4. CASE \/ ReadPrepare(p) \/ ReadRemove(p) \/ WriteJournal(p) \/ WriteTable(p)
           \/ CheckTable(p) \/ Done(p)
    BY <1>4 DEF ReadPrepare, ReadRemove, WriteJournal, WriteTable, CheckTable,
                Done, User
<1>5. CASE \/ ReadGate0(p) \/ ReadConnect(p) \/ ReadReady(p)
           \/ ReadDisconnect(p) \/ ReadRetrust(p) \/ ReadInvoke(p)
    BY <1>5 DEF ReadGate0, ReadConnect, ReadReady, ReadDisconnect, ReadRetrust,
                ReadInvoke, Reads, User
<1>6. CASE \/ Compare(p) \/ Replace(p) \/ Probe(p) \/ Probed(p) \/ Attest(p)
           \/ Launch(p)
    BY <1>6 DEF Compare, Replace, Probe, Probed, Attest, Launch, User
<1> QED BY <1>1, <1>2, <1>3, <1>4, <1>5, <1>6 DEF Step

\* The helper stays the verified one while a model runs it, or is noted.
LEMMA ProbingKeeps ==
    ASSUME IInv, SInv, [Next]_vars PROVE SInv'
<1> SUFFICES ASSUME "swapped" \notin mishaps', NEW x \in Proc, At(x, "probing")'
             PROVE  HelperTrusted(run[x].after.providers[run[x].order.provider])'
    BY DEF SInv
<1>1. CASE EditTable \/ EditAgent \/ UNCHANGED vars
    <2>1. UNCHANGED <<helper, run>> /\ mishaps \subseteq mishaps'
        BY <1>1 DEF EditTable, EditAgent, Edit, vars
    <2> QED BY <2>1 DEF SInv, At, HelperTrusted
<1>2. CASE ReplaceHelper
    <2>1. run' = run
        BY <1>2 DEF ReplaceHelper
    <2>2. At(x, "probing")
        BY <2>1 DEF At
    <2>3. "swapped" \in mishaps'
        BY <1>2, <2>2 DEF ReplaceHelper
    <2> QED BY <2>3
<1>3. ASSUME NEW p \in Proc, Step(p)
      PROVE  HelperTrusted(run[x].after.providers[run[x].order.provider])'
    <2>1. helper' = helper /\ "swapped" \notin mishaps
        BY <1>3, HelperStays
    <2>0. PICK d : /\ Become(p, d)
                   /\ \/ d = Idle
                      \/ d.at \notin {"probing", "compare", "replace"}
                      \/ d.at = "probing" /\ Probe(p)
                      \/ /\ d.at # "probing"
                         /\ \/ ReadGate0(p) \/ ReadReady(p) \/ ReadRetrust(p)
                            \/ Compare(p) \/ Probed(p)
        BY <1>3, StepBecomes
    <2>2. Become(p, d) /\ (d = Idle \/ d.at # "probing" \/ Probe(p))
        BY <2>0
    <2>3. CASE x # p
        <3>1. run'[x] = run[x]
            BY <2>2, <2>3, OthersStay
        <3>2. At(x, "probing")
            BY <3>1 DEF At
        <3> QED BY <2>1, <3>1, <3>2 DEF SInv, HelperTrusted
    <2>4. CASE x = p
        <3>1. run'[x] = d
            BY <2>2, <2>4 DEF Become, IInv, TypeOK
        <3>2. d # Idle /\ d.at = "probing"
            BY <3>1 DEF At
        <3>3. Probe(p)
            BY <2>2, <3>2
        <3> DEFINE e == [run[p] EXCEPT !.at = "probing"]
        <3>4. /\ run[p] # Idle /\ Become(p, e)
              /\ HelperTrusted(run[p].after.providers[run[p].order.provider])
            BY <3>3 DEF Probe, At, Go
        <3>5. e.after = run[p].after /\ e.order = run[p].order
            BY <3>4, BusyIsGood DEF Command
        <3>6. run'[x] = e
            BY <2>4, <3>4 DEF Become, IInv, TypeOK
        <3> HIDE DEF e
        <3> QED BY <2>1, <3>4, <3>5, <3>6 DEF HelperTrusted
    <2> QED BY <2>3, <2>4
<1> QED BY <1>1, <1>2, <1>3 DEF Next, UserStep

\* The invariant holds at the start.
LEMMA InitHolds == Init => IInv /\ SInv
<1> SUFFICES ASSUME Init PROVE IInv /\ SInv
    OBVIOUS
<1>1. NoRegistry \in Registry /\ Good(NoRegistry, Passed)
    BY NoRegistryGood DEF Good
<1>2. NoConfig \in Config
    BY DEF NoConfig, Config
<1>3. TypeOK
    BY <1>1, <1>2 DEF Init, TypeOK
<1>4. RegistriesAreGood
    BY <1>1 DEF Init, RegistriesAreGood, TxnIsGood
<1>5. SInv
    BY DEF Init, SInv, At
<1> QED BY <1>3, <1>4, <1>5 DEF IInv

\* Every step keeps the invariant.
LEMMA NextKeeps == IInv /\ SInv /\ [Next]_vars => IInv' /\ SInv'
<1> SUFFICES ASSUME IInv, SInv, [Next]_vars PROVE IInv' /\ SInv'
    OBVIOUS
<1>0. SInv'
    BY ProbingKeeps
<1>1. CASE UserStep
    BY <1>0, <1>1, UserKeeps
<1>2. ASSUME NEW p \in Proc, Step(p) PROVE IInv'
    BY <1>2, StepKeeps
<1>3. CASE UNCHANGED vars
    <2>1. Passed' = Passed
        BY <1>3 DEF vars, Passed
    <2>2. RegistriesAreGood'
        BY <1>3, <2>1 DEF vars, IInv, RegistriesAreGood
    <2>3. TypeOK'
        BY <1>3 DEF vars, IInv, TypeOK
    <2> QED BY <1>0, <2>2, <2>3 DEF IInv
<1> QED BY <1>0, <1>1, <1>2, <1>3 DEF Next

\* The invariant holds in every reachable state.
LEMMA Invariant == Spec => []IInv
    BY InitHolds, NextKeeps, PTL DEF Spec

-----------------------------------------------------------------------------
(* The theorems. *)

\* The registry, the tables, the journal, the agent files and every command
\* keep their types.
THEOREM TypeCorrect == Spec => []TypeOK
<1>1. IInv => TypeOK
    BY DEF IInv
<1> QED BY <1>1, Invariant, PTL

\* external_registry.write_registry and the transactions never leave a registry
\* that its next reader refuses, or a staged or ready provider without a role,
\* for any number of commands, lost updates included.
THEOREM RegistryStaysSound == Spec => []RegistryIsSound
<1>1. IInv => RegistryIsSound
    BY DEF IInv, RegistriesAreGood, Good, RegistryIsSound
<1> QED BY <1>1, Invariant, PTL

\* run_gate0 and retrust_user_helper: a provider in a state that lets roles be
\* connected passed Gate 0 with the helper it trusts now, whatever ran beside
\* and whatever a recovery took back, unless the user replaced the helper while
\* the model of a Gate 0 was running.
THEOREM ProvenProvidersWereProbed == Spec => []ProvenMeansProbed
<1>1. IInv => ProvenMeansProbed
    BY DEF IInv, RegistriesAreGood, Good, Passed, ProvenMeansProbed
<1> QED BY <1>1, Invariant, PTL

\* A command that is about to launch a model either ends or compares the
\* registry with what it read and launches.
LEMMA LaunchSteps ==
    ASSUME IInv, NEW p \in Proc, Step(p), At(p, "launch"), run'[p] # Idle
    PROVE  registry = run[p].base
<1>1. run[p] # Idle /\ run[p].at = "launch"
    BY DEF At
<1>2. CASE Start(p)
    BY <1>1, <1>2 DEF Start, Busy
<1>3. CASE End(p)
    BY <1>3 DEF End, Leave, Become, IInv, TypeOK
<1>4. CASE Launch(p)
    BY <1>4 DEF Launch
<1>5. CASE \/ Stage(p) \/ Publish(p) \/ Link(p) \/ Swap(p) \/ Commit(p) \/ Raise(p)
           \/ UndoRegistry(p) \/ UndoFiles(p) \/ KeepJournal(p) \/ Recovered(p)
    BY <1>1, <1>5 DEF Stage, Publish, Link, Swap, Moved, Commit, Raise, Stages,
                      UndoRegistry, UndoFiles, KeepJournal, Reverts, Recovered, At
<1> QED BY <1>1, <1>2, <1>3, <1>4, <1>5
        DEF Step, Recover, RollBack, RolledBack, Clear, ReadPrepare,
            ReadRemove, WriteJournal, WriteTable, CheckTable, Done,
            ReadGate0, ReadConnect, ReadReady, ReadDisconnect, ReadRetrust,
            ReadInvoke, Reads, Compare, Replace, Probe, Probed, Attest, At

\* invoke_role launches a model only on a registry that still says what it
\* attested, and what it attested is ready and qualified, and passed Gate 0
\* unless the helper was replaced while the model of a Gate 0 ran it.
THEOREM LaunchAttested == Spec => LaunchIsAttested
<1>1. ASSUME IInv, [Next]_vars
      PROVE  [\A p \in Proc :
                At(p, "launch") /\ run'[p] # Idle /\ run'[p] # run[p] =>
                LET role == registry.roles[run[p].order.role]
                    record == registry.providers[role.provider]
                IN  /\ role.state = "READY"
                    /\ record.state = "READY" /\ record.qualified
                    /\ "swapped" \notin mishaps =>
                          <<role.provider, record.trust>> \in probed]_vars
    <2> SUFFICES ASSUME NEW p \in Proc, At(p, "launch"), run'[p] # Idle,
                        run'[p] # run[p]
                 PROVE  LET role == registry.roles[run[p].order.role]
                            record == registry.providers[role.provider]
                        IN  /\ role.state = "READY"
                            /\ record.state = "READY" /\ record.qualified
                            /\ "swapped" \notin mishaps =>
                                  <<role.provider, record.trust>> \in probed
        BY Zenon
    <2>1. PICK q \in Proc : Step(q)
        BY <1>1 DEF Next, UserStep, EditTable, EditAgent, ReplaceHelper, Edit, vars
    <2>2. q = p
        <3> SUFFICES ASSUME q # p PROVE FALSE
            OBVIOUS
        <3>1. \E d : Become(q, d)
            BY <1>1, <2>1, StepBecomes
        <3> QED BY <1>1, <3>1, OthersStay
    <2>3. registry = run[p].base
        BY <1>1, <2>1, <2>2, LaunchSteps
    <2>4. GoodRun(run[p], Passed)
        BY <1>1, BusyIsGood DEF At
    <2>5. Attested(run[p]) /\ Good(run[p].base, Passed)
        BY <2>4 DEF GoodRun, At
    <2> DEFINE o == run[p].order.role
               v == registry.roles[o].provider
    <2>6. /\ o \in Role /\ registry.roles[o].state = "READY"
          /\ registry.providers[v].state = "READY" /\ registry.providers[v].qualified
        BY <2>3, <2>5 DEF Attested
    <2>7. v \in Provider
        <3>1. registry \in Registry
            BY <1>1 DEF IInv, TypeOK
        <3>2. registry.roles[o] \in RoleRecord
            BY <2>6, <3>1, ConnectedHasRecord
        <3> QED BY <3>2 DEF RoleRecord
    <2>8. <<v, registry.providers[v].trust>> \in Passed
        BY <2>3, <2>5, <2>6, <2>7 DEF Good, Proven
    <2> QED BY <2>6, <2>8 DEF Passed
<1> QED BY <1>1, Invariant, PTL DEF Spec, LaunchIsAttested

\* A write of a table starts from what the command read, and it read either no
\* table or one the plugin writes.
LEMMA TableWrites ==
    ASSUME IInv, NEW p \in Proc, Step(p), NEW v \in Provider,
           config'[v] # config[v]
    PROVE  \/ config[v] = "absent" /\ config'[v] \in Auth
           \/ config[v] \in Auth /\ config'[v] = "absent"
<1>0. config \in Config
    BY DEF IInv, TypeOK
<1>1. CASE RollBack(p)
    <2>1. /\ run[p] # Idle /\ run[p].at = "roll back" /\ config = run[p].seen
          /\ config' = [config EXCEPT ![run[p].owner] = "absent"]
        BY <1>1 DEF RollBack, At
    <2>2. run[p].owner \in Provider /\ run[p].seen[run[p].owner] \in Auth
        BY <2>1, BusyIsGood DEF GoodRun
    <2> QED BY <1>0, <2>1, <2>2 DEF Config
<1>2. CASE WriteTable(p)
    <2> DEFINE w == run[p].order.provider
    <2>1. /\ run[p] # Idle /\ run[p].at = "write" /\ config = run[p].seen
          /\ config' = [config EXCEPT ![w] = Wanted(run[p])]
        BY <1>2 DEF WriteTable, At
    <2>2. Planned(run[p]) /\ w \in Provider
        BY <2>1, PlannedThere
    <2>3. v = w /\ config'[v] = Wanted(run[p])
        BY <1>0, <2>1, <2>2 DEF Config
    <2>4. \/ config[w] = "absent" /\ Wanted(run[p]) \in Auth
          \/ config[w] \in Auth /\ Wanted(run[p]) = "absent"
        BY <2>1, <2>2 DEF Planned
    <2> QED BY <2>3, <2>4
<1>3. CASE config' = config
    BY <1>3
<1>4. CASE \/ Stage(p) \/ Publish(p) \/ Link(p) \/ Swap(p) \/ Commit(p) \/ Raise(p)
           \/ UndoRegistry(p) \/ UndoFiles(p) \/ KeepJournal(p) \/ Recovered(p)
    BY <1>3, <1>4 DEF Stage, Publish, Link, Swap, Moved, Commit, Raise,
                      UndoRegistry, UndoFiles, KeepJournal, Reverts, Recovered
<1> QED BY <1>1, <1>2, <1>3, <1>4
        DEF Step, Start, End, Recover, RolledBack, Clear, ReadPrepare,
            ReadRemove, WriteJournal, CheckTable, Done, ReadGate0,
            ReadConnect, ReadReady, ReadDisconnect, ReadRetrust, ReadInvoke,
            Reads, Compare, Replace, Probe, Probed, Attest, Launch

\* No command, in a recovery of another's journal either, writes over or removes
\* a table that is not what the plugin writes.
THEOREM ForeignTablesAreKept == Spec => ForeignTableIsKept
<1>1. ASSUME IInv, [Next]_vars
      PROVE  [\A p \in Proc, v \in Provider :
                run'[p] # run[p] /\ config'[v] # config[v] =>
                \/ config[v] = "absent" /\ config'[v] \in Auth
                \/ config[v] \in Auth /\ config'[v] = "absent"]_vars
    <2> SUFFICES ASSUME NEW p \in Proc, NEW v \in Provider,
                        run'[p] # run[p], config'[v] # config[v]
                 PROVE  \/ config[v] = "absent" /\ config'[v] \in Auth
                        \/ config[v] \in Auth /\ config'[v] = "absent"
        BY Zenon
    <2>1. PICK q \in Proc : Step(q)
        BY <1>1 DEF Next, UserStep, EditTable, EditAgent, ReplaceHelper, Edit, vars
    <2> QED BY <1>1, <2>1, TableWrites
<1> QED BY <1>1, Invariant, PTL DEF Spec, ForeignTableIsKept

-----------------------------------------------------------------------------
(* The agent files.  Without a mishap the registry and the files are those    *)
(* that the stage of the transaction says; what ready, retrust and Gate 0     *)
(* will write has the files of what they compared; and the registry under a   *)
(* replacement is the one that was compared.                                  *)

\* Two registries with the same agent files.
Same(r, s) == \A o \in Role : FileOf(s, o) = FileOf(r, o)

\* The registry whose files are there, and the one that is there.
FilesThere == IF txn.stage = "staged" THEN txn.before ELSE txn.after
RegistryThere == IF txn.stage = "replaced" THEN txn.after ELSE txn.before

Undisturbed == mishaps \cap {"disturbed", "agent edit"} = {}

Following ==
    Undisturbed =>
        IF txn = NoTxn THEN \A o \in Role : agents[o] = FileOf(registry, o)
        ELSE /\ ~ txn.stale
             /\ registry = RegistryThere
             /\ \A o \in Role : agents[o] = FileOf(FilesThere, o)

Drafted(c) == c.at \in {"compare", "replace"} => Same(c.base, c.after)

Compared(c) == c.at = "replace" /\ "disturbed" \notin mishaps => registry = c.base

FInv ==
    /\ Following
    /\ \A p \in Proc : run[p] # Idle => Drafted(run[p]) /\ Compared(run[p])

\* The second invariant implies that agent files follow roles.
LEMMA FollowingFollows == FInv => AgentsFollowRoles
    BY DEF FInv, Following, Undisturbed, FilesThere, RegistryThere, AgentsFollowRoles

\* A step that writes none of the files.
LEMMA FollowingStays ==
    ASSUME FInv, UNCHANGED <<registry, agents, txn>>, mishaps \subseteq mishaps'
    PROVE  Following'
<1>1. Undisturbed' => Undisturbed
    BY DEF Undisturbed
<1> QED BY <1>1 DEF FInv, Following, FilesThere, RegistryThere

\* One process moves: what is left to show.
LEMMA FollowingMoves ==
    ASSUME IInv, FInv, NEW p \in Proc, NEW d, Become(p, d),
           \/ d = Idle
           \/ Drafted(d) /\ (d.at = "replace" => registry' = d.base),
           mishaps \subseteq mishaps',
           registry' = registry \/ Overwrites(p) \subseteq mishaps', Following'
    PROVE  FInv'
<1>1. run \in [Proc -> Command \cup {Idle}] /\ run' = [run EXCEPT ![p] = d]
    BY DEF IInv, TypeOK, Become
<1>2. ASSUME NEW x \in Proc, run'[x] # Idle
      PROVE  /\ Drafted(run'[x])
             /\ run'[x].at = "replace" /\ "disturbed" \notin mishaps'
                => registry' = run'[x].base
    <2>1. CASE x = p
        <3>1. run'[x] = d
            BY <1>1, <2>1
        <3> QED BY <1>2, <3>1
    <2>2. CASE x # p
        <3>1. run'[x] = run[x]
            BY <1>1, <2>2
        <3>2. Drafted(run[x]) /\ Compared(run[x])
            BY <1>2, <3>1 DEF FInv
        <3>3. ASSUME run[x].at = "replace", "disturbed" \notin mishaps'
              PROVE  registry' = run[x].base
            <4>1. registry = run[x].base
                BY <3>2, <3>3 DEF Compared
            <4>2. "disturbed" \in Overwrites(p)
                <5>1. At(x, "replace")
                    BY <1>2, <3>1, <3>3 DEF At
                <5> QED BY <2>2, <5>1 DEF Overwrites
            <4> QED BY <3>3, <4>1, <4>2
        <3> QED BY <3>1, <3>2, <3>3
    <2> QED BY <2>1, <2>2
<1> QED BY <1>2 DEF FInv, Compared

\* Only connect, disconnect and their recovery change the files of a registry.
LEMMA RolesStay ==
    ASSUME NEW r \in Registry, NEW v, NEW trusted
    PROVE  /\ Same(r, Authenticated(r, v))
           /\ Same(r, Qualify(r, v))
           /\ Same(r, Retrusted(r, v, trusted))
<1>1. Authenticated(r, v).roles = r.roles
    BY DEF Authenticated, Registry
<1>2. Qualify(r, v).roles = r.roles
    BY DEF Qualify, Registry
<1>3. Retrusted(r, v, trusted).roles = r.roles
    BY DEF Retrusted, Registry
<1> QED BY <1>1, <1>2, <1>3 DEF Same, FileOf

\* Making a role ready leaves every role with its file.
LEMMA ReadyRolesStay ==
    ASSUME NEW r \in Registry, NEW o \in Role, r.roles[o] \in RoleRecord
    PROVE  Same(r, MadeReady(r, o))
<1> DEFINE role == [r.roles[o] EXCEPT !.state = "READY"]
<1>1. MadeReady(r, o).roles = [r.roles EXCEPT ![o] = role]
    BY DEF MadeReady, Registry
<1>2. /\ role.provider = r.roles[o].provider
      /\ role.state = "READY" /\ r.roles[o].state # "UNCONFIGURED"
    BY DEF RoleRecord
<1>3. role # Unconnected /\ r.roles[o] # Unconnected
    BY <1>2 DEF Unconnected
<1> HIDE DEF role
<1> QED BY <1>1, <1>2, <1>3 DEF Same, Registry, FileOf

-----------------------------------------------------------------------------
(* The files, step by step. *)

\* What a step that keeps no mishap quiet does to the files.
LEMMA EngineFollows ==
    ASSUME IInv, FInv, NEW p \in Proc,
           \/ Stage(p) \/ Publish(p) \/ Link(p) \/ Swap(p) \/ Commit(p)
           \/ UndoRegistry(p) \/ UndoFiles(p) \/ KeepJournal(p)
    PROVE  Following' /\ (registry' = registry \/ Overwrites(p) \subseteq mishaps')
<1>1. mishaps \subseteq mishaps'
    BY DEF Stage, Publish, Link, Swap, Commit, UndoRegistry, UndoFiles, KeepJournal
<1>2. registry' = registry \/ Overwrites(p) \subseteq mishaps'
    BY DEF Stage, Publish, Link, Swap, Commit, UndoRegistry, UndoFiles, KeepJournal
<1> SUFFICES ASSUME Undisturbed'
             PROVE  IF txn' = NoTxn THEN \A o \in Role : agents'[o] = FileOf(registry', o)
                    ELSE /\ ~ txn'.stale
                         /\ registry' = RegistryThere'
                         /\ \A o \in Role : agents'[o] = FileOf(FilesThere', o)
    BY <1>2 DEF Following
<1>3. Undisturbed
    BY <1>1 DEF Undisturbed
<1>4. txn = NoTxn => \A o \in Role : agents[o] = FileOf(registry, o)
    BY <1>3 DEF FInv, Following
<1>5. txn # NoTxn => /\ txn \in Txn /\ ~ txn.stale
                     /\ registry = RegistryThere
                     /\ \A o \in Role : agents[o] = FileOf(FilesThere, o)
    BY <1>3, TxnHasGood DEF FInv, Following
<1>6. \A t \in Txn : t # NoTxn
    BY TxnIsSome
<1>7. \A r, s : \A o \in Role : o \notin Touched(r, s) => FileOf(r, o) = FileOf(s, o)
    BY DEF Touched
<1>8. CASE Stage(p)
    <2> DEFINE t == [stage |-> "staged", before |-> run[p].base,
                     after |-> run[p].after, stale |-> FALSE]
    <2>1. /\ txn = NoTxn /\ txn' = t /\ registry = run[p].base
          /\ UNCHANGED <<registry, agents>> /\ run[p] # Idle
        BY <1>8 DEF Stage, At
    <2>2. t # NoTxn /\ t.stage = "staged" /\ t.before = run[p].base /\ t.stale = FALSE
        <3>1. "before" \in DOMAIN t /\ "before" \notin DOMAIN NoTxn
            BY DEF NoTxn
        <3> QED BY <3>1
    <2> HIDE DEF t
    <2> QED BY <2>1, <2>2, <1>4 DEF FilesThere, RegistryThere
<1>9. CASE Publish(p)
    <2> DEFINE t == [txn EXCEPT !.stage = "published"]
               touched == Touched(txn.before, txn.after)
    <2>1. /\ txn # NoTxn /\ txn.stage = "staged" /\ txn' = t /\ UNCHANGED registry
          /\ agents' = [o \in Role |-> IF o \in touched THEN FileOf(txn.after, o)
                                       ELSE agents[o]]
        BY <1>9 DEF Publish, Moved
    <2>2. /\ t \in Txn /\ t.stage = "published" /\ t.before = txn.before
          /\ t.after = txn.after /\ t.stale = txn.stale
        BY <2>1, <1>5, TxnGoes DEF Stages
    <2> HIDE DEF t
    <2>3. ASSUME NEW o \in Role PROVE agents'[o] = FileOf(txn.after, o)
        <3>1. agents[o] = FileOf(txn.before, o)
            BY <1>5, <2>1 DEF FilesThere
        <3>2. o \notin touched => FileOf(txn.before, o) = FileOf(txn.after, o)
            BY <1>7
        <3> HIDE DEF touched
        <3> QED BY <2>1, <3>1, <3>2
    <2>4. registry = txn.before
        BY <1>5, <2>1 DEF RegistryThere
    <2> QED BY <2>1, <2>2, <2>3, <2>4, <1>5, <1>6 DEF FilesThere, RegistryThere
<1>10. CASE Link(p)
    <2> DEFINE t == [txn EXCEPT !.stage = "linked"]
    <2>1. /\ txn # NoTxn /\ txn.stage = "published" /\ txn' = t
          /\ UNCHANGED <<registry, agents>>
        BY <1>10 DEF Link, Moved
    <2>2. /\ t \in Txn /\ t.stage = "linked" /\ t.before = txn.before
          /\ t.after = txn.after /\ t.stale = txn.stale
        BY <2>1, <1>5, TxnGoes DEF Stages
    <2> HIDE DEF t
    <2>3. registry = txn.before /\ \A o \in Role : agents[o] = FileOf(txn.after, o)
        BY <1>5, <2>1 DEF FilesThere, RegistryThere
    <2> QED BY <2>1, <2>2, <2>3, <1>5, <1>6 DEF FilesThere, RegistryThere
<1>11. CASE Swap(p)
    <2> DEFINE t == [txn EXCEPT !.stage = "replaced", !.stale = FALSE]
    <2>1. /\ txn # NoTxn /\ txn.stage = "linked" /\ txn' = t
          /\ registry' = txn.after /\ UNCHANGED agents
        BY <1>11 DEF Swap, Moved
    <2>2. /\ t \in Txn /\ t.stage = "replaced" /\ t.before = txn.before
          /\ t.after = txn.after /\ t.stale = FALSE
        BY <2>1, <1>5, TxnGoes DEF Stages
    <2> HIDE DEF t
    <2>3. \A o \in Role : agents[o] = FileOf(txn.after, o)
        BY <1>5, <2>1 DEF FilesThere
    <2> QED BY <2>1, <2>2, <2>3, <1>6 DEF FilesThere, RegistryThere
<1>12. CASE Commit(p)
    <2>1. /\ txn # NoTxn /\ txn.stage = "replaced" /\ txn' = NoTxn
          /\ UNCHANGED <<registry, agents>>
        BY <1>12 DEF Commit
    <2> QED BY <2>1, <1>5 DEF FilesThere, RegistryThere
<1>13. CASE UndoRegistry(p)
    <2> DEFINE t == [txn EXCEPT !.stage = "published"]
    <2>1. /\ txn # NoTxn /\ txn.stage \in {"linked", "replaced"} /\ txn' = t
          /\ registry' = txn.before /\ UNCHANGED agents
        BY <1>13 DEF UndoRegistry, Reverts
    <2>2. /\ t \in Txn /\ t.stage = "published" /\ t.before = txn.before
          /\ t.after = txn.after /\ t.stale = txn.stale
        BY <2>1, <1>5, TxnGoes DEF Stages
    <2> HIDE DEF t
    <2>3. \A o \in Role : agents[o] = FileOf(txn.after, o)
        BY <1>5, <2>1 DEF FilesThere
    <2> QED BY <2>1, <2>2, <2>3, <1>5, <1>6 DEF FilesThere, RegistryThere
<1>14. CASE UndoFiles(p)
    <2> DEFINE touched == Touched(txn.before, txn.after)
    <2>1. /\ txn # NoTxn /\ txn.stage \in {"staged", "published"}
          /\ txn' = NoTxn /\ UNCHANGED registry
          /\ agents' = [o \in Role |-> IF o \in touched THEN FileOf(txn.before, o)
                                       ELSE agents[o]]
        BY <1>14 DEF UndoFiles, RestoreFiles, Reverts
    <2>2. registry = txn.before
        BY <1>5, <2>1 DEF RegistryThere
    <2>3. ASSUME NEW o \in Role PROVE agents'[o] = FileOf(txn.before, o)
        <3>1. agents[o] \in {FileOf(txn.before, o), FileOf(txn.after, o)}
            BY <1>5, <2>1 DEF FilesThere
        <3>2. o \notin touched => FileOf(txn.before, o) = FileOf(txn.after, o)
            BY <1>7
        <3> HIDE DEF touched
        <3> QED BY <2>1, <3>1, <3>2
    <2> QED BY <2>1, <2>2, <2>3
<1>15. CASE KeepJournal(p)
    BY <1>5, <1>15 DEF KeepJournal, Reverts
<1> QED BY <1>8, <1>9, <1>10, <1>11, <1>12, <1>13, <1>14, <1>15

\* A replacement writes a registry with the files of the one it replaces, which
\* is no transaction's, or that is noted.
LEMMA ReplaceFollows ==
    ASSUME IInv, FInv, NEW p \in Proc, Replace(p)
    PROVE  Following' /\ (registry' = registry \/ Overwrites(p) \subseteq mishaps')
<1>0. /\ run[p] # Idle /\ run[p].at = "replace" /\ registry' = run[p].after
      /\ mishaps \subseteq mishaps' /\ Overwrites(p) \subseteq mishaps'
      /\ UNCHANGED agents
      /\ txn # NoTxn => "disturbed" \in mishaps'
      /\ txn = NoTxn => txn' = NoTxn
    BY DEF Replace, At
<1>1. Drafted(run[p]) /\ Compared(run[p])
    BY <1>0 DEF FInv
<1>2. ASSUME Undisturbed'
      PROVE  txn' = NoTxn /\ \A o \in Role : agents'[o] = FileOf(registry', o)
    <2>1. Undisturbed /\ "disturbed" \notin mishaps /\ txn = NoTxn
        BY <1>0, <1>2 DEF Undisturbed
    <2>2. \A o \in Role : agents[o] = FileOf(registry, o)
        BY <2>1 DEF FInv, Following
    <2>3. registry = run[p].base /\ Same(run[p].base, run[p].after)
        BY <1>0, <1>1, <2>1 DEF Compared, Drafted
    <2> QED BY <1>0, <2>1, <2>2, <2>3 DEF Same
<1> QED BY <1>0, <1>2 DEF Following

\* Every step keeps the files and the registry together, or it is noted.
LEMMA StepFollows ==
    ASSUME IInv, FInv, NEW p \in Proc, Step(p)
    PROVE  Following' /\ (registry' = registry \/ Overwrites(p) \subseteq mishaps')
<1>0. mishaps \subseteq mishaps'
    BY HelperStays
<1>1. CASE UNCHANGED <<registry, agents, txn>>
    BY <1>0, <1>1, FollowingStays
<1>2. CASE \/ Stage(p) \/ Publish(p) \/ Link(p) \/ Swap(p) \/ Commit(p)
           \/ UndoRegistry(p) \/ UndoFiles(p) \/ KeepJournal(p)
    BY <1>2, EngineFollows
<1>3. CASE Replace(p)
    BY <1>3, ReplaceFollows
<1>4. CASE \/ Start(p) \/ End(p) \/ Recover(p) \/ RollBack(p) \/ RolledBack(p)
           \/ Clear(p) \/ Raise(p) \/ Recovered(p)
    BY <1>1, <1>4 DEF Start, End, Recover, RollBack, RolledBack, Clear, Raise, Recovered
<1>5. CASE \/ ReadPrepare(p) \/ ReadRemove(p) \/ WriteJournal(p) \/ WriteTable(p)
           \/ CheckTable(p) \/ Done(p)
    BY <1>1, <1>5 DEF ReadPrepare, ReadRemove, WriteJournal, WriteTable, CheckTable, Done
<1>6. CASE \/ ReadGate0(p) \/ ReadConnect(p) \/ ReadReady(p)
           \/ ReadDisconnect(p) \/ ReadRetrust(p) \/ ReadInvoke(p)
    BY <1>1, <1>6 DEF ReadGate0, ReadConnect, ReadReady, ReadDisconnect,
                      ReadRetrust, ReadInvoke, Reads
<1>7. CASE Compare(p) \/ Probe(p) \/ Probed(p) \/ Attest(p) \/ Launch(p)
    BY <1>1, <1>7 DEF Compare, Probe, Probed, Attest, Launch
<1> QED BY <1>2, <1>3, <1>4, <1>5, <1>6, <1>7 DEF Step

-----------------------------------------------------------------------------
(* What is drafted and compared. *)

\* A command that read the registry goes on to compare a draft with its files.
LEMMA DraftFollows ==
    ASSUME IInv, FInv, NEW p \in Proc, run[p] # Idle, NEW after,
           Draft(p, "compare", after), Same(registry, after), Following',
           mishaps \subseteq mishaps', registry' = registry
    PROVE  FInv'
<1> DEFINE d == [run[p] EXCEPT !.at = "compare", !.base = registry, !.after = after]
<1>1. Become(p, d)
    BY DEF Draft
<1>2. /\ d.at = "compare" /\ d.base = registry /\ d.after = after
    BY BusyIsGood DEF Command
<1> HIDE DEF d
<1>3. Drafted(d) /\ d.at # "replace"
    BY <1>2 DEF Drafted
<1> QED BY <1>1, <1>3, FollowingMoves

\* The commands that come to a comparison, and the comparison.
LEMMA DraftSteps ==
    ASSUME IInv, FInv, NEW p \in Proc, Following', mishaps \subseteq mishaps',
           \/ ReadGate0(p) \/ ReadReady(p) \/ ReadRetrust(p) \/ Compare(p) \/ Probed(p)
    PROVE  FInv'
<1> DEFINE v == run[p].order.provider
           o == run[p].order.role
<1>1. CASE ReadGate0(p)
    <2>1. Reads(p, "gate0") /\ Draft(p, "compare", Authenticated(registry, v))
        BY <1>1 DEF ReadGate0
    <2>2. Same(registry, Authenticated(registry, v))
        BY <2>1, ReadsAreGood, RolesStay
    <2> QED BY <2>1, <2>2, ReadsAreGood, DraftFollows
<1>2. CASE ReadReady(p)
    <2>1. /\ Reads(p, "ready") /\ Draft(p, "compare", MadeReady(registry, o))
          /\ registry.roles[o].state = "RESTART_REQUIRED"
        BY <1>2 DEF ReadReady, ReadyAccepts
    <2>2. o \in Role /\ registry \in Registry
        BY <2>1, ReadsAreGood, OrderNames
    <2>3. registry.roles[o] \in RoleRecord
        BY <2>1, <2>2, ConnectedHasRecord
    <2>4. Same(registry, MadeReady(registry, o))
        BY <2>2, <2>3, ReadyRolesStay
    <2> QED BY <2>1, <2>4, ReadsAreGood, DraftFollows
<1>3. CASE ReadRetrust(p)
    <2>1. Reads(p, "retrust") /\ Draft(p, "compare", Retrusted(registry, v, helper))
        BY <1>3 DEF ReadRetrust
    <2>2. Same(registry, Retrusted(registry, v, helper))
        BY <2>1, ReadsAreGood, RolesStay
    <2> QED BY <2>1, <2>2, ReadsAreGood, DraftFollows
<1>4. CASE Compare(p)
    <2> DEFINE d == [run[p] EXCEPT !.at = "replace"]
    <2>0. /\ run[p] # Idle /\ run[p].at = "compare" /\ registry = run[p].base
          /\ UNCHANGED registry /\ Become(p, d)
        BY <1>4 DEF Compare, At, Go
    <2>1. run[p] \in Command /\ Drafted(run[p])
        BY <2>0, BusyIsGood DEF FInv
    <2>2. d.at = "replace" /\ d.base = run[p].base /\ d.after = run[p].after
        BY <2>1 DEF Command
    <2> HIDE DEF d
    <2>3. Drafted(d) /\ registry' = d.base
        BY <2>0, <2>1, <2>2 DEF Drafted
    <2> QED BY <2>0, <2>3, FollowingMoves
<1>5. CASE Probed(p)
    <2> DEFINE after == Qualify(run[p].after, v)
               d == [run[p] EXCEPT !.at = "compare", !.base = run[p].after,
                                   !.after = after]
    <2>0. run[p] # Idle /\ Become(p, d) /\ UNCHANGED registry
        BY <1>5 DEF Probed, At
    <2>1. run[p] \in Command /\ run[p].after \in Registry
        BY <2>0, BusyIsGood DEF Command
    <2>2. Same(run[p].after, after)
        BY <2>1, RolesStay
    <2> HIDE DEF after
    <2>3. d.at = "compare" /\ d.base = run[p].after /\ d.after = after
        BY <2>1 DEF Command
    <2> HIDE DEF d
    <2>4. Drafted(d) /\ d.at # "replace"
        BY <2>2, <2>3 DEF Drafted
    <2> QED BY <2>0, <2>4, FollowingMoves
<1> QED BY <1>1, <1>2, <1>3, <1>4, <1>5

\* An edit of an agent file is noted.
LEMMA UserFollows ==
    ASSUME FInv, UserStep PROVE FInv'
<1>1. /\ UNCHANGED <<registry, txn, run>> /\ mishaps \subseteq mishaps'
      /\ agents' = agents \/ "agent edit" \in mishaps'
    BY DEF UserStep, EditTable, EditAgent, ReplaceHelper, Edit
<1>2. Following'
    <2>1. CASE agents' = agents
        BY <1>1, <2>1, FollowingStays
    <2>2. CASE "agent edit" \in mishaps'
        BY <2>2 DEF Following, Undisturbed
    <2> QED BY <1>1, <2>1, <2>2
<1> QED BY <1>1, <1>2 DEF FInv, Compared

\* Every step keeps the second invariant.
LEMMA NextFollows == IInv /\ FInv /\ [Next]_vars => FInv'
<1> SUFFICES ASSUME IInv, FInv, [Next]_vars PROVE FInv'
    OBVIOUS
<1>1. CASE UserStep
    BY <1>1, UserFollows
<1>2. ASSUME NEW p \in Proc, Step(p) PROVE FInv'
    <2>1. /\ Following' /\ mishaps \subseteq mishaps'
          /\ registry' = registry \/ Overwrites(p) \subseteq mishaps'
        BY <1>2, StepFollows, HelperStays
    <2>2. PICK d : /\ Become(p, d)
                   /\ \/ d = Idle
                      \/ d.at \notin {"probing", "compare", "replace"}
                      \/ d.at = "probing" /\ Probe(p)
                      \/ /\ d.at # "probing"
                         /\ \/ ReadGate0(p) \/ ReadReady(p) \/ ReadRetrust(p)
                            \/ Compare(p) \/ Probed(p)
        BY <1>2, StepBecomes
    <2>3. CASE \/ ReadGate0(p) \/ ReadReady(p) \/ ReadRetrust(p) \/ Compare(p)
               \/ Probed(p)
        BY <2>1, <2>3, DraftSteps
    <2>4. CASE d = Idle \/ d.at \notin {"compare", "replace"}
        <3>1. d = Idle \/ (Drafted(d) /\ (d.at = "replace" => registry' = d.base))
            BY <2>4 DEF Drafted
        <3> QED BY <2>1, <2>2, <3>1, FollowingMoves
    <2> QED BY <2>2, <2>3, <2>4
<1>3. CASE UNCHANGED vars
    BY <1>3 DEF vars, FInv, Following, Undisturbed, FilesThere, RegistryThere, Compared
<1> QED BY <1>1, <1>2, <1>3 DEF Next

\* The second invariant holds at the start.
LEMMA InitFollows == Init => FInv
    BY DEF Init, FInv, Following, NoRegistry, FileOf

\* connect_role and disconnect_role keep the files of a role and its record
\* together, wherever their transaction is cut off and whoever recovers it, and
\* no other command parts them, for any number of commands; if no update is
\* lost, no registry that was not committed is recovered on or written over, no
\* running transaction is recovered and the user edits no agent file.
THEOREM AgentsAlwaysFollow == Spec => []AgentsFollowRoles
<1>1. Spec => [](IInv /\ SInv /\ FInv)
    <2>1. Init => IInv /\ SInv /\ FInv
        BY InitHolds, InitFollows
    <2>2. IInv /\ SInv /\ FInv /\ [Next]_vars => (IInv /\ SInv /\ FInv)'
        BY NextKeeps, NextFollows
    <2> QED BY <2>1, <2>2, PTL DEF Spec
<1> QED BY <1>1, FollowingFollows, PTL

=============================================================================
