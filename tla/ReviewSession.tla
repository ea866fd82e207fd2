---------------------------- MODULE ReviewSession ----------------------------
(***************************************************************************)
(* The bounded plan review of fable_advisor_mcp.py.  A caller sends a plan *)
(* round by round to one server process, which serves one request at a     *)
(* time: it checks the request against what it stored of the session,      *)
(* reserves an attempt, calls the model, checks the answer and commits the *)
(* round, or loses the attempt.  Sessions live in the memory of the server *)
(* and a restart forgets all of them.                                      *)
(*                                                                         *)
(* A hash of a result is a number never issued before, the hash of a       *)
(* request is the request.  The length of a request is the length of its   *)
(* scope, its plan and its ledger.                                         *)
(***************************************************************************)
EXTENDS Integers, Sequences, FiniteSets

CONSTANTS
    Session,        \* identifiers a caller may choose for its sessions
    Scope,          \* hashes of immutable scopes
    Finding,        \* identifiers of findings
    Size,           \* lengths of a plan
    MaxRaise,       \* bound: how far a caller raises the plan version at once
    MaxIssued,      \* bound: attestations issued over all restarts
    MaxSessions, MaxRounds, MaxAttempts, MaxFindingIds, MaxInput,
    ScopeLength,    \* length of a scope in a request
    EntryLength     \* length of a ledger entry

ASSUME SizesAreLengths == Size \subseteq Nat \ {0}
ASSUME BoundsAreNumbers ==
    /\ {MaxRaise, MaxRounds, MaxAttempts} \subseteq Nat \ {0}
    /\ {MaxSessions, MaxFindingIds, MaxInput, MaxIssued} \subseteq Nat
    /\ {ScopeLength, EntryLength} \subseteq Nat
ASSUME FindingsAreFinite == IsFiniteSet(Finding)
ASSUME SessionsAreFinite == IsFiniteSet(Session)

VARIABLES
    sessions,       \* _REVIEW_SESSIONS: a function from the stored identifiers
    call,           \* the request whose model call is running, if any
    issued,         \* attestations issued so far
    chain,          \* history: the accepted rounds of each session
    launched        \* history: the requests whose model call was launched

vars == <<sessions, call, issued, chain, launched>>

NoToken == 0        \* the empty predecessor hash
Signal == {"PLAN_APPROVED", "PLAN_REVISE"}

Request ==
    [session : Session, round : 1 .. MaxRounds, prev : Nat, scope : Scope,
     version : Nat \ {0}, size : Size, authorized : BOOLEAN,
     ledger : SUBSET Finding]

Result ==
    [signal : Signal, blocking : SUBSET Finding, others : SUBSET Finding,
     closed : BOOLEAN]

Entry ==
    [request : Request, signal : Signal, blocking : SUBSET Finding,
     ids : SUBSET Finding, token : Nat]

SessionState ==
    [round : 0 .. MaxRounds, version : Nat, prev : Nat, terminal : BOOLEAN,
     scope : Scope, size : Nat, blocking : SUBSET Finding,
     all : SUBSET Finding, nonconv : Nat, attempts : 0 .. MaxAttempts,
     pending : SUBSET Request]

TypeOK ==
    /\ DOMAIN sessions \subseteq Session
    /\ sessions = [s \in DOMAIN sessions |-> sessions[s]]
    /\ \A s \in DOMAIN sessions : sessions[s] \in SessionState
    /\ call \subseteq Request
    /\ issued \in Nat
    /\ chain \in [Session -> Seq(Entry)]
    /\ launched \in [Session -> Seq(Request)]

Init ==
    /\ sessions = [s \in {} |-> 0]
    /\ call = {}
    /\ issued = 0
    /\ chain = [s \in Session |-> <<>>]
    /\ launched = [s \in Session |-> <<>>]

-----------------------------------------------------------------------------
(* The checks on a request and the reservation of an attempt. *)

Opened(scope) ==
    [round |-> 0, version |-> 0, prev |-> NoToken, terminal |-> FALSE,
     scope |-> scope, size |-> 0, blocking |-> {}, all |-> {}, nonconv |-> 0,
     attempts |-> 0, pending |-> {}]

Stored(s, scope) == IF s \in DOMAIN sessions THEN sessions[s] ELSE Opened(scope)

Put(s, state) ==
    [t \in DOMAIN sessions \cup {s} |-> IF t = s THEN state ELSE sessions[t]]

Length(r) == ScopeLength + r.size + EntryLength * Cardinality(r.ledger)

WellFormed(r) ==
    /\ r.round \in 1 .. MaxRounds
    /\ Cardinality(r.ledger) <= MaxFindingIds
    /\ Length(r) <= MaxInput

BugOpens(s, prev, ledger) ==  \* forgets the capacity
    /\ prev = NoToken
    /\ ledger = {}
    /\ s \in DOMAIN sessions => sessions[s].round = 0

Opens(s, prev, ledger) ==
    /\ prev = NoToken
    /\ ledger = {}
    /\ IF s \in DOMAIN sessions THEN sessions[s].round = 0
                                ELSE Cardinality(DOMAIN sessions) < MaxSessions

Follows(s, n, prev, scope, ledger) ==
    /\ s \in DOMAIN sessions
    /\ n = sessions[s].round + 1
    /\ prev = sessions[s].prev
    /\ scope = sessions[s].scope
    /\ ledger = sessions[s].all

BugLinked(s, n, prev, scope, ledger) ==  \* forgets the verdict
    IF n = 1 THEN Opens(s, prev, ledger)
             ELSE Follows(s, n, prev, scope, ledger)

\* The place of a request in its session; the version is checked on its own.
Linked(s, n, prev, scope, ledger) ==
    /\ ~ Stored(s, scope).terminal
    /\ IF n = 1 THEN Opens(s, prev, ledger)
                ELSE Follows(s, n, prev, scope, ledger)

Newer(r) == r.round > 1 => r.version > sessions[r.session].version

BugReplayed(r) ==  \* compares the round only
    \A p \in Stored(r.session, r.scope).pending : p.round = r.round

Replayed(r) == Stored(r.session, r.scope).pending \subseteq {r}

HasBudget(s, scope) == Stored(s, scope).attempts < MaxAttempts

Launch(r) ==
    /\ Replayed(r)
    /\ sessions' = Put(r.session,
          [Stored(r.session, r.scope) EXCEPT !.pending = {r}, !.attempts = @ + 1])
    /\ call' = {r}
    /\ launched' = [launched EXCEPT ![r.session] = Append(@, r)]

\* The budget is checked after the place of the request and before the replay.
Reserve(r) ==
    /\ Linked(r.session, r.round, r.prev, r.scope, r.ledger)
    /\ WellFormed(r)
    /\ Newer(r)
    /\ IF HasBudget(r.session, r.scope)
       THEN Launch(r)
       ELSE /\ sessions' = Put(r.session,
                  [Stored(r.session, r.scope) EXCEPT !.terminal = TRUE])
            /\ UNCHANGED <<call, launched>>
    /\ UNCHANGED <<issued, chain>>

Submit ==
    /\ call = {}
    /\ \E s \in Session, n \in 1 .. MaxRounds, prev \in 0 .. issued,
          scope \in Scope, ledger \in SUBSET Finding :
          /\ Linked(s, n, prev, scope, ledger)
          /\ \E version \in 1 .. Stored(s, scope).version + MaxRaise,
                size \in Size, authorized \in BOOLEAN :
                Reserve([session |-> s, round |-> n, prev |-> prev, scope |-> scope,
                         version |-> version, size |-> size,
                         authorized |-> authorized, ledger |-> ledger])

-----------------------------------------------------------------------------
(* The answer of the model. *)

BugFail(r) ==  \* leaves a spent session open
    /\ call' = {}
    /\ UNCHANGED <<sessions, issued, chain, launched>>

\* The call failed, or its answer was refused.
Fail(r) ==
    /\ call' = {}
    /\ sessions' = [sessions EXCEPT ![r.session].terminal =
                       sessions[r.session].attempts >= MaxAttempts]
    /\ UNCHANGED <<issued, chain, launched>>

Reported(res) == res.blocking \cup res.others

Valid(r, res) ==
    /\ res.blocking \cap res.others = {}
    /\ Cardinality(sessions[r.session].all \cup Reported(res)) <= MaxFindingIds
    /\ res.signal = "PLAN_REVISE" => res.blocking # {}
    /\ res.signal = "PLAN_APPROVED" => res.blocking = {} /\ res.closed

\* At least four fifths of the earlier blockers are closed, yet new ones appear.
Churns(before, now) ==
    /\ before # {}
    /\ now \ before # {}
    /\ 5 * Cardinality(before \ now) >= 4 * Cardinality(before)

\* A plan that grew by more than a quarter.
Grows(before, now) == before > 0 /\ 4 * now > 5 * before

BugNonConverging(r, res) ==  \* starts counting afresh
    IF Churns(sessions[r.session].blocking, res.blocking) THEN 1 ELSE 0

NonConverging(r, res) ==
    IF Churns(sessions[r.session].blocking, res.blocking)
    THEN sessions[r.session].nonconv + 1
    ELSE 0

Stops(r, res) ==
    \/ res.signal = "PLAN_APPROVED"
    \/ NonConverging(r, res) >= 2
    \/ /\ Grows(sessions[r.session].size, r.size)
       /\ res.blocking \ sessions[r.session].blocking # {}
       /\ ~ r.authorized
    \/ r.round = MaxRounds
    \/ sessions[r.session].attempts = MaxAttempts

BugCommitted(r, res) ==  \* counts the attempt twice
    [round |-> r.round, version |-> r.version, prev |-> issued + 1,
     terminal |-> Stops(r, res), scope |-> r.scope, size |-> r.size,
     blocking |-> res.blocking,
     all |-> sessions[r.session].all \cup Reported(res),
     nonconv |-> NonConverging(r, res),
     attempts |-> sessions[r.session].attempts + 1, pending |-> {}]

BugForgetful(r, res) ==  \* keeps the last findings only
    [round |-> r.round, version |-> r.version, prev |-> issued + 1,
     terminal |-> Stops(r, res), scope |-> r.scope, size |-> r.size,
     blocking |-> res.blocking,
     all |-> Reported(res),
     nonconv |-> NonConverging(r, res),
     attempts |-> sessions[r.session].attempts, pending |-> {}]

Committed(r, res) ==
    [round |-> r.round, version |-> r.version, prev |-> issued + 1,
     terminal |-> Stops(r, res), scope |-> r.scope, size |-> r.size,
     blocking |-> res.blocking,
     all |-> sessions[r.session].all \cup Reported(res),
     nonconv |-> NonConverging(r, res),
     attempts |-> sessions[r.session].attempts, pending |-> {}]

Commit(r, res) ==
    /\ issued < MaxIssued
    /\ Valid(r, res)
    /\ call' = {}
    /\ issued' = issued + 1
    /\ sessions' = [sessions EXCEPT ![r.session] = Committed(r, res)]
    /\ chain' = [chain EXCEPT ![r.session] = Append(@,
          [request |-> r, signal |-> res.signal, blocking |-> res.blocking,
           ids |-> Reported(res), token |-> issued + 1])]
    /\ UNCHANGED launched

\* The process ends, at any point, and another one starts.
Restart ==
    /\ sessions' = [s \in {} |-> 0]
    /\ call' = {}
    /\ chain' = [s \in Session |-> <<>>]
    /\ launched' = [s \in Session |-> <<>>]
    /\ UNCHANGED issued

Next ==
    \/ Submit
    \/ \E r \in call : Fail(r)
    \/ \E r \in call : \E res \in Result : Commit(r, res)
    \/ Restart

Spec == Init /\ [][Next]_vars

-----------------------------------------------------------------------------
(* Properties *)

\* Everything reported in the rounds of c before round i.
Earlier(c, i) == UNION {c[j].ids : j \in 1 .. i - 1}

\* What round i of the chain c of session s is to its predecessor.
LinkAt(s, c, i) ==
    LET r == c[i].request
    IN /\ r.session = s
       /\ r.round = i
       /\ r.ledger = Earlier(c, i)
       /\ r.prev = IF i = 1 THEN NoToken ELSE c[i - 1].token
       /\ i > 1 => /\ r.scope = c[i - 1].request.scope
                   /\ r.version > c[i - 1].request.version

\* Accepted rounds form one chain: round i is the i-th, names the attestation of
\* its predecessor, keeps its scope, raises its plan version and accounts for
\* every finding reported before it, whatever failed in between.
Chained ==
    \A s \in Session : \A i \in 1 .. Len(chain[s]) : LinkAt(s, chain[s], i)

\* The launches l in which the requests of one round are all the same, and no
\* later round precedes an earlier one.
OneRequestPerRound(l) ==
    \A i, j \in 1 .. Len(l) :
        /\ l[i].round = l[j].round => l[i] = l[j]
        /\ i <= j => l[i].round <= l[j].round

\* A round that failed may only be tried again with the very same request, so
\* the model sees one request per round, round after round.
Replays == \A s \in Session : OneRequestPerRound(launched[s])

\* What one server process keeps and starts is bounded, failures included.
Bounded ==
    /\ Cardinality(DOMAIN sessions) <= MaxSessions
    /\ \A s \in Session : Len(launched[s]) <= MaxAttempts
    /\ \A s \in DOMAIN sessions : Cardinality(sessions[s].all) <= MaxFindingIds

\* The verdict of round i of a chain, recomputed from the accepted rounds.
ChurnsAt(c, i) == i > 1 /\ Churns(c[i - 1].blocking, c[i].blocking)

EndsAt(c, i) ==
    \/ c[i].signal = "PLAN_APPROVED"
    \/ ChurnsAt(c, i) /\ ChurnsAt(c, i - 1)
    \/ /\ i > 1
       /\ Grows(c[i - 1].request.size, c[i].request.size)
       /\ c[i].blocking \ c[i - 1].blocking # {}
       /\ ~ c[i].request.authorized
    \/ i = MaxRounds

\* A verdict is final on the chain c: no round that ends a session has a successor.
NoneAfterEnd(c) == \A i \in 1 .. Len(c) - 1 : ~ EndsAt(c, i)

\* A session is over exactly when its last accepted round ends it or its
\* attempts are spent; no accepted round that ends a session has a successor.
Halts ==
    \A s \in DOMAIN sessions :
        LET c == chain[s]
        IN /\ NoneAfterEnd(c)
           /\ sessions[s].terminal <=>
                 \/ c # <<>> /\ EndsAt(c, Len(c))
                 \/ Len(launched[s]) = MaxAttempts /\ \A r \in call : r.session # s

\* The replay of a failed round, or the shortest honest request of a next one.
NextRequests(s) ==
    IF sessions[s].pending # {} THEN sessions[s].pending
    ELSE {[session |-> s, round |-> sessions[s].round + 1, prev |-> sessions[s].prev,
           scope |-> sessions[s].scope, version |-> sessions[s].version + 1,
           size |-> size, authorized |-> FALSE, ledger |-> sessions[s].all]
              : size \in Size}

Acceptable(r) ==
    /\ Linked(r.session, r.round, r.prev, r.scope, r.ledger)
    /\ WellFormed(r)
    /\ Newer(r)
    /\ HasBudget(r.session, r.scope)
    /\ Replayed(r)

\* A session that is not over can go on: some next request is accepted.
NeverStuck ==
    \A s \in DOMAIN sessions :
        call = {} /\ ~ sessions[s].terminal => \E r \in NextRequests(s) : Acceptable(r)

\* Nothing moves a session that is over, short of a restart.
Over ==
    \A s \in DOMAIN sessions :
        sessions[s].terminal =>
            /\ s \in DOMAIN sessions'
            /\ sessions'[s] = sessions[s]
            /\ launched'[s] = launched[s]
            /\ chain'[s] = chain[s]

Final == [][Over \/ Restart]_vars

=============================================================================
