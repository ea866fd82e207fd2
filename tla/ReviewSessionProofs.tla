------------------------- MODULE ReviewSessionProofs -------------------------
(***************************************************************************)
(* Proofs about ReviewSession, for every number of sessions, findings,     *)
(* rounds and attempts.  The inductive invariant says of each session how  *)
(* what the server stored summarises the accepted rounds and the launched  *)
(* requests; a step of Next changes one session, or forgets all of them.   *)
(***************************************************************************)
EXTENDS ReviewSession, FiniteSetTheorems, TLAPS

\* What the server stored, st, summarises the accepted rounds c.
Summary(st, c) ==
    /\ st.round = Len(c)
    /\ st.all = Earlier(c, Len(c) + 1)
    /\ c = <<>> => /\ st.prev = NoToken
                   /\ st.size = 0
                   /\ st.blocking = {}
    /\ c # <<>> => /\ st.prev = c[Len(c)].token
                   /\ st.version = c[Len(c)].request.version
                   /\ st.scope = c[Len(c)].request.scope
                   /\ st.size = c[Len(c)].request.size
                   /\ st.blocking = c[Len(c)].blocking
    /\ st.nonconv >= 1 <=> ChurnsAt(c, Len(c))

\* The request that waits for an answer, or for its replay, is next in line.
Waiting(s, st) ==
    \A p \in st.pending :
        /\ st.pending = {p}
        /\ p.session = s
        /\ p.round = st.round + 1
        /\ p.prev = st.prev
        /\ p.scope = st.scope
        /\ p.ledger = st.all
        /\ p.round > 1 => p.version > st.version
        /\ WellFormed(p)

\* The attempts stored are the launches l, the last ones for the waiting request.
Tries(st, l) ==
    /\ st.attempts = Len(l)
    /\ \A i \in 1 .. Len(l) : /\ l[i].round <= st.round + 1
                              /\ l[i].round = st.round + 1 => l[i] \in st.pending

\* The session is over exactly when it should be.
Verdict(st, c, l, busy) ==
    st.terminal <=> \/ c # <<>> /\ EndsAt(c, Len(c))
                    \/ Len(l) = MaxAttempts /\ ~ busy

\* All that is invariant about one session; busy says that its call is running.
Good(s, st, c, l, busy) ==
    /\ Summary(st, c)
    /\ Waiting(s, st)
    /\ Tries(st, l)
    /\ Verdict(st, c, l, busy)
    /\ NoneAfterEnd(c)
    /\ OneRequestPerRound(l)
    /\ \A i \in 1 .. Len(c) : LinkAt(s, c, i)
    /\ busy => st.pending # {} /\ ~ st.terminal

Busy(s) == \E r \in call : r.session = s

Sessions ==
    \A s \in DOMAIN sessions :
        /\ Good(s, sessions[s], chain[s], launched[s], Busy(s))
        /\ sessions[s].round = 0 => sessions[s].pending # {}

Unopened ==
    \A s \in Session \ DOMAIN sessions : chain[s] = <<>> /\ launched[s] = <<>>

OneCall ==
    \A r \in call : /\ call = {r}
                    /\ r.session \in DOMAIN sessions
                    /\ sessions[r.session].pending = {r}

IInv == TypeOK /\ Sessions /\ Unopened /\ OneCall

-----------------------------------------------------------------------------
(* Facts about one chain. *)

\* A round appended to a chain disturbs nothing that was said of earlier rounds.
LEMMA Appended ==
    ASSUME NEW c \in Seq(Entry), NEW e \in Entry
    PROVE  /\ Append(c, e) \in Seq(Entry)
           /\ Len(Append(c, e)) = Len(c) + 1
           /\ Append(c, e)[Len(c) + 1] = e
           /\ \A i \in 1 .. Len(c) : Append(c, e)[i] = c[i]
           /\ \A i \in 1 .. Len(c) + 1 : Earlier(Append(c, e), i) = Earlier(c, i)
           /\ Earlier(Append(c, e), Len(c) + 2) = Earlier(c, Len(c) + 1) \cup e.ids
<1> DEFINE d == Append(c, e)
<1>1. d \in Seq(Entry) /\ Len(d) = Len(c) + 1 /\ d[Len(c) + 1] = e
  OBVIOUS
<1>2. \A i \in 1 .. Len(c) : d[i] = c[i]
  OBVIOUS
<1>3. Len(c) \in Nat
  OBVIOUS
<1> HIDE DEF d
<1>4. ASSUME NEW i \in 1 .. Len(c) + 1 PROVE Earlier(d, i) = Earlier(c, i)
  <2>1. \A j \in 1 .. i - 1 : d[j] = c[j]
    BY <1>2, <1>3
  <2> QED BY <2>1 DEF Earlier
<1>5. Earlier(d, Len(c) + 2) = Earlier(c, Len(c) + 1) \cup e.ids
  <2>1. 1 .. (Len(c) + 2) - 1 = (1 .. (Len(c) + 1) - 1) \cup {Len(c) + 1}
    BY <1>3
  <2>2. \A j \in 1 .. (Len(c) + 1) - 1 : d[j] = c[j]
    BY <1>2, <1>3
  <2>3. {d[j].ids : j \in 1 .. (Len(c) + 2) - 1}
          = {c[j].ids : j \in 1 .. (Len(c) + 1) - 1} \cup {e.ids}
    BY <2>1, <2>2, <1>1
  <2> QED BY <2>3 DEF Earlier
<1> QED BY <1>1, <1>2, <1>4, <1>5 DEF d

\* The verdicts of earlier rounds stay.
LEMMA VerdictsStay ==
    ASSUME NEW c \in Seq(Entry), NEW e \in Entry, NEW i \in 1 .. Len(c)
    PROVE  /\ ChurnsAt(Append(c, e), i) <=> ChurnsAt(c, i)
           /\ EndsAt(Append(c, e), i) <=> EndsAt(c, i)
<1> DEFINE d == Append(c, e)
<1>1. \A j \in 1 .. Len(c) : d[j] = c[j]
  BY Appended
<1>2. Len(c) \in Nat
  OBVIOUS
<1> HIDE DEF d
<1>3. d[i] = c[i] /\ (i > 1 => d[i - 1] = c[i - 1]) /\ (i - 1 > 1 => d[i - 2] = c[i - 2])
  BY <1>1, <1>2
<1>4. ChurnsAt(d, i) <=> ChurnsAt(c, i)
  BY <1>3 DEF ChurnsAt
<1>5. ChurnsAt(d, i - 1) <=> ChurnsAt(c, i - 1)
  <2>1. i - 1 > 1 => d[i - 1] = c[i - 1]
    BY <1>3
  <2>2. i - 1 - 1 = i - 2
    OBVIOUS
  <2> QED BY <2>1, <2>2, <1>3 DEF ChurnsAt
<1>6. EndsAt(d, i) <=> EndsAt(c, i)
  BY <1>3, <1>4, <1>5 DEF EndsAt
<1> QED BY <1>4, <1>6 DEF d

-----------------------------------------------------------------------------
(* One session, step by step. *)

\* The launch of a request that is next in line, or replays the one that waits.
LEMMA GoodLaunch ==
    ASSUME NEW s \in Session, NEW st \in SessionState,
           NEW c \in Seq(Entry), NEW l \in Seq(Request), NEW r \in Request,
           Good(s, st, c, l, FALSE), ~ st.terminal, st.attempts < MaxAttempts,
           st.pending \subseteq {r}, WellFormed(r),
           r.session = s, r.round = st.round + 1, r.prev = st.prev,
           r.scope = st.scope, r.ledger = st.all,
           r.round > 1 => r.version > st.version
    PROVE  LET new == [st EXCEPT !.pending = {r}, !.attempts = @ + 1]
           IN new \in SessionState /\ Good(s, new, c, Append(l, r), TRUE)
<1> DEFINE new == [st EXCEPT !.pending = {r}, !.attempts = @ + 1]
           m == Append(l, r)
<1>1. /\ new.round = st.round /\ new.version = st.version /\ new.prev = st.prev
      /\ new.terminal = st.terminal /\ new.scope = st.scope /\ new.size = st.size
      /\ new.blocking = st.blocking /\ new.all = st.all /\ new.nonconv = st.nonconv
      /\ new.attempts = st.attempts + 1 /\ new.pending = {r}
  BY DEF SessionState
<1>2. new \in SessionState
  <2>1. {r} \in SUBSET Request
    OBVIOUS
  <2>2. st.attempts + 1 \in 0 .. MaxAttempts
    BY BoundsAreNumbers DEF SessionState
  <2> QED BY <2>1, <2>2 DEF SessionState
<1>3. Len(m) = Len(l) + 1 /\ m[Len(l) + 1] = r /\ \A i \in 1 .. Len(l) : m[i] = l[i]
  OBVIOUS
<1>4. Len(l) \in Nat /\ st.round \in Nat /\ r.round \in Nat
  BY BoundsAreNumbers DEF SessionState, Request
<1>5. \A i \in 1 .. Len(l) : l[i] \in Request /\ l[i].round \in Nat
  <2>1. \A q \in Request : q.round \in Nat
    BY BoundsAreNumbers DEF Request
  <2> QED BY <2>1
<1> HIDE DEF new, m
<1>6. Summary(new, c)
  BY <1>1 DEF Good, Summary
<1>7. Waiting(s, new)
  BY <1>1 DEF Waiting
<1>8. Tries(new, m)
  <2>1. new.attempts = Len(m)
    BY <1>1, <1>3, <1>4 DEF Good, Tries
  <2>2. ASSUME NEW i \in 1 .. Len(m)
        PROVE  m[i].round <= st.round + 1 /\ (m[i].round = st.round + 1 => m[i] = r)
    <3>1. CASE i \in 1 .. Len(l)
      BY <3>1, <1>3, <1>4, <1>5 DEF Good, Tries
    <3>2. CASE i = Len(l) + 1
      BY <3>2, <1>3, <1>4
    <3> QED BY <3>1, <3>2, <1>3, <1>4
  <2> QED BY <2>1, <2>2, <1>1 DEF Tries
<1>9. Verdict(new, c, m, TRUE)
  BY <1>1 DEF Good, Verdict
<1>10. OneRequestPerRound(m)
  <2> SUFFICES ASSUME NEW i \in 1 .. Len(m), NEW j \in 1 .. Len(m)
               PROVE  /\ m[i].round = m[j].round => m[i] = m[j]
                      /\ i <= j => m[i].round <= m[j].round
    BY DEF OneRequestPerRound
  <2>1. \A k \in 1 .. Len(l) : l[k].round <= r.round /\ (l[k].round = r.round => l[k] = r)
    BY <1>4, <1>5 DEF Good, Tries
  <2>2. CASE i \in 1 .. Len(l) /\ j \in 1 .. Len(l)
    <3>1. m[i] = l[i] /\ m[j] = l[j]
      BY <2>2, <1>3
    <3> QED BY <2>2, <3>1 DEF Good, OneRequestPerRound
  <2>3. CASE i \in 1 .. Len(l) /\ j = Len(l) + 1
    <3>1. m[i] = l[i] /\ m[j] = r
      BY <2>3, <1>3
    <3> QED BY <2>1, <2>3, <3>1, <1>4, <1>5
  <2>4. CASE i = Len(l) + 1
    <3>1. m[i] = r /\ (j <= Len(l) => m[j] = l[j]) /\ (j = Len(l) + 1 => m[j] = r)
      BY <2>4, <1>3, <1>4
    <3>2. j <= Len(l) \/ j = Len(l) + 1
      BY <1>3, <1>4
    <3>3. j <= Len(l) => j \in 1 .. Len(l) /\ ~ i <= j
      BY <2>4, <1>4
    <3> QED BY <2>1, <2>4, <3>1, <3>2, <3>3, <1>4, <1>5
  <2> QED BY <2>2, <2>3, <2>4, <1>3, <1>4
<1>11. \A i \in 1 .. Len(c) : LinkAt(s, c, i)
  BY DEF Good
<1>12. NoneAfterEnd(c) /\ new.pending # {} /\ ~ new.terminal
  BY <1>1 DEF Good
<1>13. Good(s, new, c, m, TRUE)
  BY <1>6, <1>7, <1>8, <1>9, <1>10, <1>11, <1>12 DEF Good
<1> QED BY <1>2, <1>13 DEF new, m

\* A failed call leaves the request waiting, or ends the session.
LEMMA GoodFail ==
    ASSUME NEW s \in Session, NEW st \in SessionState,
           NEW c \in Seq(Entry), NEW l \in Seq(Request), Good(s, st, c, l, TRUE)
    PROVE  LET new == [st EXCEPT !.terminal = st.attempts >= MaxAttempts]
           IN new \in SessionState /\ Good(s, new, c, l, FALSE)
<1> DEFINE new == [st EXCEPT !.terminal = st.attempts >= MaxAttempts]
<1>1. /\ new.round = st.round /\ new.version = st.version /\ new.prev = st.prev
      /\ new.scope = st.scope /\ new.size = st.size
      /\ new.blocking = st.blocking /\ new.all = st.all /\ new.nonconv = st.nonconv
      /\ new.attempts = st.attempts /\ new.pending = st.pending
  BY DEF SessionState
<1>2. new.terminal <=> st.attempts >= MaxAttempts
  BY DEF SessionState
<1>3. new \in SessionState
  <2>1. (st.attempts >= MaxAttempts) \in BOOLEAN
    OBVIOUS
  <2> QED BY <2>1 DEF SessionState
<1>4. st.attempts \in 0 .. MaxAttempts /\ MaxAttempts \in Nat /\ st.attempts = Len(l)
  BY BoundsAreNumbers DEF SessionState, Good, Tries
<1> HIDE DEF new
<1>5. Summary(new, c) /\ Waiting(s, new) /\ Tries(new, l)
  BY <1>1 DEF Good, Summary, Waiting, Tries
<1>6. Verdict(new, c, l, FALSE)
  <2>1. ~ (c # <<>> /\ EndsAt(c, Len(c)))
    BY DEF Good, Verdict
  <2> QED BY <2>1, <1>2, <1>4 DEF Verdict
<1>7. Good(s, new, c, l, FALSE)
  BY <1>5, <1>6 DEF Good
<1> QED BY <1>3, <1>7 DEF new

\* An accepted answer lengthens the chain by the round it belongs to.
LEMMA GoodCommit ==
    ASSUME NEW s \in Session, s \in DOMAIN sessions,
           sessions[s] \in SessionState,
           NEW c \in Seq(Entry), NEW l \in Seq(Request),
           NEW r \in Request, NEW res \in Result, issued \in Nat,
           r.session = s, sessions[s].pending = {r},
           Good(s, sessions[s], c, l, TRUE)
    PROVE  LET e == [request |-> r, signal |-> res.signal,
                     blocking |-> res.blocking, ids |-> Reported(res),
                     token |-> issued + 1]
           IN /\ e \in Entry
              /\ Committed(r, res) \in SessionState
              /\ Good(s, Committed(r, res), Append(c, e), l, FALSE)
<1> DEFINE st == sessions[s]
           e == [request |-> r, signal |-> res.signal, blocking |-> res.blocking,
                 ids |-> Reported(res), token |-> issued + 1]
           new == Committed(r, res)
           d == Append(c, e)
           n == Len(c)
<1>1. n \in Nat /\ st.round = n /\ r.round = n + 1
  BY DEF Good, Summary, Waiting
<1>2. Reported(res) \in SUBSET Finding /\ res.blocking \in SUBSET Finding
  BY DEF Result, Reported
<1>3. e \in Entry
  BY <1>2 DEF Entry, Result
<1>4. /\ e.request = r /\ e.signal = res.signal /\ e.blocking = res.blocking
      /\ e.ids = Reported(res) /\ e.token = issued + 1
  OBVIOUS
<1>5. /\ new.round = r.round /\ new.version = r.version /\ new.prev = issued + 1
      /\ new.terminal = Stops(r, res) /\ new.scope = r.scope /\ new.size = r.size
      /\ new.blocking = res.blocking /\ new.all = st.all \cup Reported(res)
      /\ new.nonconv = NonConverging(r, res) /\ new.attempts = st.attempts
      /\ new.pending = {}
  BY DEF Committed
<1>6. st.nonconv \in Nat /\ NonConverging(r, res) \in Nat
  BY DEF SessionState, NonConverging
<1>7. new \in SessionState
  <2>1. r.version \in Nat /\ r.scope \in Scope /\ r.size \in Nat /\ r.round \in 0 .. MaxRounds
    <3>1. MaxRounds \in Nat
      BY BoundsAreNumbers
    <3>2. r.version \in Nat /\ r.scope \in Scope /\ r.size \in Size /\ r.round \in 1 .. MaxRounds
      BY DEF Request
    <3>3. r.size \in Nat
      BY <3>2, SizesAreLengths
    <3>4. r.round \in 0 .. MaxRounds
      BY <3>1, <3>2
    <3> QED BY <3>2, <3>3, <3>4
  <2>2. st.attempts \in 0 .. MaxAttempts /\ st.all \in SUBSET Finding
    BY DEF SessionState
  <2>3. Stops(r, res) \in BOOLEAN
    BY DEF Stops
  <2> QED BY <2>1, <2>2, <2>3, <1>2, <1>6 DEF Committed, SessionState
<1> HIDE DEF e, new
<1>8. /\ d \in Seq(Entry) /\ Len(d) = n + 1 /\ d[n + 1] = e
      /\ \A i \in 1 .. n : d[i] = c[i]
      /\ \A i \in 1 .. n + 1 : Earlier(d, i) = Earlier(c, i)
      /\ Earlier(d, n + 2) = Earlier(c, n + 1) \cup e.ids
  BY <1>3, Appended
<1>9. \A i \in 1 .. n : /\ ChurnsAt(d, i) <=> ChurnsAt(c, i)
                        /\ EndsAt(d, i) <=> EndsAt(c, i)
  BY <1>3, VerdictsStay
<1> HIDE DEF d
<1>10. c = <<>> <=> n = 0
  OBVIOUS
<1>11. /\ n = 0 => st.prev = NoToken /\ st.size = 0 /\ st.blocking = {}
       /\ n # 0 => /\ st.prev = c[n].token
                   /\ st.version = c[n].request.version
                   /\ st.scope = c[n].request.scope
                   /\ st.size = c[n].request.size
                   /\ st.blocking = c[n].blocking
  BY <1>10 DEF Good, Summary
<1>12. ChurnsAt(d, n + 1) <=> Churns(st.blocking, res.blocking)
  <2>1. CASE n = 0
    BY <2>1, <1>11 DEF ChurnsAt, Churns
  <2>2. CASE n # 0
    <3>1. n + 1 > 1 /\ n + 1 - 1 = n /\ d[n] = c[n]
      BY <2>2, <1>1, <1>8
    <3> QED BY <2>2, <3>1, <1>4, <1>8, <1>11 DEF ChurnsAt
  <2> QED BY <2>1, <2>2
<1>13. NonConverging(r, res) >= 1 <=> ChurnsAt(d, n + 1)
  BY <1>6, <1>12 DEF NonConverging
<1>14. NonConverging(r, res) >= 2 <=> ChurnsAt(d, n + 1) /\ ChurnsAt(d, n)
  <2>1. st.nonconv >= 1 <=> ChurnsAt(d, n)
    <3>1. st.nonconv >= 1 <=> ChurnsAt(c, n)
      BY DEF Good, Summary
    <3>2. n = 0 => ~ ChurnsAt(c, n) /\ ~ ChurnsAt(d, n)
      BY DEF ChurnsAt
    <3>3. n # 0 => (ChurnsAt(d, n) <=> ChurnsAt(c, n))
      BY <1>1, <1>9
    <3> QED BY <3>1, <3>2, <3>3
  <2> QED BY <2>1, <1>6, <1>12 DEF NonConverging
<1>15. Summary(new, d)
  <2>1. new.all = Earlier(d, Len(d) + 1)
    <3>1. st.all = Earlier(c, n + 1)
      BY DEF Good, Summary
    <3>2. Len(d) + 1 = n + 2
      BY <1>1, <1>8
    <3> QED BY <3>1, <3>2, <1>4, <1>5, <1>8
  <2>2. d # <<>>
    BY <1>1, <1>8
  <2>3. new.nonconv >= 1 <=> ChurnsAt(d, Len(d))
    BY <1>5, <1>8, <1>13
  <2> QED BY <2>1, <2>2, <2>3, <1>1, <1>4, <1>5, <1>8 DEF Summary
<1>16. Waiting(s, new)
  BY <1>5 DEF Waiting
<1>17. Tries(new, l)
  <2>1. \A i \in 1 .. Len(l) : l[i].round \in Nat /\ l[i].round <= n + 1
    <3>1. \A q \in Request : q.round \in Nat
      BY BoundsAreNumbers DEF Request
    <3> QED BY <3>1, <1>1 DEF Good, Tries
  <2>2. st.attempts = Len(l)
    BY DEF Good, Tries
  <2> QED BY <2>1, <2>2, <1>1, <1>5 DEF Tries
<1>18. EndsAt(d, n + 1) <=> \/ res.signal = "PLAN_APPROVED"
                            \/ NonConverging(r, res) >= 2
                            \/ /\ Grows(st.size, r.size)
                               /\ res.blocking \ st.blocking # {}
                               /\ ~ r.authorized
                            \/ r.round = MaxRounds
  <2>1. CASE n = 0
    <3>1. ~ Grows(st.size, r.size)
      BY <2>1, <1>11 DEF Grows
    <3>2. ~ n + 1 > 1 /\ n + 1 - 1 = n
      BY <2>1
    <3> QED BY <3>1, <3>2, <1>1, <1>4, <1>8, <1>14 DEF EndsAt
  <2>2. CASE n # 0
    <3>1. n + 1 > 1 /\ n + 1 - 1 = n /\ d[n] = c[n]
      BY <2>2, <1>1, <1>8
    <3> QED BY <2>2, <3>1, <1>1, <1>4, <1>8, <1>11, <1>14 DEF EndsAt
  <2> QED BY <2>1, <2>2
<1>19. Verdict(new, d, l, FALSE)
  <2>1. Stops(r, res) <=> EndsAt(d, n + 1) \/ st.attempts = MaxAttempts
    BY <1>18 DEF Stops
  <2>2. st.attempts = Len(l)
    BY DEF Good, Tries
  <2>3. d # <<>>
    BY <1>1, <1>8
  <2> QED BY <2>1, <2>2, <2>3, <1>5, <1>8 DEF Verdict
<1>20. NoneAfterEnd(d)
  <2>1. \A i \in 1 .. n : ~ EndsAt(c, i)
    <3>1. n # 0 => ~ EndsAt(c, n)
      BY <1>10 DEF Good, Verdict
    <3>2. \A i \in 1 .. n - 1 : ~ EndsAt(c, i)
      BY DEF Good, NoneAfterEnd
    <3> QED BY <3>1, <3>2, <1>1
  <2> QED BY <2>1, <1>1, <1>8, <1>9 DEF NoneAfterEnd
<1>21. ASSUME NEW i \in 1 .. Len(d) PROVE LinkAt(s, d, i)
  <2>1. CASE i \in 1 .. n
    <3>1. /\ d[i] = c[i] /\ Earlier(d, i) = Earlier(c, i)
          /\ i > 1 => d[i - 1] = c[i - 1]
      BY <2>1, <1>1, <1>8
    <3>2. LinkAt(s, c, i)
      BY <2>1 DEF Good
    <3>3. i # 1 => i > 1
      BY <2>1
    <3> QED BY <3>1, <3>2, <3>3 DEF LinkAt
  <2>2. CASE i = n + 1
    <3>1. Earlier(d, n + 1) = st.all
      BY <1>1, <1>8 DEF Good, Summary
    <3>2. n # 0 => n + 1 > 1 /\ n + 1 # 1 /\ n + 1 - 1 = n /\ d[n] = c[n]
      BY <1>1, <1>8
    <3>3. n = 0 => ~ n + 1 > 1 /\ n + 1 = 1
      OBVIOUS
    <3>4. /\ r.ledger = st.all /\ r.prev = st.prev /\ r.scope = st.scope
          /\ r.round > 1 => r.version > st.version
      BY DEF Good, Waiting
    <3> QED BY <2>2, <3>1, <3>2, <3>3, <3>4, <1>1, <1>4, <1>8, <1>11 DEF LinkAt
  <2> QED BY <2>1, <2>2, <1>1, <1>8
<1>22. Good(s, new, d, l, FALSE)
  BY <1>15, <1>16, <1>17, <1>19, <1>20, <1>21 DEF Good
<1> QED BY <1>3, <1>7, <1>22 DEF e, new, d

-----------------------------------------------------------------------------
(* All sessions together. *)

\* A server that just started holds no session.
LEMMA InitIInv == Init => IInv
<1> SUFFICES ASSUME Init PROVE IInv
  OBVIOUS
<1>1. DOMAIN sessions = {}
  BY DEF Init
<1>2. TypeOK
  <2>1. sessions = [s \in DOMAIN sessions |-> sessions[s]]
    BY DEF Init
  <2>2. chain \in [Session -> Seq(Entry)] /\ launched \in [Session -> Seq(Request)]
    BY DEF Init
  <2> QED BY <2>1, <2>2, <1>1 DEF Init, TypeOK
<1>3. Sessions /\ Unopened /\ OneCall
  BY <1>1 DEF Init, Sessions, Unopened, OneCall
<1> QED BY <1>2, <1>3 DEF IInv

\* What a stored or just opened session is.
LEMMA StoredGood ==
    ASSUME IInv, NEW s \in Session, NEW scope \in Scope
    PROVE  /\ Stored(s, scope) \in SessionState
           /\ Good(s, Stored(s, scope), chain[s], launched[s], Busy(s))
           /\ chain[s] \in Seq(Entry) /\ launched[s] \in Seq(Request)
<1>1. CASE s \in DOMAIN sessions
  BY <1>1 DEF IInv, TypeOK, Sessions, Stored
<1>2. CASE s \notin DOMAIN sessions
  <2>1. Stored(s, scope) = Opened(scope)
    BY <1>2 DEF Stored
  <2>2. chain[s] = <<>> /\ launched[s] = <<>> /\ ~ Busy(s)
    BY <1>2 DEF IInv, Unopened, OneCall, Busy
  <2>3. Opened(scope) \in SessionState
    BY BoundsAreNumbers DEF Opened, SessionState, NoToken
  <2>4. Earlier(<<>>, Len(<<>>) + 1) = {} /\ ~ ChurnsAt(<<>>, Len(<<>>))
    BY DEF Earlier, ChurnsAt
  <2>5. Summary(Opened(scope), <<>>)
    BY <2>4 DEF Summary, Opened
  <2>6. Waiting(s, Opened(scope)) /\ Tries(Opened(scope), <<>>)
    BY DEF Waiting, Tries, Opened
  <2>7. Verdict(Opened(scope), <<>>, <<>>, FALSE)
    BY BoundsAreNumbers DEF Verdict, Opened
  <2>8. NoneAfterEnd(<<>>) /\ OneRequestPerRound(<<>>)
    BY DEF NoneAfterEnd, OneRequestPerRound
  <2>9. Good(s, Opened(scope), <<>>, <<>>, FALSE)
    <3>1. Len(<<>>) = 0
      OBVIOUS
    <3>2. \A i \in 1 .. Len(<<>>) : LinkAt(s, <<>>, i)
      BY <3>1
    <3> QED BY <3>2, <2>5, <2>6, <2>7, <2>8 DEF Good
  <2>10. Busy(s) = FALSE
    BY <2>2 DEF Busy
  <2> QED BY <2>1, <2>2, <2>3, <2>9, <2>10 DEF IInv, TypeOK
<1> QED BY <1>1, <1>2

\* A session that is neither over nor busy still has attempts left.
LEMMA BudgetLeft ==
    ASSUME NEW s, NEW st \in SessionState, NEW c, NEW l \in Seq(Request),
           Good(s, st, c, l, FALSE), ~ st.terminal
    PROVE  st.attempts < MaxAttempts
<1>1. st.attempts = Len(l) /\ Len(l) # MaxAttempts
  BY DEF Good, Tries, Verdict
<1>2. st.attempts \in 0 .. MaxAttempts /\ MaxAttempts \in Nat
  BY BoundsAreNumbers DEF SessionState
<1> QED BY <1>1, <1>2

\* A step that changes one session, well, keeps the invariant.
LEMMA OneSession ==
    ASSUME IInv, NEW s \in Session, NEW new \in SessionState,
           NEW c \in Seq(Entry), NEW l \in Seq(Request),
           sessions' = Put(s, new), chain' = [chain EXCEPT ![s] = c],
           launched' = [launched EXCEPT ![s] = l],
           issued' \in Nat, call' \subseteq Request,
           call' # {} => call' = new.pending,
           \A r \in call \cup call' : r.session = s,
           new.round = 0 => new.pending # {},
           Waiting(s, new),
           Good(s, new, c, l, call' # {})
    PROVE  IInv'
<1>1. /\ DOMAIN sessions' = DOMAIN sessions \cup {s}
      /\ sessions'[s] = new
      /\ \A t \in DOMAIN sessions \ {s} : sessions'[t] = sessions[t]
      /\ sessions' = [t \in DOMAIN sessions' |-> sessions'[t]]
  BY DEF Put
<1>2. /\ chain'[s] = c /\ launched'[s] = l
      /\ \A t \in Session \ {s} : chain'[t] = chain[t] /\ launched'[t] = launched[t]
      /\ chain' \in [Session -> Seq(Entry)] /\ launched' \in [Session -> Seq(Request)]
  BY DEF IInv, TypeOK
<1>3. TypeOK'
  <2>1. \A t \in DOMAIN sessions' : t \in Session /\ sessions'[t] \in SessionState
    BY <1>1 DEF IInv, TypeOK
  <2> QED BY <2>1, <1>1, <1>2 DEF TypeOK
<1>4. ASSUME NEW t \in DOMAIN sessions'
      PROVE  /\ Good(t, sessions'[t], chain'[t], launched'[t], Busy(t)')
             /\ sessions'[t].round = 0 => sessions'[t].pending # {}
  <2>1. CASE t = s
    <3>1. Busy(s)' = (call' # {})
      BY DEF Busy
    <3> QED BY <2>1, <3>1, <1>1, <1>2
  <2>2. CASE t # s
    <3>1. Busy(t)' = FALSE /\ Busy(t) = FALSE
      BY <2>2 DEF Busy
    <3>2. t \in DOMAIN sessions /\ t \in Session
      BY <2>2, <1>1 DEF IInv, TypeOK
    <3>3. /\ Good(t, sessions[t], chain[t], launched[t], Busy(t))
          /\ sessions[t].round = 0 => sessions[t].pending # {}
      BY <3>2 DEF IInv, Sessions
    <3> QED BY <2>2, <3>1, <3>2, <3>3, <1>1, <1>2
  <2> QED BY <2>1, <2>2
<1>5. Sessions'
  BY <1>4 DEF Sessions
<1>6. Unopened'
  BY <1>1, <1>2 DEF IInv, Unopened
<1>7. OneCall'
  <2> SUFFICES ASSUME NEW r \in call'
               PROVE  /\ call' = {r}
                      /\ r.session \in DOMAIN sessions'
                      /\ sessions'[r.session].pending = {r}
    BY DEF OneCall
  <2>1. call' = new.pending /\ r.session = s
    OBVIOUS
  <2>2. new.pending = {r}
    BY <2>1 DEF Waiting
  <2> QED BY <2>1, <2>2, <1>1
<1> QED BY <1>3, <1>5, <1>6, <1>7 DEF IInv

\* A submitted request is well typed, and the server was idle.
LEMMA SubmitRequest ==
    ASSUME IInv, Submit PROVE \E r \in Request : call = {} /\ Reserve(r)
<1>1. PICK s \in Session, n \in 1 .. MaxRounds, prev \in 0 .. issued,
           scope \in Scope, ledger \in SUBSET Finding :
        \E version \in 1 .. Stored(s, scope).version + MaxRaise,
           size \in Size, authorized \in BOOLEAN :
           Reserve([session |-> s, round |-> n, prev |-> prev, scope |-> scope,
                    version |-> version, size |-> size,
                    authorized |-> authorized, ledger |-> ledger])
  BY DEF Submit
<1>2. PICK version \in 1 .. Stored(s, scope).version + MaxRaise,
           size \in Size, authorized \in BOOLEAN :
           Reserve([session |-> s, round |-> n, prev |-> prev, scope |-> scope,
                    version |-> version, size |-> size,
                    authorized |-> authorized, ledger |-> ledger])
  BY <1>1
<1>3. prev \in Nat /\ version \in Nat \ {0}
  <2>1. Stored(s, scope).version + MaxRaise \in Nat
    <3>1. Stored(s, scope).version \in Nat
      BY StoredGood DEF SessionState
    <3> QED BY <3>1, BoundsAreNumbers
  <2>2. issued \in Nat
    BY DEF IInv, TypeOK
  <2> QED BY <2>1, <2>2
<1>4. [session |-> s, round |-> n, prev |-> prev, scope |-> scope,
       version |-> version, size |-> size,
       authorized |-> authorized, ledger |-> ledger] \in Request
  BY <1>3 DEF Request
<1>5. call = {}
  BY DEF Submit
<1> QED BY <1>2, <1>4, <1>5

\* An accepted request changes its own session only.
LEMMA SubmitStep == IInv /\ Submit => IInv'
<1> SUFFICES ASSUME IInv, Submit PROVE IInv'
  OBVIOUS
<1>1. PICK r \in Request : call = {} /\ Reserve(r)
  BY SubmitRequest
<1> DEFINE s == r.session
           st == Stored(s, r.scope)
           new == [st EXCEPT !.pending = {r}, !.attempts = @ + 1]
<1>2. s \in Session /\ r.scope \in Scope
  BY DEF Request
<1>3. /\ st \in SessionState
      /\ Good(s, st, chain[s], launched[s], FALSE)
      /\ chain[s] \in Seq(Entry) /\ launched[s] \in Seq(Request)
  <2>1. Busy(s) = FALSE
    BY <1>1 DEF Busy
  <2> QED BY <2>1, <1>2, StoredGood
<1>4. ~ st.terminal /\ WellFormed(r)
  BY <1>1 DEF Reserve, Linked
<1>5. st.attempts < MaxAttempts
  BY <1>3, <1>4, BudgetLeft
<1>6. Launch(r) /\ UNCHANGED <<issued, chain>>
  BY <1>1, <1>5 DEF Reserve, HasBudget
<1>7. st.pending \subseteq {r}
  BY <1>6 DEF Launch, Replayed
<1>8. /\ r.round = st.round + 1 /\ r.prev = st.prev /\ r.scope = st.scope
      /\ r.ledger = st.all
      /\ r.round > 1 => r.version > st.version
  <2>1. CASE r.round = 1 /\ s \in DOMAIN sessions
    <3>1. st = sessions[s] /\ sessions[s].round = 0
      BY <1>1, <2>1 DEF Reserve, Linked, Opens, Stored
    <3>2. r \in st.pending
      BY <3>1, <2>1, <1>7 DEF IInv, Sessions
    <3>3. Waiting(s, st)
      BY <1>3 DEF Good
    <3> QED BY <3>2, <3>3 DEF Waiting
  <2>2. CASE r.round = 1 /\ s \notin DOMAIN sessions
    <3>1. st = Opened(r.scope)
      BY <2>2 DEF Stored
    <3>2. r.prev = NoToken /\ r.ledger = {}
      BY <1>1, <2>2 DEF Reserve, Linked, Opens
    <3> QED BY <2>2, <3>1, <3>2 DEF Opened
  <2>3. CASE r.round # 1
    <3>1. Follows(s, r.round, r.prev, r.scope, r.ledger) /\ Newer(r)
      BY <1>1, <2>3 DEF Reserve, Linked
    <3>2. st = sessions[s]
      BY <3>1 DEF Follows, Stored
    <3> QED BY <3>1, <3>2 DEF Follows, Newer
  <2> QED BY <2>1, <2>2, <2>3
<1>9. new \in SessionState /\ Good(s, new, chain[s], Append(launched[s], r), TRUE)
  <2> HIDE DEF st
  <2> QED BY <1>2, <1>3, <1>4, <1>5, <1>7, <1>8, GoodLaunch
<1>10. new.pending = {r}
  BY <1>3 DEF SessionState
<1>11. /\ sessions' = Put(s, new) /\ call' = {r} /\ issued' = issued
       /\ chain' = [chain EXCEPT ![s] = chain[s]]
       /\ launched' = [launched EXCEPT ![s] = Append(launched[s], r)]
  BY <1>6 DEF Launch, IInv, TypeOK
<1>12. Append(launched[s], r) \in Seq(Request) /\ issued' \in Nat
  BY <1>3, <1>11 DEF IInv, TypeOK
<1>13. (call' # {}) = TRUE /\ Waiting(s, new) /\ call = {}
  BY <1>1, <1>9, <1>11 DEF Good
<1> HIDE DEF new, st
<1>14. \A q \in call \cup call' : q.session = s
  BY <1>11, <1>13
<1> QED BY <1>2, <1>3, <1>9, <1>10, <1>11, <1>12, <1>13, <1>14, OneSession

\* What holds of a session whose call is running.
LEMMA Calling ==
    ASSUME IInv, NEW r \in call
    PROVE  /\ r \in Request /\ call = {r}
           /\ r.session \in Session /\ r.session \in DOMAIN sessions
           /\ sessions[r.session] \in SessionState
           /\ sessions[r.session].pending = {r}
           /\ chain[r.session] \in Seq(Entry)
           /\ launched[r.session] \in Seq(Request)
           /\ issued \in Nat
           /\ Good(r.session, sessions[r.session], chain[r.session],
                   launched[r.session], TRUE)
<1>1. r \in Request /\ r.session \in Session
  BY DEF IInv, TypeOK, Request
<1>2. r.session \in DOMAIN sessions /\ Busy(r.session) = TRUE
  BY DEF IInv, OneCall, Busy
<1> QED BY <1>1, <1>2 DEF IInv, TypeOK, OneCall, Sessions

\* An update of a stored session, as Put writes it.
LEMMA PutStored ==
    ASSUME IInv, NEW s \in DOMAIN sessions, NEW new
    PROVE  [sessions EXCEPT ![s] = new] = Put(s, new)
BY DEF IInv, TypeOK, Put

\* A failed call changes its own session only.
LEMMA FailStep == ASSUME IInv, NEW r \in call, Fail(r) PROVE IInv'
<1> DEFINE s == r.session
           new == [sessions[s] EXCEPT !.terminal = sessions[s].attempts >= MaxAttempts]
<1>1. new \in SessionState /\ Good(s, new, chain[s], launched[s], FALSE)
  BY Calling, GoodFail
<1>2. new.pending = {r}
  BY Calling DEF SessionState
<1>3. sessions' = Put(s, new)
  <2>1. sessions' = [sessions EXCEPT ![s] = new]
    BY DEF Fail
  <2>2. s \in DOMAIN sessions
    BY Calling
  <2> HIDE DEF new
  <2> QED BY <2>1, <2>2, PutStored
<1>4. /\ chain' = [chain EXCEPT ![s] = chain[s]]
      /\ launched' = [launched EXCEPT ![s] = launched[s]]
      /\ issued' \in Nat /\ call' = {}
  BY DEF Fail, IInv, TypeOK
<1>5. Waiting(s, new)
  BY <1>1 DEF Good
<1>6. (call' # {}) = FALSE /\ \A q \in call \cup call' : q.session = s
  BY <1>4, Calling
<1> HIDE DEF new
<1> QED BY <1>1, <1>2, <1>3, <1>4, <1>5, <1>6, Calling, OneSession

\* A commit changes its own session only.
LEMMA CommitStep ==
    ASSUME IInv, NEW r \in call, NEW res \in Result, Commit(r, res) PROVE IInv'
<1> DEFINE s == r.session
           e == [request |-> r, signal |-> res.signal, blocking |-> res.blocking,
                 ids |-> Reported(res), token |-> issued + 1]
           new == Committed(r, res)
           d == Append(chain[s], e)
<1>1. /\ e \in Entry /\ new \in SessionState
      /\ Good(s, new, d, launched[s], FALSE)
  BY Calling, GoodCommit
<1>2. sessions' = Put(s, new)
  <2>1. sessions' = [sessions EXCEPT ![s] = new]
    BY DEF Commit
  <2> QED BY <2>1, Calling, PutStored
<1>3. /\ chain' = [chain EXCEPT ![s] = d]
      /\ launched' = [launched EXCEPT ![s] = launched[s]]
      /\ issued' \in Nat /\ call' = {}
  BY Calling DEF Commit, IInv, TypeOK
<1>4. Waiting(s, new)
  BY <1>1 DEF Good
<1>5. (call' # {}) = FALSE /\ \A q \in call \cup call' : q.session = s
  BY <1>3, Calling
<1>6. new.round # 0
  <2>1. r.round \in 1 .. MaxRounds
    BY Calling DEF Request
  <2> QED BY <2>1 DEF Committed
<1>7. d \in Seq(Entry)
  <2>1. chain[s] \in Seq(Entry)
    BY Calling
  <2> HIDE DEF e
  <2> QED BY <2>1, <1>1
<1> HIDE DEF new, d
<1> QED BY <1>1, <1>2, <1>3, <1>4, <1>5, <1>6, <1>7, Calling, OneSession

\* A restart forgets every session.
LEMMA RestartStep == IInv /\ Restart => IInv'
<1> SUFFICES ASSUME IInv, Restart PROVE IInv'
  OBVIOUS
<1>1. DOMAIN sessions' = {} /\ sessions' = [s \in DOMAIN sessions' |-> sessions'[s]]
  BY DEF Restart
<1>2. TypeOK'
  BY <1>1 DEF Restart, IInv, TypeOK
<1>3. Sessions' /\ Unopened' /\ OneCall'
  BY <1>1 DEF Restart, Sessions, Unopened, OneCall
<1> QED BY <1>2, <1>3 DEF IInv

\* A stuttering step changes nothing.
LEMMA IdleStep == IInv /\ UNCHANGED vars => IInv'
<1> SUFFICES ASSUME IInv, UNCHANGED vars PROVE IInv'
  OBVIOUS
<1>1. /\ sessions' = sessions /\ call' = call /\ issued' = issued
      /\ chain' = chain /\ launched' = launched
  BY DEF vars
<1>2. TypeOK'
  BY <1>1 DEF IInv, TypeOK
<1>3. ASSUME NEW s \in DOMAIN sessions
      PROVE  Good(s, sessions[s], chain[s], launched[s], Busy(s)')
  <2>1. Busy(s)' = Busy(s)
    BY <1>1 DEF Busy
  <2> QED BY <2>1 DEF IInv, Sessions
<1>4. Sessions'
  BY <1>1, <1>3 DEF IInv, Sessions
<1>5. Unopened' /\ OneCall'
  BY <1>1 DEF IInv, Unopened, OneCall
<1> QED BY <1>2, <1>4, <1>5 DEF IInv

\* Every step keeps the inductive invariant.
LEMMA StepIInv == IInv /\ [Next]_vars => IInv'
BY SubmitStep, FailStep, CommitStep, RestartStep, IdleStep DEF Next

\* The inductive invariant holds in every reachable state.
THEOREM Invariant == Spec => []IInv
BY InitIInv, StepIInv, PTL DEF Spec

-----------------------------------------------------------------------------
(* The properties. *)

\* Sessions, the running call and the histories are always well typed: no
\* session ever counts more attempts or rounds than the limits.
THEOREM Typed == Spec => []TypeOK
<1>1. IInv => TypeOK
  BY DEF IInv
<1> QED BY <1>1, Invariant, PTL

\* Accepted rounds form one chain, for any number of sessions, rounds, failures
\* and restarts.
THEOREM ChainHolds == Spec => []Chained
<1>1. IInv => Chained
  <2> SUFFICES ASSUME IInv, NEW s \in Session, NEW i \in 1 .. Len(chain[s])
               PROVE  LinkAt(s, chain[s], i)
    BY DEF Chained
  <2>1. CASE s \in DOMAIN sessions
    BY <2>1 DEF IInv, Sessions, Good
  <2>2. CASE s \notin DOMAIN sessions
    <3>1. Len(chain[s]) = 0
      BY <2>2 DEF IInv, Unopened
    <3> QED BY <3>1
  <2> QED BY <2>1, <2>2
<1> QED BY <1>1, Invariant, PTL

\* The model sees one request per round, round after round.
THEOREM OneRequest == Spec => []Replays
<1>1. IInv => Replays
  <2> SUFFICES ASSUME IInv, NEW s \in Session PROVE OneRequestPerRound(launched[s])
    BY DEF Replays
  <2>1. CASE s \in DOMAIN sessions
    BY <2>1 DEF IInv, Sessions, Good
  <2>2. CASE s \notin DOMAIN sessions
    <3>1. Len(launched[s]) = 0
      BY <2>2 DEF IInv, Unopened
    <3> QED BY <3>1 DEF OneRequestPerRound
  <2> QED BY <2>1, <2>2
<1> QED BY <1>1, Invariant, PTL

\* A session is over exactly when its accepted rounds or its attempts say so.
THEOREM HaltsExactly == Spec => []Halts
<1>1. IInv => Halts
  <2> SUFFICES ASSUME IInv, NEW s \in DOMAIN sessions
               PROVE  /\ NoneAfterEnd(chain[s])
                      /\ Verdict(sessions[s], chain[s], launched[s], Busy(s))
    BY DEF Halts, Verdict, Busy
  <2> QED BY DEF IInv, Sessions, Good
<1> QED BY <1>1, Invariant, PTL

\* Short of a restart nothing moves a session that is over.
THEOREM OverIsFinal == Spec => Final
<1>1. ASSUME IInv, Submit, NEW s \in DOMAIN sessions, sessions[s].terminal
      PROVE  /\ s \in DOMAIN sessions' /\ sessions'[s] = sessions[s]
             /\ launched'[s] = launched[s] /\ chain'[s] = chain[s]
  <2>1. PICK r \in Request : Reserve(r)
    BY <1>1, SubmitRequest
  <2>2. r.session # s
    BY <2>1, <1>1 DEF Reserve, Linked, Stored
  <2>3. \E new : sessions' = Put(r.session, new)
    BY <2>1 DEF Reserve, Launch
  <2>4. s \in DOMAIN sessions' /\ sessions'[s] = sessions[s]
    BY <2>2, <2>3 DEF Put
  <2>5. launched' = launched \/ launched' = [launched EXCEPT ![r.session] = Append(@, r)]
    BY <2>1 DEF Reserve, Launch
  <2>6. launched'[s] = launched[s]
    BY <2>2, <2>5, <1>1 DEF IInv, TypeOK
  <2> QED BY <2>1, <2>4, <2>6 DEF Reserve
<1>2. ASSUME IInv, NEW r \in call, NEW s \in DOMAIN sessions, sessions[s].terminal,
             Fail(r) \/ \E res \in Result : Commit(r, res)
      PROVE  /\ s \in DOMAIN sessions' /\ sessions'[s] = sessions[s]
             /\ launched'[s] = launched[s] /\ chain'[s] = chain[s]
  <2>1. r.session # s
    BY <1>2, Calling DEF Good
  <2>2. \/ Fail(r)
        \/ \E res \in Result : Commit(r, res)
    BY <1>2
  <2>3. /\ \E new : sessions' = [sessions EXCEPT ![r.session] = new]
        /\ launched' = launched
        /\ chain' = chain \/ \E d : chain' = [chain EXCEPT ![r.session] = d]
    BY <2>2 DEF Fail, Commit
  <2> QED BY <2>1, <2>3, <1>2 DEF IInv, TypeOK
<1>3. IInv /\ [Next]_vars => [Over \/ Restart]_vars
  BY <1>1, <1>2 DEF Next, Over
<1> QED BY <1>3, Invariant, PTL DEF Spec, Final

-----------------------------------------------------------------------------
(* Bounds, and the room for a next round. *)

\* What is kept in memory is bounded; the launches are counted in IInv already.
Kept ==
    /\ Cardinality(DOMAIN sessions) <= MaxSessions
    /\ \A s \in DOMAIN sessions : Cardinality(sessions[s].all) <= MaxFindingIds

\* A server that just started keeps nothing.
LEMMA KeptInit == Init => Kept
<1> SUFFICES ASSUME Init PROVE Kept
  OBVIOUS
<1>1. DOMAIN sessions = {} /\ Cardinality({}) = 0
  BY FS_EmptySet DEF Init
<1> QED BY <1>1, BoundsAreNumbers DEF Kept

\* The attempts launched are the attempts counted, so the limit holds for both.
LEMMA AttemptsBounded == IInv => \A s \in Session : Len(launched[s]) <= MaxAttempts
<1> SUFFICES ASSUME IInv, NEW s \in Session PROVE Len(launched[s]) <= MaxAttempts
  OBVIOUS
<1>1. CASE s \in DOMAIN sessions
  <2>1. sessions[s].attempts \in 0 .. MaxAttempts
    BY <1>1 DEF IInv, TypeOK, SessionState
  <2>2. sessions[s].attempts = Len(launched[s])
    BY <1>1 DEF IInv, Sessions, Good, Tries
  <2> QED BY <2>1, <2>2, BoundsAreNumbers
<1>2. CASE s \notin DOMAIN sessions
  <2>1. Len(launched[s]) = 0
    BY <1>2 DEF IInv, Unopened
  <2> QED BY <2>1, BoundsAreNumbers
<1> QED BY <1>1, <1>2

\* Every step keeps what is in memory within its bounds.
LEMMA KeptStep == IInv /\ Kept /\ [Next]_vars => Kept'
<1> SUFFICES ASSUME IInv, Kept, [Next]_vars PROVE Kept'
  OBVIOUS
<1>1. CASE Submit
  <2>1. PICK r \in Request : Reserve(r)
    BY <1>1, SubmitRequest
  <2> DEFINE s == r.session
             st == Stored(s, r.scope)
  <2>2. /\ \E new : /\ sessions' = Put(s, new)
                    /\ new.all = st.all
        /\ r.session \in Session /\ r.scope \in Scope
    <3>1. r.session \in Session /\ r.scope \in Scope
      BY DEF Request
    <3>2. st \in SessionState
      BY <3>1, StoredGood
    <3>3. CASE HasBudget(s, r.scope)
      <4>1. sessions' = Put(s, [st EXCEPT !.pending = {r}, !.attempts = @ + 1])
        BY <2>1, <3>3 DEF Reserve, Launch
      <4>2. [st EXCEPT !.pending = {r}, !.attempts = @ + 1].all = st.all
        BY <3>2 DEF SessionState
      <4> QED BY <3>1, <4>1, <4>2
    <3>4. CASE ~ HasBudget(s, r.scope)
      <4>1. sessions' = Put(s, [st EXCEPT !.terminal = TRUE])
        BY <2>1, <3>4 DEF Reserve
      <4>2. [st EXCEPT !.terminal = TRUE].all = st.all
        BY <3>2 DEF SessionState
      <4> QED BY <3>1, <4>1, <4>2
    <3> QED BY <3>3, <3>4
  <2>3. DOMAIN sessions' = DOMAIN sessions \cup {s}
    BY <2>2 DEF Put
  <2>4. IsFiniteSet(DOMAIN sessions)
    BY FS_Subset, SessionsAreFinite DEF IInv, TypeOK
  <2>5. Cardinality(DOMAIN sessions') <= MaxSessions
    <3>1. CASE s \in DOMAIN sessions
      <4>1. DOMAIN sessions' = DOMAIN sessions
        BY <2>3, <3>1
      <4> QED BY <4>1 DEF Kept
    <3>2. CASE s \notin DOMAIN sessions
      <4>1. Cardinality(DOMAIN sessions) < MaxSessions
        BY <2>1, <3>2 DEF Reserve, Linked, Opens, Follows
      <4>2. Cardinality(DOMAIN sessions') = Cardinality(DOMAIN sessions) + 1
        BY <2>3, <2>4, <3>2, FS_AddElement
      <4>3. Cardinality(DOMAIN sessions) \in Nat /\ MaxSessions \in Nat
        BY <2>4, FS_CardinalityType, BoundsAreNumbers
      <4> QED BY <4>1, <4>2, <4>3
    <3> QED BY <3>1, <3>2
  <2>6. ASSUME NEW t \in DOMAIN sessions'
        PROVE  Cardinality(sessions'[t].all) <= MaxFindingIds
    <3>1. CASE t \in DOMAIN sessions
      <4>1. sessions'[t].all = sessions[t].all
        BY <2>2, <3>1 DEF Put, Stored
      <4> QED BY <3>1, <4>1 DEF Kept
    <3>2. CASE t \notin DOMAIN sessions
      <4>1. t = s /\ st = Opened(r.scope)
        BY <2>3, <3>2 DEF Stored
      <4>2. sessions'[t].all = {}
        BY <2>2, <4>1 DEF Put, Opened
      <4> QED BY <4>2, FS_EmptySet, BoundsAreNumbers
    <3> QED BY <3>1, <3>2
  <2> QED BY <2>5, <2>6 DEF Kept
<1>2. ASSUME NEW r \in call, Fail(r) PROVE Kept'
  <2>1. DOMAIN sessions' = DOMAIN sessions
    BY <1>2 DEF Fail
  <2>2. \A t \in DOMAIN sessions : sessions'[t].all = sessions[t].all
    BY <1>2 DEF Fail, IInv, TypeOK, SessionState
  <2> QED BY <2>1, <2>2 DEF Kept
<1>3. ASSUME NEW r \in call, NEW res \in Result, Commit(r, res) PROVE Kept'
  <2>1. sessions' = [sessions EXCEPT ![r.session] = Committed(r, res)]
    BY <1>3 DEF Commit
  <2>2. Cardinality(Committed(r, res).all) <= MaxFindingIds
    BY <1>3 DEF Commit, Valid, Committed
  <2>3. DOMAIN sessions' = DOMAIN sessions
    BY <2>1
  <2>4. \A t \in DOMAIN sessions :
           sessions'[t] = sessions[t] \/ sessions'[t] = Committed(r, res)
    BY <2>1
  <2> QED BY <2>2, <2>3, <2>4 DEF Kept
<1>4. CASE Restart
  <2>1. DOMAIN sessions' = {} /\ Cardinality({}) = 0
    BY <1>4, FS_EmptySet DEF Restart
  <2> QED BY <2>1, BoundsAreNumbers DEF Kept
<1>5. CASE UNCHANGED vars
  BY <1>5 DEF vars, Kept
<1> QED BY <1>1, <1>2, <1>3, <1>4, <1>5 DEF Next

\* The server never keeps more sessions than its capacity, never launches more
\* attempts for a session than the budget, and never keeps more finding
\* identifiers than a ledger may have.
THEOREM BoundsHold == Spec => []Bounded
<1>1. IInv /\ Kept => Bounded
  BY AttemptsBounded DEF Kept, Bounded
<1> QED BY <1>1, Invariant, KeptInit, KeptStep, PTL DEF Spec

\* Room for the longest ledger beside the scope and some plan.
RoomForLedger ==
    \E size \in Size : ScopeLength + size + EntryLength * MaxFindingIds <= MaxInput

\* A ledger with room for its longest form has room for a shorter one.
LEMMA ShorterLedger ==
    ASSUME NEW size \in Nat, NEW k \in Nat, k <= MaxFindingIds,
           ScopeLength + size + EntryLength * MaxFindingIds <= MaxInput
    PROVE  ScopeLength + size + EntryLength * k <= MaxInput
<1>1. /\ MaxFindingIds \in Nat /\ EntryLength \in Nat
      /\ ScopeLength \in Nat /\ MaxInput \in Nat
  BY BoundsAreNumbers
<1>2. EntryLength * k <= EntryLength * MaxFindingIds
  <2>1. PICK m \in Nat : MaxFindingIds = k + m
    <3>1. MaxFindingIds - k \in Nat /\ MaxFindingIds = k + (MaxFindingIds - k)
      BY <1>1
    <3> QED BY <3>1
  <2>2. EntryLength * MaxFindingIds = EntryLength * k + EntryLength * m
    BY <2>1, <1>1
  <2>3. EntryLength * m \in Nat /\ EntryLength * k \in Nat
    BY <1>1
  <2> QED BY <2>2, <2>3
<1>3. EntryLength * k \in Nat /\ EntryLength * MaxFindingIds \in Nat
  BY <1>1
<1> QED BY <1>1, <1>2, <1>3

\* Where every ledger fits beside the scope, a session that is not over can
\* always go on: by the replay of a failed round or by a next round.  The
\* assumption is what the limit on the whole request does not guarantee.
THEOREM NotStuckWithRoom == ASSUME RoomForLedger PROVE Spec => []NeverStuck
<1>1. IInv /\ Bounded => NeverStuck
  <2> SUFFICES ASSUME IInv, Bounded, NEW s \in DOMAIN sessions,
                      call = {}, ~ sessions[s].terminal
               PROVE  \E r \in NextRequests(s) : Acceptable(r)
    BY DEF NeverStuck
  <2> DEFINE st == sessions[s]
             c == chain[s]
  <2>1. /\ s \in Session /\ st \in SessionState
        /\ c \in Seq(Entry) /\ launched[s] \in Seq(Request)
        /\ st.round = 0 => st.pending # {}
    BY DEF IInv, TypeOK, Sessions
  <2>2. Good(s, st, c, launched[s], FALSE)
    <3>1. Busy(s) = FALSE
      BY DEF Busy
    <3> QED BY <3>1 DEF IInv, Sessions
  <2>3. st.attempts < MaxAttempts
    BY <2>1, <2>2, BudgetLeft
  <2>4. \A scope : Stored(s, scope) = st
    BY DEF Stored
  <2>5. Len(c) \in Nat /\ st.round = Len(c) /\ (c = <<>> <=> Len(c) = 0)
    BY <2>1, <2>2 DEF Good, Summary
  <2> HIDE DEF st, c
  <2>6. CASE st.pending # {}
    <3>1. PICK p : p \in st.pending
      BY <2>6
    <3>2. /\ st.pending = {p} /\ p.session = s /\ p.round = st.round + 1
          /\ p.prev = st.prev /\ p.scope = st.scope /\ p.ledger = st.all
          /\ WellFormed(p)
      BY <3>1, <2>2 DEF Good, Waiting
    <3>3. p.round > 1 => p.version > st.version
      BY <3>1, <2>2 DEF Good, Waiting
    <3>4. Linked(s, p.round, p.prev, p.scope, p.ledger)
      <4>1. CASE p.round = 1
        <5>1. c = <<>> /\ st.round = 0
          BY <4>1, <3>2, <2>5
        <5>2. st.prev = NoToken /\ st.all = {}
          BY <5>1, <2>2, <2>5 DEF Good, Summary, Earlier
        <5>3. Opens(s, p.prev, p.ledger)
          BY <5>1, <5>2, <3>2 DEF Opens, st
        <5> QED BY <4>1, <5>3, <2>4 DEF Linked, st
      <4>2. CASE p.round # 1
        <5>1. Follows(s, p.round, p.prev, p.scope, p.ledger)
          BY <3>2 DEF Follows, st
        <5> QED BY <4>2, <5>1, <2>4 DEF Linked, st
      <4> QED BY <4>1, <4>2
    <3>5. Newer(p) /\ HasBudget(s, p.scope) /\ Replayed(p)
      BY <2>3, <2>4, <3>2, <3>3 DEF Newer, HasBudget, Replayed, st
    <3>6. p \in NextRequests(s)
      BY <3>1, <2>6 DEF NextRequests, st
    <3> QED BY <3>2, <3>4, <3>5, <3>6 DEF Acceptable
  <2>7. CASE st.pending = {}
    <3>1. c # <<>> /\ st.round # 0 /\ st.round # MaxRounds
      <4>1. st.round # 0 /\ c # <<>>
        BY <2>1, <2>5, <2>7
      <4>2. ~ EndsAt(c, Len(c))
        BY <4>1, <2>2 DEF Good, Verdict, st
      <4> QED BY <4>1, <4>2, <2>5 DEF EndsAt
    <3>2. PICK size \in Size :
             ScopeLength + size + EntryLength * MaxFindingIds <= MaxInput
      BY DEF RoomForLedger
    <3> DEFINE r == [session |-> s, round |-> st.round + 1, prev |-> st.prev,
                     scope |-> st.scope, version |-> st.version + 1,
                     size |-> size, authorized |-> FALSE, ledger |-> st.all]
    <3>3. /\ r.session = s /\ r.round = st.round + 1 /\ r.prev = st.prev
          /\ r.scope = st.scope /\ r.version = st.version + 1
          /\ r.size = size /\ r.ledger = st.all
      OBVIOUS
    <3>4. r \in NextRequests(s)
      BY <2>7 DEF NextRequests, st
    <3> HIDE DEF r
    <3>5. WellFormed(r)
      <4>1. r.round \in 1 .. MaxRounds
        <5>1. st.round \in 0 .. MaxRounds /\ MaxRounds \in Nat
          BY <2>1, BoundsAreNumbers DEF SessionState
        <5> QED BY <5>1, <3>1, <3>3
      <4>2. Cardinality(st.all) \in Nat /\ Cardinality(st.all) <= MaxFindingIds
        <5>1. st.all \in SUBSET Finding
          BY <2>1 DEF SessionState
        <5> QED BY <5>1, FindingsAreFinite, FS_Subset, FS_CardinalityType
                DEF Bounded, st
      <4>3. size \in Nat
        BY SizesAreLengths
      <4>4. Length(r) <= MaxInput
        BY <3>2, <3>3, <4>2, <4>3, ShorterLedger DEF Length
      <4> QED BY <4>1, <4>2, <4>4, <3>3 DEF WellFormed
    <3>6. Linked(s, r.round, r.prev, r.scope, r.ledger)
      <4>1. Follows(s, r.round, r.prev, r.scope, r.ledger)
        BY <3>3 DEF Follows, st
      <4>2. r.round # 1
        BY <3>1, <3>3, <2>5
      <4> QED BY <4>1, <4>2, <2>4 DEF Linked, st
    <3>7. Newer(r) /\ HasBudget(s, r.scope) /\ Replayed(r)
      <4>1. st.version \in Nat
        BY <2>1 DEF SessionState
      <4> QED BY <4>1, <2>3, <2>4, <2>7, <3>3 DEF Newer, HasBudget, Replayed, st
    <3> QED BY <3>3, <3>4, <3>5, <3>6, <3>7 DEF Acceptable
  <2> QED BY <2>6, <2>7
<1> QED BY <1>1, Invariant, BoundsHold, PTL

=============================================================================
