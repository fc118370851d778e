-------------------------- MODULE WorkerFrontProofs --------------------------
(***************************************************************************)
(* Proofs about WorkerFront, for any number of isolates and of requests at *)
(* the same time, any deployment, and any lifetimes and limits.            *)
(***************************************************************************)
EXTENDS WorkerFront, FiniteSetTheorems, SequenceTheorems, TLAPS

Steps == {"idle", "route", "verify", "authorise", "asking", "queue"}

\* What the control plane may say.
Grant == [allow : BOOLEAN, reason : {"", "bad-credential"} \cup UNION {l.reasons : l \in Loads},
          width : {"narrow", "wide", "silent"}]

TypeOK ==
  /\ load \in Loads /\ now \in Nat
  /\ pc \in [Requests -> Steps]
  /\ DOMAIN req = Requests /\ DOMAIN home = Requests
  /\ asked \in [Requests -> Nat]
  /\ reply \in [Requests -> SUBSET [grant : Grant, at : Nat]]

\* A request for a queue.
Question(q) == q.route \in Routes /\ q.op \in {"read", "write"}

\* Whoever is under way has an isolate and asks for a queue; whoever waits for a verification has
\* presented a lease; whoever waits for the control plane asked not too long
\* ago, and was answered, if so, since.
UnderWay ==
  \A r \in Requests :
    /\ pc[r] # "idle" => home[r] \in Isolates /\ Question(req[r])
    /\ pc[r] = "verify" => req[r].cred \in Leases
    /\ pc[r] \notin {"asking", "queue"} => reply[r] = {}
    /\ pc[r] = "asking" =>
         /\ asked[r] <= now /\ now <= asked[r] + AskTimeout
         /\ \A p \in reply[r] : asked[r] <= p.at

Life(g) == IF g.allow THEN Positive ELSE Negative

\* What an isolate has heard it forgets in time, even if it was long on its way.
HeardInTime ==
  \A i \in Isolates : \A d \in decisions[i] :
    /\ d.key = decisionKey(d.about) /\ Question(d.about)
    /\ d.grant \in Grant /\ d.decided \in Nat /\ d.until \in Nat
    /\ d.until <= d.decided + AskTimeout + Life(d.grant)

DecisionsFinite ==
  DOMAIN decisions = Isolates /\ \A i \in Isolates : IsFiniteSet(decisions[i])

StateInv == TypeOK /\ UnderWay /\ HeardInTime /\ DecisionsFinite /\ CacheBounded
FrontInv == StateInv /\ AnswersFresh /\ LeaseInForce

-----------------------------------------------------------------------------
(* Facts about grants.                                                     *)

LEMMA GrantFields ==
  /\ \A w : Allowed(w).allow /\ Allowed(w).reason = "" /\ Allowed(w).width = w
  /\ \A why : ~Refused(why).allow /\ Refused(why).reason = why
  BY DEF Allowed, Refused

LEMMA NamedType == \A g \in Grant : Named(g) \in Grant
  BY DEF Named, Grant

LEMMA LifeType == \A g : Life(g) \in Nat
  BY TimeAssumption DEF Life

-----------------------------------------------------------------------------
(* Keys.                                                                   *)

\* A credential is recognised by how it is written.
LEMMA WrittenIsCredential ==
  ASSUME NEW c, NEW d, Written(c) = Written(d)
  PROVE  c = d
<1>1. ASSUME NEW n \in DOMAIN Split, NEW m, Split[n] = <<m>> PROVE n = m
  <2>1. Len(Split[n]) = 1
    BY <1>1
  <2>2. Split[n] = <<n>>
    BY <2>1, SpellingAssumption
  <2>3. <<n>> = <<m>>
    BY <1>1, <2>2
  <2>4. QED
    BY <2>3
<1>2. CASE c \in DOMAIN Split /\ d \in DOMAIN Split
  BY <1>2, SpellingAssumption DEF Written
<1>3. CASE c \in DOMAIN Split /\ d \notin DOMAIN Split
  BY <1>1, <1>3 DEF Written
<1>4. CASE c \notin DOMAIN Split /\ d \in DOMAIN Split
  BY <1>1, <1>4 DEF Written
<1>5. CASE c \notin DOMAIN Split /\ d \notin DOMAIN Split
  <2>1. <<c>> = <<d>>
    BY <1>5 DEF Written
  <2>2. QED
    BY <2>1
<1>6. QED
  BY <1>2, <1>3, <1>4, <1>5

\* What is joined last can be taken off again.
LEMMA LastOff ==
  ASSUME NEW S, NEW u \in Seq(S), NEW v \in Seq(S), NEW x \in Seq(S), NEW y \in Seq(S),
         Len(x) = 1, Len(y) = 1, u \o x = v \o y
  PROVE  u = v /\ x = y
<1>1. /\ Len(u \o x) = Len(u) + 1 /\ Len(v \o y) = Len(v) + 1
      /\ Len(u) \in Nat /\ Len(v) \in Nat
  <2>1. Len(u \o x) = Len(u) + Len(x)
    BY ConcatProperties
  <2>2. Len(v \o y) = Len(v) + Len(y)
    BY ConcatProperties
  <2>3. Len(u) \in Nat /\ Len(v) \in Nat
    BY LenProperties
  <2>4. QED
    BY <2>1, <2>2, <2>3
<1>2. Len(u) = Len(v)
  BY <1>1
<1>3. \A i \in 1 .. Len(u) : u[i] = v[i]
  <2> TAKE i \in 1 .. Len(u)
  <2>1. (u \o x)[i] = u[i] /\ (v \o y)[i] = v[i]
    BY <1>1, <1>2, ConcatProperties
  <2>2. QED
    BY <2>1
<1>4. u = v
  BY <1>2, <1>3, SeqEqual
<1>5. (u \o x)[Len(u) + 1] = x[1] /\ (v \o y)[Len(u) + 1] = y[1]
  BY <1>1, <1>2, ConcatProperties
<1>6. \A i \in 1 .. Len(x) : x[i] = y[i]
  BY <1>5
<1>7. x = y
  BY <1>6, SeqEqual
<1>8. QED
  BY <1>4, <1>7

\* The key of the cache leaves nothing of a question out, as long as estate and
\* station are in one piece.
LEMMA KeyIsQuestion ==
  ASSUME NEW x, NEW y, Question(x), Question(y), Clear(x), Clear(y),
         decisionKey(x) = decisionKey(y)
  PROVE  x.cred = y.cred /\ x.route = y.route /\ x.op = y.op
<1> DEFINE S == Pieces \cup {x.cred, y.cred} \cup Estates \cup Stations
                  \cup {"c2s", "s2c", "read", "write"}
           w(z) == Written(z.cred)
           e(z) == w(z) \o <<z.route.estate>>
           n(z) == e(z) \o <<z.route.station>>
           d(z) == n(z) \o <<z.route.dir>>
<1>1. ASSUME NEW z \in {x, y}
      PROVE  /\ w(z) \in Seq(S) /\ e(z) \in Seq(S) /\ n(z) \in Seq(S) /\ d(z) \in Seq(S)
             /\ z.route.estate \in S /\ z.route.station \in S /\ z.route.dir \in S /\ z.op \in S
             /\ decisionKey(z) = d(z) \o <<z.op>>
  <2>1. Question(z) /\ Clear(z)
    OBVIOUS
  <2>2. /\ z.route.estate \in Estates /\ z.route.station \in Stations
        /\ z.route.dir \in {"c2s", "s2c"} /\ z.op \in {"read", "write"}
    BY <2>1 DEF Question, Routes
  <2>3. Written(z.cred) \in Seq(S)
    <3>1. CASE z.cred \in DOMAIN Split
      <4>1. Split[z.cred] \in Seq(Pieces)
        BY <3>1, SpellingAssumption
      <4>2. QED
        BY <3>1, <4>1 DEF Written
    <3>2. CASE z.cred \notin DOMAIN Split
      BY <3>2 DEF Written
    <3>3. QED
      BY <3>1, <3>2
  <2>4. Split[z.route.estate] = <<z.route.estate>> /\ Split[z.route.station] = <<z.route.station>>
    BY <2>1, <2>2, SpellingAssumption DEF Clear
  <2>5. z.route.estate \in S /\ z.route.station \in S /\ z.route.dir \in S /\ z.op \in S
    BY <2>2
  <2>6. decisionKey(z) = d(z) \o <<z.op>>
    BY <2>4 DEF decisionKey
  <2>7. /\ <<z.route.estate>> \in Seq(S) /\ <<z.route.station>> \in Seq(S) /\ <<z.route.dir>> \in Seq(S)
    BY <2>5
  <2>8. e(z) \in Seq(S)
    BY <2>3, <2>7, ConcatProperties
  <2>9. n(z) \in Seq(S)
    BY <2>7, <2>8, ConcatProperties
  <2>10. d(z) \in Seq(S)
    BY <2>7, <2>9, ConcatProperties
  <2>11. QED
    BY <2>3, <2>5, <2>6, <2>8, <2>9, <2>10
<1>2. \A a, b \in S : /\ <<a>> \in Seq(S) /\ Len(<<a>>) = 1
                      /\ <<a>> = <<b>> => a = b
  OBVIOUS
<1>3. d(x) = d(y) /\ x.op = y.op
  <2> DEFINE s == <<x.op>>
             t == <<y.op>>
  <2>1. d(x) \o s = d(y) \o t
    BY <1>1
  <2>2. s \in Seq(S) /\ t \in Seq(S) /\ Len(s) = 1 /\ Len(t) = 1
    BY <1>1, <1>2
  <2>3. d(x) \in Seq(S) /\ d(y) \in Seq(S)
    BY <1>1
  <2>4. d(x) = d(y) /\ s = t
    <3> HIDE DEF S, w, e, n, d, s, t
    <3> QED
      BY <2>1, <2>2, <2>3, LastOff
  <2>5. QED
    BY <1>1, <1>2, <2>4
<1>4. n(x) = n(y) /\ x.route.dir = y.route.dir
  <2> DEFINE s == <<x.route.dir>>
             t == <<y.route.dir>>
  <2>1. n(x) \o s = n(y) \o t
    BY <1>1, <1>3
  <2>2. s \in Seq(S) /\ t \in Seq(S) /\ Len(s) = 1 /\ Len(t) = 1
    BY <1>1, <1>2
  <2>3. n(x) \in Seq(S) /\ n(y) \in Seq(S)
    BY <1>1
  <2>4. n(x) = n(y) /\ s = t
    <3> HIDE DEF S, w, e, n, d, s, t
    <3> QED
      BY <2>1, <2>2, <2>3, LastOff
  <2>5. QED
    BY <1>1, <1>2, <2>4
<1>5. e(x) = e(y) /\ x.route.station = y.route.station
  <2> DEFINE s == <<x.route.station>>
             t == <<y.route.station>>
  <2>1. e(x) \o s = e(y) \o t
    BY <1>1, <1>4
  <2>2. s \in Seq(S) /\ t \in Seq(S) /\ Len(s) = 1 /\ Len(t) = 1
    BY <1>1, <1>2
  <2>3. e(x) \in Seq(S) /\ e(y) \in Seq(S)
    BY <1>1
  <2>4. e(x) = e(y) /\ s = t
    <3> HIDE DEF S, w, e, n, d, s, t
    <3> QED
      BY <2>1, <2>2, <2>3, LastOff
  <2>5. QED
    BY <1>1, <1>2, <2>4
<1>6. w(x) = w(y) /\ x.route.estate = y.route.estate
  <2> DEFINE s == <<x.route.estate>>
             t == <<y.route.estate>>
  <2>1. w(x) \o s = w(y) \o t
    BY <1>1, <1>5
  <2>2. s \in Seq(S) /\ t \in Seq(S) /\ Len(s) = 1 /\ Len(t) = 1
    BY <1>1, <1>2
  <2>3. w(x) \in Seq(S) /\ w(y) \in Seq(S)
    BY <1>1
  <2>4. w(x) = w(y) /\ s = t
    <3> HIDE DEF S, w, e, n, d, s, t
    <3> QED
      BY <2>1, <2>2, <2>3, LastOff
  <2>5. QED
    BY <1>1, <1>2, <2>4
<1>7. x.cred = y.cred
  BY <1>6, WrittenIsCredential
<1>8. x.route = y.route
  BY <1>4, <1>5, <1>6 DEF Question, Routes
<1>9. QED
  BY <1>3, <1>7, <1>8

-----------------------------------------------------------------------------
(* The state.                                                              *)

LEMMA StateInit == Init => StateInv
<1> SUFFICES ASSUME Init PROVE StateInv
  OBVIOUS
<1>1. TypeOK
  BY DEF Init, TypeOK, Steps
<1>2. UnderWay
  BY DEF Init, UnderWay
<1>3. HeardInTime /\ DecisionsFinite
  BY FS_EmptySet DEF Init, HeardInTime, DecisionsFinite
<1>4. CacheBounded
  BY FS_EmptySet, TimeAssumption DEF Init, CacheBounded
<1>5. QED
  BY <1>1, <1>2, <1>3, <1>4 DEF StateInv

LEMMA CacheSame ==
  ASSUME StateInv, UNCHANGED decisions
  PROVE  HeardInTime' /\ DecisionsFinite' /\ CacheBounded'
  BY DEF StateInv, HeardInTime, DecisionsFinite, CacheBounded

LEMMA EndKeeps ==
  ASSUME StateInv, NEW r \in Requests, End(r), UNCHANGED <<load, now>>
  PROVE  TypeOK' /\ UnderWay'
<1>1. TypeOK'
  BY DEF StateInv, TypeOK, Steps, End, Go
<1>2. UnderWay'
  BY DEF StateInv, TypeOK, UnderWay, End, Go
<1>3. QED
  BY <1>1, <1>2

LEMMA AdmittedKeeps ==
  ASSUME StateInv, NEW r \in Requests, pc[r] # "idle",
         NEW said, NEW g, NEW by, NEW decided, NEW about,
         Admitted(r, said, g, by, decided, about),
         UNCHANGED <<load, now>>
  PROVE  TypeOK' /\ UnderWay'
<1>1. CASE Go(r, "queue") /\ UNCHANGED <<req, home, call>>
  <2>1. TypeOK'
    BY <1>1 DEF StateInv, TypeOK, Steps, Go, call
  <2>2. UnderWay'
    BY <1>1 DEF StateInv, TypeOK, UnderWay, Go, call
  <2>3. QED
    BY <2>1, <2>2
<1>2. QED
  BY <1>1, EndKeeps DEF Admitted

LEMMA StateArrive ==
  ASSUME StateInv, NEW r \in Requests, Arrive(r)
  PROVE  StateInv'
<1>1. TypeOK'
  BY DEF Arrive, StateInv, TypeOK, Steps, Go, call
<1>2. Question(req'[r])
  <2>1. load \in Loads /\ DOMAIN req = Requests
    BY DEF StateInv, TypeOK
  <2>2. PICK q \in load.offered[r] :
          req' = [req EXCEPT ![r] = [shape |-> q.shape, cred |-> q.cred, route |-> q.route,
                                     op |-> Op(q.shape), bytes |-> q.bytes]]
    BY DEF Arrive
  <2>3. req'[r].route = q.route /\ req'[r].op = Op(q.shape)
    BY <2>1, <2>2
  <2>4. q.route \in Routes
    BY <2>1, <2>2, LoadAssumption
  <2>5. QED
    BY <2>3, <2>4 DEF Question, Op
<1>3. UnderWay'
  <2>1. \A x \in Requests \ {r} : req'[x] = req[x]
    BY DEF Arrive, StateInv, TypeOK
  <2>2. \A x \in Requests : pc'[x] # "idle" => Question(req'[x])
    BY <1>2, <2>1 DEF Arrive, Go, StateInv, TypeOK, UnderWay
  <2>3. QED
    BY <2>1, <2>2 DEF Arrive, StateInv, TypeOK, UnderWay, Go, call
<1>4. QED
  BY <1>1, <1>3, CacheSame DEF Arrive, StateInv

\* A request that goes on to be authorised, or to have its lease verified.
LEMMA StateOn ==
  ASSUME StateInv, NEW r \in Requests, pc[r] \in {"route", "verify"},
         Go(r, "authorise") \/ (Go(r, "verify") /\ req[r].cred \in Leases),
         UNCHANGED <<load, now, req, home, call>>
  PROVE  TypeOK' /\ UnderWay'
<1>1. TypeOK'
  BY DEF StateInv, TypeOK, Steps, Go, call
<1>2. UnderWay'
  BY DEF StateInv, TypeOK, UnderWay, Go, call
<1>3. QED
  BY <1>1, <1>2

LEMMA StateRoute ==
  ASSUME StateInv, NEW r \in Requests, Route(r)
  PROVE  StateInv'
<1>1. UNCHANGED <<load, now, decisions>> /\ pc[r] = "route"
  BY DEF Route
<1>2. \/ End(r)
      \/ /\ Go(r, IF req[r].cred \in Leases THEN "verify" ELSE "authorise")
         /\ UNCHANGED <<req, home, call>>
  BY DEF Route, Respond
<1>3. TypeOK' /\ UnderWay'
  <2>1. CASE End(r)
    BY <1>1, <2>1, EndKeeps
  <2>2. CASE /\ Go(r, IF req[r].cred \in Leases THEN "verify" ELSE "authorise")
             /\ UNCHANGED <<req, home, call>>
    <3>1. UNCHANGED <<load, now, req, home, call>>
      BY <1>1, <2>2
    <3>2. Go(r, "authorise") \/ (Go(r, "verify") /\ req[r].cred \in Leases)
      BY <2>2
    <3>3. QED
      BY <1>1, <3>1, <3>2, StateOn
  <2>3. QED
    BY <1>2, <2>1, <2>2
<1>4. QED
  BY <1>1, <1>3, CacheSame DEF StateInv

LEMMA StateVerified ==
  ASSUME StateInv, NEW r \in Requests, Verified(r)
  PROVE  StateInv'
<1>1. UNCHANGED <<load, now, decisions>> /\ pc[r] = "verify"
  BY DEF Verified
<1>2. \/ Go(r, "authorise") /\ UNCHANGED <<req, home, call>>
      \/ Admitted(r, checked(req[r].cred), checked(req[r].cred), "lease", now, req[r])
  BY DEF Verified
<1>3. TypeOK' /\ UnderWay'
  <2>1. CASE Admitted(r, checked(req[r].cred), checked(req[r].cred), "lease", now, req[r])
    BY <1>1, <2>1, AdmittedKeeps
  <2>2. CASE Go(r, "authorise") /\ UNCHANGED <<req, home, call>>
    <3>1. UNCHANGED <<load, now, req, home, call>>
      BY <1>1, <2>2
    <3>2. QED
      BY <1>1, <2>2, <3>1, StateOn
  <2>3. QED
    BY <1>2, <2>1, <2>2
<1>4. QED
  BY <1>1, <1>3, CacheSame DEF StateInv

\* The answers that leave the cache alone.
LEMMA StateAdmit ==
  ASSUME StateInv, NEW r \in Requests,
         AdmitLocal(r) \/ AdmitNone(r) \/ AdmitCached(r) \/ AskFail(r)
  PROVE  StateInv'
<1>1. /\ pc[r] # "idle" /\ UNCHANGED <<load, now, decisions>>
      /\ \E said, g, by, decided, about : Admitted(r, said, g, by, decided, about)
  BY DEF AdmitLocal, AdmitNone, AdmitCached, AskFail
<1>2. TypeOK' /\ UnderWay'
  BY <1>1, AdmittedKeeps
<1>3. QED
  BY <1>1, <1>2, CacheSame DEF StateInv

LEMMA StateAsk ==
  ASSUME StateInv, NEW r \in Requests, Ask(r)
  PROVE  StateInv'
<1>1. TypeOK'
  BY DEF Ask, StateInv, TypeOK, Steps, Go
<1>2. UnderWay'
  BY TimeAssumption DEF Ask, StateInv, TypeOK, UnderWay, Go
<1>3. QED
  BY <1>1, <1>2, CacheSame DEF Ask, StateInv

LEMMA StateDecide ==
  ASSUME StateInv, NEW r \in Requests, Decide(r)
  PROVE  StateInv'
<1>0. load \in Loads /\ load.widths \subseteq {"narrow", "wide", "silent"}
  BY LoadAssumption DEF StateInv, TypeOK
<1>1. PICK g \in Grant : reply' = [reply EXCEPT ![r] = {[grant |-> g, at |-> now]}]
  <2>1. load.reasons \subseteq UNION {l.reasons : l \in Loads}
    BY <1>0
  <2>2. PlaneGrants \subseteq Grant
    <3>1. ASSUME NEW why \in load.reasons PROVE Refused(why) \in Grant
      BY <2>1 DEF Refused, Grant
    <3>2. ASSUME NEW why \in load.reasons, NEW v \in load.widths
          PROVE  [Allowed(v) EXCEPT !.reason = why] \in Grant
      BY <1>0, <2>1 DEF Allowed, Grant
    <3>3. QED
      BY <3>1, <3>2 DEF PlaneGrants
  <2>3. QED
    BY <2>2 DEF Decide
<1>2. pc[r] = "asking" /\ UNCHANGED <<load, now, pc, req, home, decisions, asked>>
  BY DEF Decide
<1> DEFINE p == [grant |-> g, at |-> now]
<1>3. p \in [grant : Grant, at : Nat] /\ p.at = now
  BY DEF StateInv, TypeOK
<1>4. reply' = [reply EXCEPT ![r] = {p}]
  BY <1>1
<1> HIDE DEF p
<1>5. TypeOK'
  BY <1>2, <1>3, <1>4 DEF StateInv, TypeOK
<1>6. UnderWay'
  BY <1>2, <1>3, <1>4 DEF StateInv, TypeOK, UnderWay
<1>7. QED
  BY <1>2, <1>5, <1>6, CacheSame DEF StateInv

LEMMA StateTick == StateInv /\ Tick => StateInv'
<1> SUFFICES ASSUME StateInv, Tick PROVE StateInv'
  OBVIOUS
<1>1. TypeOK'
  BY DEF Tick, StateInv, TypeOK, call
<1>2. UnderWay'
  BY TimeAssumption DEF Tick, TimedOut, StateInv, TypeOK, UnderWay, call
<1>3. QED
  BY <1>1, <1>2, CacheSame DEF Tick, StateInv

LEMMA StateEvict ==
  ASSUME StateInv, NEW i \in Isolates, Evict(i)
  PROVE  StateInv'
<1>1. /\ decisions' = [decisions EXCEPT ![i] = {}]
      /\ UNCHANGED <<load, now, pc, req, home, call>>
  BY DEF Evict
<1>2. TypeOK' /\ UnderWay'
  BY <1>1 DEF StateInv, TypeOK, UnderWay, call
<1>3. HeardInTime' /\ DecisionsFinite'
  BY <1>1, FS_EmptySet DEF StateInv, HeardInTime, DecisionsFinite
<1>4. CacheBounded'
  BY <1>1, FS_EmptySet, TimeAssumption DEF StateInv, DecisionsFinite, CacheBounded
<1>5. QED
  BY <1>2, <1>3, <1>4 DEF StateInv

\* A full cache is emptied before the answer goes in, so there is always room.
LEMMA RoomFacts ==
  ASSUME NEW D, IsFiniteSet(D), Cardinality(D) <= MaxCached, NEW k, NEW e
  PROVE  LET K == {d \in Room(D) : d.key # k} \cup {e}
         IN  IsFiniteSet(K) /\ Cardinality(K) <= MaxCached
<1> DEFINE S == {d \in Room(D) : d.key # k}
<1>1. /\ Room(D) \subseteq D /\ IsFiniteSet(Room(D))
      /\ Cardinality(Room(D)) \in Nat /\ Cardinality(Room(D)) + 1 <= MaxCached
  <2>1. CASE Cardinality(D) >= MaxCached
    BY <2>1, FS_EmptySet, TimeAssumption DEF Room
  <2>2. CASE ~(Cardinality(D) >= MaxCached)
    BY <2>2, FS_CardinalityType, TimeAssumption DEF Room
  <2>3. QED
    BY <2>1, <2>2
<1>2. S \in SUBSET Room(D)
  OBVIOUS
<1>3. IsFiniteSet(S) /\ Cardinality(S) <= Cardinality(Room(D)) /\ Cardinality(S) \in Nat
  <2> HIDE DEF S
  <2> QED
    BY <1>1, <1>2, FS_Subset, FS_CardinalityType
<1>4. IsFiniteSet(S \cup {e}) /\ Cardinality(S \cup {e}) <= Cardinality(S) + 1
  <2> HIDE DEF S
  <2> QED
    BY <1>3, FS_AddElement
<1>5. Cardinality(S \cup {e}) \in Nat
  <2> HIDE DEF S
  <2> QED
    BY <1>4, FS_CardinalityType
<1>6. QED
  <2> HIDE DEF S
  <2>1. Cardinality(S \cup {e}) <= MaxCached
    BY <1>1, <1>3, <1>4, <1>5, TimeAssumption
  <2>2. QED
    BY <1>4, <2>1 DEF S

\* What is heard was said within the time the call may take.
LEMMA SaidInTime ==
  ASSUME StateInv, NEW r \in Requests, pc[r] = "asking", NEW p \in reply[r]
  PROVE  /\ Named(p.grant) \in Grant /\ p.at \in Nat
         /\ now <= p.at + AskTimeout
<1>1. p \in [grant : Grant, at : Nat]
  BY DEF StateInv, TypeOK
<1>2. asked[r] \in Nat /\ asked[r] <= p.at /\ now <= asked[r] + AskTimeout
  BY DEF StateInv, TypeOK, UnderWay
<1>3. QED
  BY <1>1, <1>2, NamedType, TimeAssumption DEF StateInv, TypeOK

LEMMA StateHear ==
  ASSUME StateInv, NEW r \in Requests, Hear(r)
  PROVE  StateInv'
<1>1. PICK p \in reply[r] :
        /\ pc[r] = "asking"
        /\ decisions' = [decisions EXCEPT ![home[r]] = Kept(r, Named(p.grant), p.at)]
        /\ Admitted(r, Named(p.grant), hosted(Named(p.grant)), "plane", p.at, req[r])
        /\ UNCHANGED <<load, now>>
  BY DEF Hear
<1> DEFINE g == Named(p.grant)
           i == home[r]
           k == decisionKey(req[r])
           e == [key |-> k, grant |-> g, decided |-> p.at, about |-> req[r],
                 until |-> now + Life(g)]
           K == {d \in Room(decisions[i]) : d.key # k} \cup {e}
<1>2. TypeOK' /\ UnderWay'
  BY <1>1, AdmittedKeeps
<1>3. i \in Isolates /\ Question(req[r])
  BY <1>1 DEF StateInv, UnderWay
<1>4. decisions' = [decisions EXCEPT ![i] = K]
  BY <1>1 DEF Kept, Life
<1>5. g \in Grant /\ p.at \in Nat /\ now <= p.at + AskTimeout
  BY <1>1, SaidInTime
<1>6. Life(g) \in Nat /\ AskTimeout \in Nat /\ now \in Nat
  BY LifeType, TimeAssumption DEF StateInv, TypeOK
<1>7. /\ e.key = k /\ e.grant = g /\ e.decided = p.at /\ e.about = req[r]
      /\ e.until = now + Life(g)
  OBVIOUS
<1> HIDE DEF g, e
<1>8. /\ e.key = decisionKey(e.about) /\ Question(e.about)
      /\ e.grant \in Grant /\ e.decided \in Nat /\ e.until \in Nat
      /\ e.until <= e.decided + AskTimeout + Life(e.grant)
  BY <1>3, <1>5, <1>6, <1>7
<1>9. Room(decisions[i]) \subseteq decisions[i]
  BY DEF Room
<1>10. HeardInTime'
  BY <1>3, <1>4, <1>8, <1>9 DEF StateInv, DecisionsFinite, HeardInTime
<1>11. IsFiniteSet(K) /\ Cardinality(K) <= MaxCached
  <2>1. IsFiniteSet(decisions[i]) /\ Cardinality(decisions[i]) <= MaxCached
    BY <1>3 DEF StateInv, DecisionsFinite, CacheBounded
  <2>2. QED
    BY <2>1, RoomFacts
<1>12. DecisionsFinite'
  <2> HIDE DEF K
  <2> QED
    BY <1>3, <1>4, <1>11 DEF StateInv, DecisionsFinite
<1>13. \A d, x \in K : d.key = x.key => d = x
  BY <1>3, <1>7, <1>9 DEF StateInv, CacheBounded
<1>14. CacheBounded'
  <2> HIDE DEF K
  <2> QED
    BY <1>3, <1>4, <1>11, <1>13 DEF StateInv, DecisionsFinite, CacheBounded
<1>15. QED
  BY <1>2, <1>10, <1>12, <1>14 DEF StateInv

LEMMA StateDispatch ==
  ASSUME StateInv, NEW r \in Requests, Dispatch(r)
  PROVE  StateInv'
<1>1. End(r) /\ UNCHANGED <<load, now, decisions>>
  BY DEF Dispatch, Respond
<1>2. QED
  BY <1>1, EndKeeps, CacheSame DEF StateInv

LEMMA StateNext == StateInv /\ [Next]_vars => StateInv'
<1> SUFFICES ASSUME StateInv, [Next]_vars PROVE StateInv'
  OBVIOUS
<1>1. ASSUME UNCHANGED vars PROVE StateInv'
  <2>1. TypeOK' /\ UnderWay'
    BY <1>1 DEF vars, call, StateInv, TypeOK, UnderWay
  <2>2. QED
    BY <1>1, <2>1, CacheSame DEF vars, StateInv
<1>2. ASSUME NEW r \in Requests, Run(r) PROVE StateInv'
  BY <1>2, StateRoute, StateVerified, StateAdmit, StateAsk, StateHear, StateDispatch
  DEF Run, AskTimesOut
<1>3. QED
  BY <1>1, <1>2, StateArrive, StateDecide, StateAdmit, StateTick, StateEvict DEF Next

-----------------------------------------------------------------------------
(* The answers.                                                            *)

\* The one status AnswersFresh speaks of.
Outage(code) == code = 503

\* The table gives it for one reason only.
LEMMA StatusFacts == \A why : Outage(STATUS(why)) <=> why = "authoriser-unavailable"
<1> SUFFICES ASSUME NEW why PROVE Outage(STATUS(why)) <=> why = "authoriser-unavailable"
  OBVIOUS
<1>1. CASE why = "authoriser-unavailable"
  <2>1. STATUS(why) = 503
    BY <1>1 DEF STATUS
  <2>2. QED
    BY <1>1, <2>1 DEF Outage
<1>2. CASE why # "authoriser-unavailable"
  <2>1. STATUS(why) \in {401, 400, 413, 429, 410, 500, 200}
    BY <1>2 DEF STATUS
  <2>2. ~Outage(STATUS(why))
    BY <2>1 DEF Outage
  <2>3. QED
    BY <1>2, <2>2
<1>3. QED
  BY <1>1, <1>2

LEMMA AnswerNone ==
  ASSUME NEW code, code \in {0, 200, 202, 400, 404, 405},
         answer' = NoAnswer \/ answer' = [NoAnswer EXCEPT !.status = code]
  PROVE  AnswersFresh' /\ LeaseInForce'
<1>1. answer'.by = "nobody" /\ answer'.status \in {0, code}
  BY DEF NoAnswer
<1>2. ~(answer'.status = 503)
  BY <1>1
<1>3. QED
  BY <1>1, <1>2 DEF AnswersFresh, LeaseInForce

\* The fields of what admit finds out.
LEMMA AdmittedFields ==
  ASSUME NEW r, NEW said, NEW g, NEW by, NEW decided, NEW about,
         Admitted(r, said, g, by, decided, about)
  PROVE  /\ answer'.grant = g /\ answer'.by = by /\ answer'.at = now
         /\ answer'.decided = decided /\ answer'.about = about /\ answer'.q = req[r]
         /\ answer'.said = said
         /\ Outage(answer'.status) <=> (~g.allow /\ g.reason = "authoriser-unavailable")
<1>1. /\ answer'.grant = g /\ answer'.said = said /\ answer'.by = by /\ answer'.at = now
      /\ answer'.decided = decided /\ answer'.about = about /\ answer'.q = req[r]
      /\ answer'.status = IF g.allow THEN 0 ELSE STATUS(g.reason)
  BY DEF Admitted
<1>2. ~Outage(0)
  BY DEF Outage
<1>3. CASE g.allow
  <2>1. answer'.status = 0
    BY <1>1, <1>3
  <2>2. QED
    BY <1>1, <1>2, <1>3, <2>1
<1>4. CASE ~g.allow
  <2>1. answer'.status = STATUS(g.reason)
    BY <1>1, <1>4
  <2>2. QED
    BY <1>1, <1>4, <2>1, StatusFacts
<1>5. QED
  BY <1>3, <1>4

\* Everybody but the control plane and an outage.
LEMMA AnswerOther ==
  ASSUME NEW r, NEW said, NEW g, NEW by \in {"lease", "config", "relay"},
         Admitted(r, said, g, by, now, req[r]), g.reason # "authoriser-unavailable"
  PROVE  AnswersFresh'
<1>1. answer'.by = by /\ ~Outage(answer'.status)
  BY AdmittedFields
<1>2. QED
  BY <1>1 DEF AnswersFresh, Outage

LEMMA AnswerLease ==
  ASSUME StateInv, NEW r \in Requests, pc[r] = "verify",
         Admitted(r, checked(req[r].cred), checked(req[r].cred), "lease", now, req[r]), UNCHANGED load
  PROVE  AnswersFresh' /\ LeaseInForce'
<1> DEFINE l == req[r].cred
           g == checked(l)
<1>1. g.reason # "authoriser-unavailable"
  BY GrantFields DEF checked
<1>2. AnswersFresh'
  BY <1>1, AnswerOther
<1>3. answer'.grant = g /\ answer'.at = now /\ answer'.q.cred = l
  BY AdmittedFields
<1>4. l.nbf \in Nat /\ l.exp \in Nat
  BY LeaseAssumption DEF StateInv, UnderWay
<1>5. g.allow => /\ bound.keyed /\ l.genuine /\ l.covers
                 /\ ~(l.exp - l.nbf > MaxLife) /\ InWindow(l)
  BY GrantFields DEF checked
<1>6. g.allow => l.nbf <= now /\ now < l.exp /\ now < l.nbf + MaxLife
  BY <1>4, <1>5, TimeAssumption DEF InWindow, StateInv, TypeOK
<1>7. LeaseInForce'
  <2> HIDE DEF g, l
  <2> QED
    BY <1>3, <1>5, <1>6 DEF LeaseInForce, bound
<1>8. QED
  BY <1>2, <1>7

\* A no of the control plane after the tenant rule is the same no.
LEMMA HostedFacts ==
  ASSUME NEW g, ~hosted(g).allow, hosted(g).reason = "authoriser-unavailable"
  PROVE  ~g.allow /\ g.reason = "authoriser-unavailable"
  BY GrantFields DEF hosted

LEMMA AnswerPlane ==
  ASSUME NEW r, NEW g \in Grant, NEW t, NEW about,
         Admitted(r, g, hosted(g), "plane", t, about), Question(about), Question(req[r]),
         decisionKey(about) = decisionKey(req[r]),
         now <= t + AskTimeout \/ now < t + AskTimeout + Life(g)
  PROVE  AnswersFresh' /\ LeaseInForce'
<1> DEFINE h == hosted(g)
<1>1. ~h.allow /\ h.reason = "authoriser-unavailable"
        => ~g.allow /\ g.reason = "authoriser-unavailable"
  BY HostedFacts
<1> HIDE DEF h
<1>2. /\ answer'.said = g /\ answer'.by = "plane" /\ answer'.at = now
      /\ answer'.decided = t /\ answer'.about = about /\ answer'.q = req[r]
      /\ Outage(answer'.status) <=> (~h.allow /\ h.reason = "authoriser-unavailable")
  <2>1. Admitted(r, g, h, "plane", t, about)
    BY DEF h
  <2>2. QED
    BY <2>1, AdmittedFields
<1>3. (IF g.allow THEN Positive ELSE Negative) = Life(g)
  BY DEF Life
<1>4. answer'.status = 503 => ~g.allow /\ g.reason = "authoriser-unavailable"
  BY <1>1, <1>2 DEF Outage
<1>5. Clear(about) /\ Clear(req[r]) =>
        about.cred = req[r].cred /\ about.route = req[r].route /\ about.op = req[r].op
  BY KeyIsQuestion
<1>6. AnswersFresh'
  <2>1. \/ answer'.at <= answer'.decided + AskTimeout
        \/ answer'.at < answer'.decided + AskTimeout
             + (IF answer'.said.allow THEN Positive ELSE Negative)
    BY <1>2, <1>3
  <2>2. decisionKey(answer'.about) = decisionKey(answer'.q) /\ answer'.by = "plane"
    BY <1>2
  <2>3. Clear(answer'.about) /\ Clear(answer'.q) =>
          /\ answer'.about.cred = answer'.q.cred /\ answer'.about.route = answer'.q.route
          /\ answer'.about.op = answer'.q.op
    BY <1>2, <1>5
  <2>4. answer'.status = 503 =>
          ~answer'.said.allow /\ answer'.said.reason = "authoriser-unavailable"
    BY <1>2, <1>4
  <2>5. QED
    BY <2>1, <2>2, <2>3, <2>4 DEF AnswersFresh, decisionKey, Written, Clear
<1>7. QED
  BY <1>2, <1>6 DEF LeaseInForce

LEMMA AnswerCached ==
  ASSUME StateInv, NEW r \in Requests, AdmitCached(r)
  PROVE  AnswersFresh' /\ LeaseInForce'
<1>1. PICK d \in Held(r) : Admitted(r, d.grant, hosted(d.grant), "plane", d.decided, d.about)
  BY DEF AdmitCached
<1>2. home[r] \in Isolates /\ Question(req[r])
  BY DEF AdmitCached, StateInv, UnderWay
<1>3. /\ d.key = decisionKey(d.about) /\ d.key = decisionKey(req[r]) /\ now < d.until
      /\ Question(d.about)
      /\ d.grant \in Grant /\ d.decided \in Nat /\ d.until \in Nat
      /\ d.until <= d.decided + AskTimeout + Life(d.grant)
  BY <1>2 DEF Held, StateInv, HeardInTime
<1>4. now < d.decided + AskTimeout + Life(d.grant)
  BY <1>3, LifeType, TimeAssumption DEF StateInv, TypeOK
<1>5. QED
  BY <1>1, <1>2, <1>3, <1>4, AnswerPlane

LEMMA AnswerHeard ==
  ASSUME StateInv, NEW r \in Requests, Hear(r)
  PROVE  AnswersFresh' /\ LeaseInForce'
<1>1. PICK p \in reply[r] :
        pc[r] = "asking" /\ Admitted(r, Named(p.grant), hosted(Named(p.grant)), "plane", p.at, req[r])
  BY DEF Hear
<1>2. Named(p.grant) \in Grant /\ now <= p.at + AskTimeout
  BY <1>1, SaidInTime
<1>3. Question(req[r])
  BY <1>1 DEF StateInv, UnderWay
<1>4. QED
  BY <1>1, <1>2, <1>3, AnswerPlane

LEMMA AnswerLocal ==
  ASSUME NEW r \in Requests, AdmitLocal(r) \/ AdmitNone(r)
  PROVE  AnswersFresh' /\ LeaseInForce'
<1>1. ASSUME NEW g \in admitScoped(req[r]) \cup admitStatic(req[r])
      PROVE  hosted(g).reason # "authoriser-unavailable"
  <2>1. (\E w : g = Allowed(w)) \/ \E why : g = Refused(why) /\ why # "authoriser-unavailable"
    BY DEF admitScoped, admitStatic
  <2>2. QED
    BY <2>1, GrantFields DEF hosted
<1>2. \E by \in {"config", "relay"} : \E said, g :
        Admitted(r, said, g, by, now, req[r]) /\ g.reason # "authoriser-unavailable"
  <2>1. CASE AdmitLocal(r)
    <3>1. PICK g \in admitScoped(req[r]) \cup admitStatic(req[r]) :
            Admitted(r, g, hosted(g), "config", now, req[r])
      BY <2>1 DEF AdmitLocal
    <3>2. QED
      BY <1>1, <3>1
  <2>2. CASE AdmitNone(r)
    <3> DEFINE g == Refused("no-credential")
    <3>1. Admitted(r, g, g, "relay", now, req[r])
      BY <2>2 DEF AdmitNone
    <3>2. g.reason = "no-credential"
      BY GrantFields
    <3> HIDE DEF g
    <3>3. QED
      BY <3>1, <3>2
  <2>3. QED
    BY <2>1, <2>2
<1>3. PICK by \in {"config", "relay"} : \E said, g :
        Admitted(r, said, g, by, now, req[r]) /\ g.reason # "authoriser-unavailable"
  BY <1>2
<1>4. PICK said, g : Admitted(r, said, g, by, now, req[r]) /\ g.reason # "authoriser-unavailable"
  BY <1>3
<1>5. AnswersFresh'
  BY <1>4, AnswerOther
<1>6. answer'.by = by
  BY <1>4, AdmittedFields
<1>7. QED
  BY <1>5, <1>6 DEF LeaseInForce

LEMMA AnswerFailed ==
  ASSUME NEW r \in Requests, AskFail(r)
  PROVE  AnswersFresh' /\ LeaseInForce'
<1> DEFINE g == Refused("authoriser-unavailable")
<1>1. ~g.allow /\ g.reason = "authoriser-unavailable"
  BY GrantFields
<1>2. Admitted(r, g, g, "outage", now, req[r])
  BY DEF AskFail
<1> HIDE DEF g
<1>3. answer'.by = "outage" /\ Outage(answer'.status)
  BY <1>1, <1>2, AdmittedFields
<1>4. QED
  BY <1>3 DEF AnswersFresh, LeaseInForce, Outage

LEMMA AnsweredNext == FrontInv /\ [Next]_vars => AnswersFresh' /\ LeaseInForce'
<1> SUFFICES ASSUME FrontInv, [Next]_vars PROVE AnswersFresh' /\ LeaseInForce'
  OBVIOUS
<1>0. StateInv
  BY DEF FrontInv
<1>1. ASSUME UNCHANGED vars PROVE AnswersFresh' /\ LeaseInForce'
  BY <1>1 DEF vars, FrontInv, AnswersFresh, LeaseInForce, decisionKey, Written, Clear, bound
<1>2. ASSUME answer' = NoAnswer PROVE AnswersFresh' /\ LeaseInForce'
  BY <1>2, AnswerNone
<1>3. ASSUME NEW r \in Requests, NEW code \in {200, 202, 400, 404, 405}, Respond(r, code)
      PROVE  AnswersFresh' /\ LeaseInForce'
  BY <1>3, AnswerNone DEF Respond
<1>4. ASSUME NEW r \in Requests, Route(r) PROVE AnswersFresh' /\ LeaseInForce'
  <2>1. STATUS("bad-route") = 400
    BY DEF STATUS
  <2>2. \/ Respond(r, 200) \/ Respond(r, 404) \/ Respond(r, STATUS("bad-route"))
        \/ answer' = NoAnswer
    BY <1>4 DEF Route
  <2>3. Respond(r, STATUS("bad-route")) => Respond(r, 400)
    BY <2>1
  <2>4. QED
    BY <1>2, <1>3, <2>2, <2>3
<1>5. ASSUME NEW r \in Requests, Dispatch(r) PROVE AnswersFresh' /\ LeaseInForce'
  <2>1. Respond(r, 202) \/ Respond(r, 200) \/ Respond(r, 405)
    BY <1>5 DEF Dispatch
  <2>2. QED
    BY <1>3, <2>1
<1>6. ASSUME NEW r \in Requests, Verified(r) PROVE AnswersFresh' /\ LeaseInForce'
  BY <1>0, <1>2, <1>6, AnswerLease DEF Verified
<1>7. ASSUME NEW r \in Requests, Arrive(r) \/ Ask(r) \/ Decide(r)
      PROVE  AnswersFresh' /\ LeaseInForce'
  BY <1>2, <1>7 DEF Arrive, Ask, Decide
<1>8. ASSUME Tick \/ \E i \in Isolates : Evict(i) PROVE AnswersFresh' /\ LeaseInForce'
  BY <1>2, <1>8 DEF Tick, Evict
<1>9. QED
  BY <1>0, <1>1, <1>4, <1>5, <1>6, <1>7, <1>8, AnswerLocal, AnswerCached, AnswerHeard, AnswerFailed
  DEF Next, Run, AskTimesOut

LEMMA FrontInvariant == Spec => []FrontInv
<1>1. Init => FrontInv
  <2>1. Init => AnswersFresh /\ LeaseInForce
    <3>1. ASSUME Init PROVE answer.by = "nobody" /\ answer.status = 0
      BY <3>1 DEF Init, NoAnswer
    <3>2. QED
      BY <3>1 DEF AnswersFresh, LeaseInForce
  <2>2. QED
    BY <2>1, StateInit DEF FrontInv
<1>2. FrontInv /\ [Next]_vars => FrontInv'
  BY StateNext, AnsweredNext DEF FrontInv
<1>3. QED
  BY <1>1, <1>2, PTL DEF Spec

\* An isolate never holds more than MAX_CACHED decisions nor two for one question,
\* however many answers it awaits at the same time (worker.ts, admitRemote).
THEOREM CacheStaysBounded == Spec => []CacheBounded
<1>1. FrontInv => CacheBounded
  BY DEF FrontInv, StateInv
<1>2. QED
  BY <1>1, FrontInvariant, PTL

\* Whatever the lifetimes, the timer, the names and the reasons, a decision is served
\* for its lifetime plus the time of a call, to the questions that share its key, which
\* is one question as long as no estate and no station has the separator in its name;
\* and 503 means that this very request asked in vain, or that the control plane
\* itself refused in those words (worker.ts, admitRemote, decisionKey and STATUS).
THEOREM DecisionsStayFresh == Spec => []AnswersFresh
<1>1. FrontInv => AnswersFresh
  BY DEF FrontInv
<1>2. QED
  BY <1>1, FrontInvariant, PTL

\* A lease that is let in is in force at that moment, however long its verification
\* took, and within MAX_AUTHORITY_LIFE_MS of its beginning (worker.ts, admitAuthority).
THEOREM LeasesLetInAreInForce == Spec => []LeaseInForce
<1>1. FrontInv => LeaseInForce
  BY DEF FrontInv
<1>2. QED
  BY <1>1, FrontInvariant, PTL

=============================================================================
