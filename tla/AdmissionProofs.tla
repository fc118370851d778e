--------------------------- MODULE AdmissionProofs ---------------------------
(***************************************************************************)
(* Proofs about Admission, for every value of its constants: any number of *)
(* questions open at the same time, any lifetimes and timeouts, any        *)
(* configuration, any leases and any order of notices.                     *)
(***************************************************************************)
EXTENDS Admission, FiniteSetTheorems, FunctionTheorems, SequenceTheorems,
        WellFoundedInduction, TLAPS

Lease == [scope : LeaseScopes, nbf : Nat, exp : Nat, epoch : Nat,
          aud : Audiences, genuine : BOOLEAN]
Creds == Tokens \cup {NoCred} \cup Lease
Question == [cred : Creds, on : Attempt]

\* What the relay makes of what the control plane may say.
NamedGrants == {g \in PlaneGrants \cup {Refused("bad-credential")} : g.allow \/ g.reason # ""}

TypeOK ==
  /\ mode \in Modes
  /\ now \in Nat /\ floor \in [Estates -> Nat] /\ told \in [Estates -> Nat]
  /\ leases \subseteq Lease
  /\ raised \subseteq [estate : Estates, epoch : Nat, at : Nat] /\ IsFiniteSet(raised)
  /\ open \in [Slots -> SUBSET [q : Question, at : Nat,
                                reply : SUBSET [grant : PlaneGrants, decided : Nat]]]

\* A question is given up in time, and was answered, if it was, while it was open.
OpenInTime ==
  \A s \in Slots : \A o \in open[s] :
    /\ o.at <= now /\ now <= o.at + AskTimeout
    /\ \A r \in o.reply : o.at <= r.decided /\ r.decided <= now

\* An entry of the cache is an answer of the control plane to the question of its
\* key, and its life ends in time even if the answer was long on its way.
CacheInTime ==
  \A c \in cache :
    /\ c.about \in Question /\ c.key = key(c.about)
    /\ c.grant \in NamedGrants /\ c.by = "plane"
    /\ c.decided \in Nat /\ c.until \in Nat
    /\ c.until <= c.decided + AskTimeout + Lifetime(c.grant)

\* The epochs are counted, and a lease is minted before the later ones are raised.
EpochsCounted ==
  /\ \A r \in raised : r.epoch <= Epoch(r.estate)
  /\ \A l \in leases : l.nbf <= now
  /\ \A l \in leases : \A r \in RaisedFor(l.scope.estate) : l.epoch < r.epoch => l.nbf <= r.at

\* The floor is where the notices have put it.
FloorHolds == \A e \in Estates : told[e] <= floor[e]

\* The configuration is one ParseStationScopes lets the relay start with.
ListedWell ==
  mode = "stations" =>
    /\ \E n \in Nat : entries \in [1 .. n -> Entry]
    /\ Consistent(entries)

Answered ==
  /\ AnswersFresh
  /\ BlameIsRight
  /\ RevocationBounded
  /\ ToldOnceIsEnough
  /\ HostedNamesStations
  /\ AsListed

StateInv == TypeOK /\ OpenInTime /\ CacheInTime /\ EpochsCounted /\ FloorHolds /\ ListedWell
AdmissionInv == StateInv /\ Answered

-----------------------------------------------------------------------------
(* Facts about the operators.                                              *)

\* Scopes and grants as they look from outside.
LEMMA GrantFields ==
  /\ \A sc : Allowed(sc).allow = TRUE /\ Allowed(sc).reason = "" /\ Allowed(sc).scope = sc
  /\ \A why : Refused(why).allow = FALSE /\ Refused(why).reason = why
  BY DEF Allowed, Refused

LEMMA NobodyFields == Nobody.by = "nobody" /\ ~Nobody.given.allow
  BY GrantFields DEF Nobody

\* Whoever asks, asks a Question.
LEMMA QuestionsType ==
  ASSUME TypeOK, NEW x \in Questions
  PROVE  x \in Question
<1>1. {NoCred} \cup leases \subseteq Creds /\ Tokens \subseteq Creds
  BY DEF TypeOK, Creds
<1>2. Attempts[mode] \subseteq Attempt /\ Presented[mode] \subseteq [cred : Tokens, on : Attempt]
  BY RequestAssumption DEF TypeOK
<1>3. QED
  BY <1>1, <1>2 DEF Questions, Question

\* A credential is recognised by how it is written.
LEMMA WrittenIsCredential ==
  ASSUME NEW c, NEW d, Written(c) = Written(d)
  PROVE  c = d
<1>1. ASSUME NEW n \in DOMAIN Split, NEW m, Split[n] = <<m>> PROVE n = m
  <2>1. Len(Split[n]) = 1
    BY <1>1
  <2>2. Split[n] = <<n>>
    BY <2>1, SpellingAssumption
  <2>3. <<n>> = <<m>>
    BY <1>1, <2>2
  <2>4. QED
    BY <2>3
<1>2. CASE c \in DOMAIN Split /\ d \in DOMAIN Split
  BY <1>2, SpellingAssumption DEF Written
<1>3. CASE c \in DOMAIN Split /\ d \notin DOMAIN Split
  BY <1>1, <1>3 DEF Written
<1>4. CASE c \notin DOMAIN Split /\ d \in DOMAIN Split
  BY <1>1, <1>4 DEF Written
<1>5. CASE c \notin DOMAIN Split /\ d \notin DOMAIN Split
  <2>1. <<c>> = <<d>>
    BY <1>5 DEF Written
  <2>2. QED
    BY <2>1
<1>6. QED
  BY <1>2, <1>3, <1>4, <1>5

\* What is joined last can be taken off again.
LEMMA LastOff ==
  ASSUME NEW S, NEW u \in Seq(S), NEW v \in Seq(S), NEW x \in Seq(S), NEW y \in Seq(S),
         Len(x) = 1, Len(y) = 1, u \o x = v \o y
  PROVE  u = v /\ x = y
<1>1. /\ Len(u \o x) = Len(u) + 1 /\ Len(v \o y) = Len(v) + 1
      /\ Len(u) \in Nat /\ Len(v) \in Nat
  <2>1. Len(u \o x) = Len(u) + Len(x)
    BY ConcatProperties
  <2>2. Len(v \o y) = Len(v) + Len(y)
    BY ConcatProperties
  <2>3. Len(u) \in Nat /\ Len(v) \in Nat
    BY LenProperties
  <2>4. QED
    BY <2>1, <2>2, <2>3
<1>2. Len(u) = Len(v)
  BY <1>1
<1>3. \A i \in 1 .. Len(u) : u[i] = v[i]
  <2> TAKE i \in 1 .. Len(u)
  <2>1. (u \o x)[i] = u[i] /\ (v \o y)[i] = v[i]
    BY <1>1, <1>2, ConcatProperties
  <2>2. QED
    BY <2>1
<1>4. u = v
  BY <1>2, <1>3, SeqEqual
<1>5. (u \o x)[Len(u) + 1] = x[1] /\ (v \o y)[Len(u) + 1] = y[1]
  BY <1>1, <1>2, ConcatProperties
<1>6. \A i \in 1 .. Len(x) : x[i] = y[i]
  BY <1>5
<1>7. x = y
  BY <1>6, SeqEqual
<1>8. QED
  BY <1>4, <1>7

\* The key of the cache leaves nothing of a question out, as long as estate and
\* station are in one piece.
LEMMA KeyIsQuestion ==
  ASSUME NEW x \in Question, NEW y \in Question, Clear(x), Clear(y), key(x) = key(y)
  PROVE  x = y
<1> DEFINE S == Pieces \cup Creds \cup Estates \cup Stations \cup Dirs \cup {"read", "write"}
           w(z) == Written(z.cred)
           e(z) == w(z) \o <<z.on.estate>>
           n(z) == e(z) \o <<z.on.station>>
           d(z) == n(z) \o <<z.on.dir>>
<1>1. ASSUME NEW z \in Question, Clear(z)
      PROVE  /\ w(z) \in Seq(S) /\ e(z) \in Seq(S) /\ n(z) \in Seq(S) /\ d(z) \in Seq(S)
             /\ z.on.estate \in S /\ z.on.station \in S /\ z.on.dir \in S /\ z.on.op \in S
             /\ key(z) = d(z) \o <<z.on.op>>
  <2>1. z.cred \in Creds /\ z.on \in Attempt
    BY DEF Question
  <2>2. /\ z.on.estate \in Estates /\ z.on.station \in Stations
        /\ z.on.dir \in Dirs /\ z.on.op \in {"read", "write"}
    BY <2>1 DEF Attempt
  <2>3. Written(z.cred) \in Seq(S)
    <3>1. CASE z.cred \in DOMAIN Split
      <4>1. Split[z.cred] \in Seq(Pieces)
        BY <3>1, SpellingAssumption
      <4>2. QED
        BY <3>1, <4>1 DEF Written
    <3>2. CASE z.cred \notin DOMAIN Split
      BY <2>1, <3>2 DEF Written
    <3>3. QED
      BY <3>1, <3>2
  <2>4. Split[z.on.estate] = <<z.on.estate>> /\ Split[z.on.station] = <<z.on.station>>
    BY <1>1, <2>2, SpellingAssumption DEF Clear
  <2>5. z.on.estate \in S /\ z.on.station \in S /\ z.on.dir \in S /\ z.on.op \in S
    BY <2>2
  <2>6. key(z) = d(z) \o <<z.on.op>>
    BY <2>4 DEF key
  <2>7. /\ <<z.on.estate>> \in Seq(S) /\ <<z.on.station>> \in Seq(S) /\ <<z.on.dir>> \in Seq(S)
    BY <2>5
  <2>8. e(z) \in Seq(S)
    BY <2>3, <2>7, ConcatProperties
  <2>9. n(z) \in Seq(S)
    BY <2>7, <2>8, ConcatProperties
  <2>10. d(z) \in Seq(S)
    BY <2>7, <2>9, ConcatProperties
  <2>11. QED
    BY <2>3, <2>5, <2>6, <2>8, <2>9, <2>10
<1>2. \A a, b \in S : /\ <<a>> \in Seq(S) /\ Len(<<a>>) = 1
                      /\ <<a>> = <<b>> => a = b
  OBVIOUS
<1>3. d(x) = d(y) /\ x.on.op = y.on.op
  <2> DEFINE s == <<x.on.op>>
             t == <<y.on.op>>
  <2>1. d(x) \o s = d(y) \o t
    BY <1>1
  <2>2. s \in Seq(S) /\ t \in Seq(S) /\ Len(s) = 1 /\ Len(t) = 1
    BY <1>1, <1>2
  <2>3. d(x) \in Seq(S) /\ d(y) \in Seq(S)
    BY <1>1
  <2>4. d(x) = d(y) /\ s = t
    <3> HIDE DEF S, w, e, n, d, s, t
    <3> QED
      BY <2>1, <2>2, <2>3, LastOff
  <2>5. QED
    BY <1>1, <1>2, <2>4
<1>4. n(x) = n(y) /\ x.on.dir = y.on.dir
  <2> DEFINE s == <<x.on.dir>>
             t == <<y.on.dir>>
  <2>1. n(x) \o s = n(y) \o t
    BY <1>1, <1>3
  <2>2. s \in Seq(S) /\ t \in Seq(S) /\ Len(s) = 1 /\ Len(t) = 1
    BY <1>1, <1>2
  <2>3. n(x) \in Seq(S) /\ n(y) \in Seq(S)
    BY <1>1
  <2>4. n(x) = n(y) /\ s = t
    <3> HIDE DEF S, w, e, n, d, s, t
    <3> QED
      BY <2>1, <2>2, <2>3, LastOff
  <2>5. QED
    BY <1>1, <1>2, <2>4
<1>5. e(x) = e(y) /\ x.on.station = y.on.station
  <2> DEFINE s == <<x.on.station>>
             t == <<y.on.station>>
  <2>1. e(x) \o s = e(y) \o t
    BY <1>1, <1>4
  <2>2. s \in Seq(S) /\ t \in Seq(S) /\ Len(s) = 1 /\ Len(t) = 1
    BY <1>1, <1>2
  <2>3. e(x) \in Seq(S) /\ e(y) \in Seq(S)
    BY <1>1
  <2>4. e(x) = e(y) /\ s = t
    <3> HIDE DEF S, w, e, n, d, s, t
    <3> QED
      BY <2>1, <2>2, <2>3, LastOff
  <2>5. QED
    BY <1>1, <1>2, <2>4
<1>6. w(x) = w(y) /\ x.on.estate = y.on.estate
  <2> DEFINE s == <<x.on.estate>>
             t == <<y.on.estate>>
  <2>1. w(x) \o s = w(y) \o t
    BY <1>1, <1>5
  <2>2. s \in Seq(S) /\ t \in Seq(S) /\ Len(s) = 1 /\ Len(t) = 1
    BY <1>1, <1>2
  <2>3. w(x) \in Seq(S) /\ w(y) \in Seq(S)
    BY <1>1
  <2>4. w(x) = w(y) /\ s = t
    <3> HIDE DEF S, w, e, n, d, s, t
    <3> QED
      BY <2>1, <2>2, <2>3, LastOff
  <2>5. QED
    BY <1>1, <1>2, <2>4
<1>7. x.cred = y.cred
  BY <1>6, WrittenIsCredential
<1>8. x.on = y.on
  <2>1. x.on \in Attempt /\ y.on \in Attempt
    BY DEF Question
  <2>2. QED
    BY <1>3, <1>4, <1>5, <1>6, <2>1 DEF Attempt
<1>9. QED
  BY <1>7, <1>8 DEF Question

LEMMA LifetimeType == \A g : Lifetime(g) \in Nat
  BY LifetimeAssumption DEF Lifetime

LEMMA NamedType == \A g \in PlaneGrants : Named(g) \in NamedGrants
<1> SUFFICES ASSUME NEW g \in PlaneGrants PROVE Named(g) \in NamedGrants
  OBVIOUS
<1>1. Refused("bad-credential").reason # ""
  BY DEF Refused
<1>2. CASE ~g.allow /\ g.reason = ""
  <2>1. Named(g) = Refused("bad-credential")
    BY <1>2 DEF Named
  <2>2. QED
    BY <1>1, <2>1, Zenon DEF NamedGrants
<1>3. CASE g.allow \/ g.reason # ""
  <2>1. Named(g) = g
    BY <1>3 DEF Named
  <2>2. QED
    BY <1>3, <2>1, Zenon DEF NamedGrants
<1>4. QED
  BY <1>2, <1>3

LEMMA NamedFields == \A g \in NamedGrants : g.allow \/ g.reason # ""
  BY DEF NamedGrants

\* A set of positions that is not empty has a last one.
LEMMA LastExists ==
  ASSUME NEW n \in Nat, NEW T \in SUBSET (1 .. n), T # {}
  PROVE  \E i \in T : \A j \in T : j <= i
<1> DEFINE U == {n - i : i \in T}
           R == OpToRel(<, Nat)
<1>1. U \subseteq Nat /\ U # {}
  <2> HIDE DEF R
  <2>1. \A i \in T : n - i \in Nat
    OBVIOUS
  <2>2. QED
    BY <2>1
<1>2. PICK u \in U : \A v \in U : ~(<<v, u>> \in R)
  <2> HIDE DEF U, R
  <2> QED
    BY <1>1, NatLessThanWellFounded, WFMin DEF R
<1>3. \A v \in U : ~(v < u)
  BY <1>1, <1>2 DEF OpToRel
<1>4. PICK i \in T : u = n - i
  OBVIOUS
<1>5. \A j \in T : j <= i
  BY <1>3, <1>4
<1>6. QED
  BY <1>5

\* One estate at most is one estate.
LEMMA OneEstate ==
  ASSUME NEW L, IsFiniteSet(L), NEW e,
         Cardinality({e[i] : i \in L}) <= 1
  PROVE  \A i, j \in L : e[i] = e[j]
<1> DEFINE T == {e[i] : i \in L}
           h == [i \in L |-> e[i]]
<1>1. h \in Surjection(L, T)
  BY DEF Surjection
<1>2. IsFiniteSet(T)
  <2> HIDE DEF T, h
  <2> QED
    BY <1>1, FS_Surjection
<1>3. SUFFICES ASSUME NEW i \in L, NEW j \in L, e[i] # e[j] PROVE FALSE
  OBVIOUS
<1>4. Cardinality({e[i], e[j]}) = 2
  <2> DEFINE x == e[i]
             y == e[j]
  <2>1. IsFiniteSet({x}) /\ Cardinality({x}) = 1
    BY FS_Singleton
  <2>2. Cardinality({x} \cup {y}) = 2
    <3>1. y \notin {x}
      BY <1>3
    <3> HIDE DEF x, y
    <3>2. QED
      BY <3>1, <2>1, FS_AddElement
  <2>3. {x} \cup {y} = {e[i], e[j]}
    OBVIOUS
  <2>4. QED
    BY <2>2, <2>3
<1>5. {e[i], e[j]} \in SUBSET T
  OBVIOUS
<1>6. Cardinality({e[i], e[j]}) <= Cardinality(T) /\ Cardinality(T) \in Nat
  <2> HIDE DEF T
  <2> QED
    BY <1>2, <1>5, FS_Subset, FS_CardinalityType
<1>7. QED
  BY <1>4, <1>6

-----------------------------------------------------------------------------
(* The state the answers are made from.                                    *)

LEMMA StateInit == Init => StateInv
<1> SUFFICES ASSUME Init PROVE StateInv
  OBVIOUS
<1>1. TypeOK
  BY FS_EmptySet DEF Init, TypeOK
<1>2. OpenInTime /\ CacheInTime /\ EpochsCounted /\ FloorHolds
  BY FS_EmptySet DEF Init, OpenInTime, CacheInTime, EpochsCounted, RaisedFor, FloorHolds
<1>3. ListedWell
  BY CountAssumption DEF Init, ListedWell
<1>4. QED
  BY <1>1, <1>2, <1>3 DEF StateInv

\* The answers that change nothing but themselves, and stuttering.
LEMMA StateSame ==
  ASSUME StateInv, UNCHANGED <<config, now, plane, floor, cache, open, told>>
  PROVE  StateInv'
  BY DEF StateInv, TypeOK, OpenInTime, CacheInTime, EpochsCounted, RaisedFor, Epoch, FloorHolds,
         ListedWell, config, plane, Consistent

\* The steps that touch neither time nor leases.
LEMMA RestSame ==
  ASSUME StateInv, UNCHANGED <<config, now, plane, floor, told>>
  PROVE  EpochsCounted' /\ FloorHolds' /\ ListedWell'
  BY DEF StateInv, EpochsCounted, RaisedFor, Epoch, FloorHolds, ListedWell, config, plane,
         Consistent

LEMMA StateAsk ==
  ASSUME StateInv, NEW x \in Questions, NEW s \in Slots, Ask(s, x)
  PROVE  StateInv'
<1> DEFINE o == [q |-> x, at |-> now, reply |-> {}]
<1>1. open' = [open EXCEPT ![s] = {o}] /\ UNCHANGED <<config, now, plane, floor, cache, told>>
  BY DEF Ask
<1>2. x \in Question
  BY QuestionsType DEF StateInv
<1>3. o.at = now /\ o.reply = {}
      /\ o \in [q : Question, at : Nat, reply : SUBSET [grant : PlaneGrants, decided : Nat]]
  BY <1>2 DEF StateInv, TypeOK
<1> HIDE DEF o
<1>4. TypeOK'
  BY <1>1, <1>3 DEF StateInv, TypeOK, config, plane
<1>5. OpenInTime'
  BY <1>1, <1>3, LifetimeAssumption DEF StateInv, TypeOK, OpenInTime
<1>6. CacheInTime'
  BY <1>1 DEF StateInv, CacheInTime
<1>7. QED
  BY <1>1, <1>4, <1>5, <1>6, RestSame DEF StateInv

LEMMA StateDecide ==
  ASSUME StateInv, NEW s \in Slots, Decide(s)
  PROVE  StateInv'
<1>1. PICK o \in open[s], g \in PlaneGrants :
        /\ open' = [open EXCEPT ![s] = {[o EXCEPT !.reply = {[grant |-> g, decided |-> now]}]}]
        /\ UNCHANGED <<config, now, plane, floor, cache, told>>
  BY DEF Decide
<1> DEFINE r == [grant |-> g, decided |-> now]
           p == [o EXCEPT !.reply = {r}]
           OpenQ == [q : Question, at : Nat, reply : SUBSET [grant : PlaneGrants, decided : Nat]]
<1>2. o \in OpenQ /\ now \in Nat
  BY DEF StateInv, TypeOK
<1>3. r \in [grant : PlaneGrants, decided : Nat] /\ r.decided = now
  BY <1>2
<1>4. p \in OpenQ /\ p.at = o.at /\ p.reply = {r}
  <2> HIDE DEF r
  <2> QED
    BY <1>2, <1>3
<1>5. open' = [open EXCEPT ![s] = {p}]
  BY <1>1
<1>6. o.at <= now
  BY <1>2 DEF StateInv, OpenInTime
<1> HIDE DEF r, p
<1>7. TypeOK'
  BY <1>1, <1>4, <1>5 DEF StateInv, TypeOK, config, plane
<1>8. OpenInTime'
  BY <1>1, <1>2, <1>3, <1>4, <1>5, <1>6 DEF StateInv, TypeOK, OpenInTime
<1>9. CacheInTime'
  BY <1>1 DEF StateInv, CacheInTime
<1>10. QED
  BY <1>1, <1>7, <1>8, <1>9, RestSame DEF StateInv

\* A slot that is given back.
LEMMA SlotFreed ==
  ASSUME StateInv, NEW s \in Slots, open' = [open EXCEPT ![s] = {}],
         UNCHANGED <<config, now, plane, floor, told>>
  PROVE  TypeOK' /\ OpenInTime'
  BY DEF StateInv, TypeOK, OpenInTime, config, plane

\* What is heard was decided within the time the call may take.
LEMMA HeardInTime ==
  ASSUME StateInv, NEW s \in Slots, NEW o \in open[s], NEW r \in o.reply
  PROVE  /\ o.q \in Question /\ Named(r.grant) \in NamedGrants /\ r.decided \in Nat
         /\ now <= r.decided + AskTimeout
<1>1. o \in [q : Question, at : Nat, reply : SUBSET [grant : PlaneGrants, decided : Nat]]
  BY DEF StateInv, TypeOK
<1>2. o.q \in Question /\ o.at \in Nat /\ r.grant \in PlaneGrants /\ r.decided \in Nat
  BY <1>1
<1>3. Named(r.grant) \in NamedGrants
  BY <1>2, NamedType
<1>4. now <= o.at + AskTimeout /\ o.at <= r.decided
  BY DEF StateInv, OpenInTime
<1>5. QED
  BY <1>2, <1>3, <1>4, LifetimeAssumption DEF StateInv, TypeOK

LEMMA StateHear ==
  ASSUME StateInv, NEW s \in Slots, Hear(s)
  PROVE  StateInv'
<1>1. PICK o \in open[s] : \E r \in o.reply :
        /\ Remember(o.q, Named(r.grant), "plane", r.decided)
        /\ open' = [open EXCEPT ![s] = {}]
        /\ UNCHANGED <<config, now, plane, floor, told>>
  BY DEF Hear
<1>2. PICK r \in o.reply :
        /\ Remember(o.q, Named(r.grant), "plane", r.decided)
        /\ open' = [open EXCEPT ![s] = {}]
        /\ UNCHANGED <<config, now, plane, floor, told>>
  BY <1>1
<1> DEFINE g == Named(r.grant)
           new == [key |-> key(o.q), grant |-> g, until |-> now + Lifetime(g),
                   by |-> "plane", decided |-> r.decided, about |-> o.q]
<1>3. /\ o.q \in Question /\ g \in NamedGrants /\ r.decided \in Nat
      /\ now <= r.decided + AskTimeout
  BY HeardInTime
<1>4. Lifetime(g) \in Nat /\ AskTimeout \in Nat /\ now \in Nat
  BY LifetimeType, LifetimeAssumption DEF StateInv, TypeOK
<1>5. \A c \in cache' : c \in cache \/ c = new
  BY <1>2 DEF Remember
<1>6. CacheInTime'
  <2> SUFFICES ASSUME NEW c \in cache', c = new
               PROVE  /\ c.about \in Question /\ c.key = key(c.about)
                      /\ c.grant \in NamedGrants /\ c.by = "plane"
                      /\ c.decided \in Nat /\ c.until \in Nat
                      /\ c.until <= c.decided + AskTimeout + Lifetime(c.grant)
    BY <1>5 DEF StateInv, CacheInTime
  <2>1. /\ c.about = o.q /\ c.key = key(o.q) /\ c.grant = g /\ c.by = "plane"
        /\ c.decided = r.decided /\ c.until = now + Lifetime(g)
    OBVIOUS
  <2>2. QED
    <3> HIDE DEF g, new
    <3> QED
      BY <1>3, <1>4, <2>1
<1>7. QED
  BY <1>2, <1>6, SlotFreed, RestSame DEF StateInv

LEMMA StateFail ==
  ASSUME StateInv, NEW s \in Slots, AskFail(s)
  PROVE  StateInv'
<1>1. open' = [open EXCEPT ![s] = {}] /\ UNCHANGED <<config, now, plane, floor, cache, told>>
  BY DEF AskFail
<1>2. CacheInTime'
  BY <1>1 DEF StateInv, CacheInTime
<1>3. QED
  BY <1>1, <1>2, SlotFreed, RestSame DEF StateInv

LEMMA EpochType ==
  ASSUME TypeOK, NEW e
  PROVE  IsFiniteSet(RaisedFor(e)) /\ Epoch(e) \in Nat
<1>1. RaisedFor(e) \in SUBSET raised
  BY DEF RaisedFor
<1>2. IsFiniteSet(RaisedFor(e))
  BY <1>1, FS_Subset DEF TypeOK
<1>3. QED
  BY <1>2, FS_CardinalityType DEF Epoch

LEMMA StateMint == StateInv /\ Mint => StateInv'
<1> SUFFICES ASSUME StateInv, Mint PROVE StateInv'
  OBVIOUS
<1>1. PICK sc \in LeaseScopes, d \in Lengths, aud \in Audiences, genuine \in BOOLEAN :
        leases' = leases \cup {[scope |-> sc, nbf |-> now, exp |-> now + d,
                                epoch |-> Epoch(sc.estate), aud |-> aud, genuine |-> genuine]}
  BY DEF Mint
<1> DEFINE l == [scope |-> sc, nbf |-> now, exp |-> now + d, epoch |-> Epoch(sc.estate),
                 aud |-> aud, genuine |-> genuine]
<1>2. UNCHANGED <<config, now, raised, floor, cache, open, told>>
  BY DEF Mint
<1>3. now \in Nat /\ Epoch(sc.estate) \in Nat /\ d \in Nat
  BY EpochType, CountAssumption DEF StateInv, TypeOK
<1>4. l \in Lease /\ l.nbf = now /\ l.epoch = Epoch(l.scope.estate)
  BY <1>3 DEF Lease
<1>5. leases' = leases \cup {l}
  BY <1>1
<1> HIDE DEF l
<1>6. TypeOK' /\ OpenInTime' /\ CacheInTime' /\ FloorHolds' /\ ListedWell'
  BY <1>2, <1>4, <1>5
  DEF StateInv, TypeOK, OpenInTime, CacheInTime, FloorHolds, ListedWell, config, Consistent
<1>7. \A r \in RaisedFor(l.scope.estate) : ~(l.epoch < r.epoch)
  <2> SUFFICES ASSUME NEW r \in RaisedFor(l.scope.estate) PROVE ~(l.epoch < r.epoch)
    OBVIOUS
  <2>1. r \in raised /\ r.estate = l.scope.estate
    BY DEF RaisedFor
  <2>2. r.epoch \in Nat /\ r.epoch <= l.epoch
    BY <1>4, <2>1 DEF StateInv, TypeOK, EpochsCounted
  <2>3. l.epoch \in Nat
    BY <1>4 DEF Lease
  <2>4. QED
    BY <2>2, <2>3
<1>8. EpochsCounted'
  <2>1. \A e : RaisedFor(e)' = RaisedFor(e) /\ Epoch(e)' = Epoch(e)
    BY <1>2 DEF RaisedFor, Epoch
  <2>2. QED
    BY <1>2, <1>3, <1>4, <1>5, <1>7, <2>1 DEF StateInv, EpochsCounted
<1>9. QED
  BY <1>6, <1>8 DEF StateInv

LEMMA StateRaise ==
  ASSUME StateInv, NEW e \in Estates, Raise(e)
  PROVE  StateInv'
<1> DEFINE r == [estate |-> e, epoch |-> Epoch(e) + 1, at |-> now]
<1>1. raised' = raised \cup {r} /\ UNCHANGED <<config, now, leases, floor, cache, open, told>>
  BY DEF Raise
<1>2. now \in Nat /\ Epoch(e) \in Nat /\ IsFiniteSet(RaisedFor(e)) /\ IsFiniteSet(raised)
  BY EpochType DEF StateInv, TypeOK
<1>3. /\ r \in [estate : Estates, epoch : Nat, at : Nat]
      /\ r.estate = e /\ r.epoch = Epoch(e) + 1 /\ r.at = now
  BY <1>2
<1>4. r \notin raised
  BY <1>2, <1>3 DEF StateInv, TypeOK, EpochsCounted
<1> HIDE DEF r
<1>5. RaisedFor(e)' = RaisedFor(e) \cup {r} /\ \A d : d # e => RaisedFor(d)' = RaisedFor(d)
  BY <1>1, <1>3 DEF RaisedFor
<1>6. Epoch(e)' = Epoch(e) + 1 /\ \A d : d # e => Epoch(d)' = Epoch(d)
  <2>1. r \notin RaisedFor(e)
    BY <1>4 DEF RaisedFor
  <2>2. Cardinality(RaisedFor(e) \cup {r}) = Cardinality(RaisedFor(e)) + 1
    BY <1>2, <2>1, FS_AddElement
  <2>3. QED
    BY <1>5, <2>2 DEF Epoch
<1>7. IsFiniteSet(raised')
  BY <1>1, <1>2, FS_AddElement
<1>8. TypeOK' /\ OpenInTime' /\ CacheInTime' /\ FloorHolds' /\ ListedWell'
  BY <1>1, <1>3, <1>7
  DEF StateInv, TypeOK, OpenInTime, CacheInTime, FloorHolds, ListedWell, config, Consistent
<1>9. EpochsCounted'
  <2>1. \A x \in raised : x.epoch <= Epoch(x.estate) /\ x.epoch \in Nat
    BY DEF StateInv, TypeOK, EpochsCounted
  <2>2. ASSUME NEW x \in raised' PROVE x.epoch <= Epoch(x.estate)'
    <3>1. CASE x = r
      BY <1>2, <1>3, <1>6, <3>1
    <3>2. CASE x \in raised /\ x.estate = e
      BY <1>2, <1>6, <2>1, <3>2
    <3>3. CASE x \in raised /\ x.estate # e
      BY <1>6, <2>1, <3>3
    <3>4. QED
      BY <1>1, <3>1, <3>2, <3>3
  <2>3. \A l \in leases' : l.nbf <= now'
    BY <1>1 DEF StateInv, EpochsCounted
  <2>4. ASSUME NEW l \in leases', NEW x \in RaisedFor(l.scope.estate)', l.epoch < x.epoch
        PROVE  l.nbf <= x.at
    <3>1. CASE x = r
      BY <1>1, <1>3, <3>1 DEF StateInv, EpochsCounted
    <3>2. CASE x # r
      <4>1. x \in RaisedFor(l.scope.estate)
        BY <1>5, <3>2
      <4>2. QED
        BY <1>1, <2>4, <4>1 DEF StateInv, EpochsCounted
    <3>3. QED
      BY <3>1, <3>2
  <2>5. QED
    BY <1>1, <2>2, <2>3, <2>4 DEF EpochsCounted
<1>10. QED
  BY <1>8, <1>9 DEF StateInv

LEMMA StateRevoke ==
  ASSUME StateInv, NEW e \in Estates, NEW n \in 1 .. Epoch(e), Revoke(e, n)
  PROVE  StateInv'
<1>1. n \in Nat
  OBVIOUS
<1>2. UNCHANGED <<config, now, plane, cache, open>>
  BY DEF Revoke
<1>3. /\ floor' \in [Estates -> Nat] /\ told' \in [Estates -> Nat]
      /\ \A d \in Estates : told'[d] <= floor'[d]
  BY <1>1 DEF Revoke, StateInv, TypeOK, FloorHolds
<1>4. QED
  BY <1>2, <1>3 DEF StateInv, TypeOK, OpenInTime, CacheInTime, EpochsCounted, RaisedFor, Epoch,
                    FloorHolds, ListedWell, config, plane, Consistent

LEMMA StateTick == StateInv /\ Tick => StateInv'
<1> SUFFICES ASSUME StateInv, Tick PROVE StateInv'
  OBVIOUS
<1>1. /\ now' = now + 1 /\ cache' \subseteq cache
      /\ UNCHANGED <<config, plane, floor, open, told>>
      /\ \A s \in Slots : \A o \in open[s] : now < o.at + AskTimeout
  <2>1. \A s \in Slots : \A o \in open[s] : ~(now >= o.at + AskTimeout) /\ o.at \in Nat
    BY DEF Tick, TimedOut, StateInv, TypeOK
  <2>2. QED
    BY <2>1, LifetimeAssumption DEF Tick, StateInv, TypeOK
<1>2. TypeOK' /\ FloorHolds' /\ ListedWell'
  BY <1>1 DEF StateInv, TypeOK, FloorHolds, ListedWell, config, plane, Consistent
<1>3. OpenInTime'
  BY <1>1, LifetimeAssumption DEF StateInv, TypeOK, OpenInTime
<1>4. CacheInTime'
  BY <1>1 DEF StateInv, CacheInTime
<1>5. EpochsCounted'
  <2>1. \A l \in leases : l.nbf \in Nat
    BY DEF StateInv, TypeOK, Lease
  <2>2. QED
    BY <1>1, <2>1 DEF StateInv, TypeOK, EpochsCounted, RaisedFor, Epoch, plane
<1>6. QED
  BY <1>2, <1>3, <1>4, <1>5 DEF StateInv

LEMMA StateRestart == StateInv /\ Restart => StateInv'
<1> SUFFICES ASSUME StateInv, Restart PROVE StateInv'
  OBVIOUS
<1>1. /\ floor' = [e \in Estates |-> 0] /\ told' = [e \in Estates |-> 0]
      /\ \A e \in Estates : told'[e] <= floor'[e]
  BY DEF Restart
<1>2. /\ cache' = {} /\ open' = [s \in Slots |-> {}] /\ now' = now
      /\ leases' = leases /\ raised' = raised /\ mode' = mode /\ entries' = entries
  BY DEF Restart, config, plane
<1>3. TypeOK'
  BY <1>1, <1>2 DEF StateInv, TypeOK
<1>4. OpenInTime' /\ CacheInTime' /\ FloorHolds'
  BY <1>1, <1>2 DEF OpenInTime, CacheInTime, FloorHolds
<1>5. EpochsCounted' /\ ListedWell'
  BY <1>2 DEF StateInv, EpochsCounted, RaisedFor, Epoch, ListedWell, Consistent
<1>6. QED
  BY <1>3, <1>4, <1>5 DEF StateInv

LEMMA StateNext == StateInv /\ [Next]_vars => StateInv'
<1> SUFFICES ASSUME StateInv, [Next]_vars PROVE StateInv'
  OBVIOUS
<1>1. ASSUME UNCHANGED vars PROVE StateInv'
  BY <1>1, StateSame DEF vars
<1>2. ASSUME NEW x \in Questions,
             AdmitLease(x) \/ AdmitConfigured(x) \/ AdmitNone(x) \/ AdmitCached(x)
      PROVE  StateInv'
  BY <1>2, StateSame DEF AdmitLease, AdmitConfigured, AdmitNone, AdmitCached
<1>3. QED
  BY <1>1, <1>2, StateAsk, StateDecide, StateHear, StateFail, StateMint, StateRaise, StateRevoke,
     StateTick, StateRestart DEF Next

-----------------------------------------------------------------------------
(* The answers.                                                            *)

\* The fields of what Reply puts down.
LEMMA ReplyFields ==
  ASSUME NEW x, NEW by, NEW said, NEW given, NEW decided, NEW about, NEW failed,
         Reply(x, by, said, given, decided, about, failed)
  PROVE  /\ answer'.q = x /\ answer'.by = by /\ answer'.said = said /\ answer'.given = given
         /\ answer'.at = now /\ answer'.decided = decided /\ answer'.about = about
         /\ answer'.failed = failed /\ answer'.told = told
  BY DEF Reply

LEMMA AnswerNobody == answer' = Nobody => Answered'
  BY NobodyFields DEF Answered, AnswersFresh, BlameIsRight, RevocationBounded, ToldOnceIsEnough,
                      HostedNamesStations, AsListed

\* A grant that blames nobody else: refused with a reason that is the relay's to give.
Plain(g) ==
  /\ g.allow <=> g.reason = ""
  /\ g.reason \in {"", "no-credential", "bad-credential", "out-of-scope", "wrong-direction",
                   "estate-wide-credential", "authority-unverifiable", "authority-expired",
                   "authority-revoked"}

\* The two statuses BlameIsRight tells apart.
Unavailable(why) == Status(why) = StatusServiceUnavailable
Success(why) == Status(why) = StatusOK
Other == {429, 413, 400, 410, 500, 401}

LEMMA StatusesDiffer ==
  /\ StatusOK # StatusServiceUnavailable
  /\ StatusOK \notin Other /\ StatusServiceUnavailable \notin Other
  BY DEF StatusOK, StatusServiceUnavailable, Other

LEMMA StatusFacts ==
  ASSUME NEW why
  PROVE  /\ Unavailable(why) <=> (why \in {"authoriser-unavailable", "not-durable"})
         /\ Success(why) <=> (why = "")
<1> DEFINE down == {"authoriser-unavailable", "not-durable"}
           bad == {"bad-route", "unreadable-request", "bad-lease"}
<1>1. why = "" => Status(why) = StatusOK
  BY DEF Status
<1>2. why \in down => Status(why) = StatusServiceUnavailable
  BY DEF Status
<1>3. why = "queue-full" => Status(why) = 429
  BY DEF Status
<1>4. why = "too-large" => Status(why) = 413
  BY DEF Status
<1>5. why \in bad => Status(why) = 400
  BY DEF Status
<1>6. why = "no-such-lease" => Status(why) = 410
  BY DEF Status
<1>7. why = "internal" => Status(why) = 500
  BY DEF Status
<1>8. \/ why = "" \/ why \in down \/ why = "queue-full" \/ why = "too-large"
      \/ why \in bad \/ why = "no-such-lease" \/ why = "internal"
      \/ Status(why) = 401
  BY Zenon DEF Status
<1>9. why = "" \/ why \in down \/ Status(why) \in Other
  <2>1. 429 \in Other /\ 413 \in Other /\ 400 \in Other /\ 410 \in Other /\ 500 \in Other
        /\ 401 \in Other
    BY DEF Other
  <2> HIDE DEF down, bad
  <2>2. why = "queue-full" \/ why = "too-large" => Status(why) \in Other
    BY <1>3, <1>4, <2>1
  <2>3. why \in bad \/ why = "no-such-lease" \/ why = "internal" => Status(why) \in Other
    BY <1>5, <1>6, <1>7, <2>1
  <2>4. Status(why) = 401 => Status(why) \in Other
    BY <2>1
  <2>5. QED
    BY <1>8, <2>2, <2>3, <2>4, Zenon
<1>11. "" \notin down
  OBVIOUS
<1> HIDE DEF down
<1>12. (Unavailable(why) <=> why \in down) /\ (Success(why) <=> (why = ""))
  BY <1>1, <1>2, <1>9, <1>11, StatusesDiffer, Zenon DEF Unavailable, Success
<1>13. QED
  BY <1>12 DEF down

\* What the server makes of a grant.
Fails(g) == StatusOf(g) = StatusServiceUnavailable
Succeeds(g) == StatusOf(g) = StatusOK

\* A grant that names its reason is answered with the status of it.
LEMMA StatusOfFacts ==
  ASSUME NEW g, g.allow \/ g.reason # ""
  PROVE  (g.allow <=> Succeeds(g)) /\ (Fails(g) <=> (~g.allow /\ Unavailable(g.reason)))
<1>1. ASSUME g.allow PROVE Succeeds(g) /\ ~Fails(g)
  <2>1. StatusOf(g) = StatusOK
    BY <1>1, Zenon DEF StatusOf
  <2>2. QED
    BY <2>1, StatusesDiffer, Zenon DEF Succeeds, Fails
<1>2. ASSUME ~g.allow PROVE ~Succeeds(g) /\ (Fails(g) <=> Unavailable(g.reason))
  <2>1. g.reason # ""
    BY <1>2
  <2>2. StatusOf(g) = Status(g.reason)
    BY <1>2, <2>1, Zenon DEF StatusOf
  <2>3. ~Success(g.reason)
    BY <2>1, StatusFacts
  <2>4. QED
    BY <2>2, <2>3, Zenon DEF Success, Unavailable, Succeeds, Fails
<1>3. QED
  BY <1>1, <1>2

LEMMA PlainGrants ==
  /\ \A sc : Plain(Allowed(sc))
  /\ \A why \in {"no-credential", "bad-credential", "out-of-scope", "wrong-direction",
                 "estate-wide-credential", "authority-unverifiable", "authority-expired",
                 "authority-revoked"} : Plain(Refused(why))
  BY GrantFields DEF Plain

LEMMA BlameOfPlain ==
  ASSUME NEW g, Plain(g), answer'.given = g, answer'.failed = FALSE
  PROVE  BlameIsRight'
<1>1. ~Unavailable(g.reason) /\ (g.allow \/ g.reason # "")
  BY StatusFacts DEF Plain
<1>2. (g.allow <=> Succeeds(g)) /\ ~Fails(g)
  BY <1>1, StatusOfFacts
<1>3. QED
  BY <1>2, Zenon DEF BlameIsRight, Succeeds, Fails

\* A grant of the control plane, as it is or overruled by the tenant rule.
LEMMA BlameOfPlane ==
  ASSUME NEW g \in NamedGrants, answer'.by = "plane", answer'.said = g,
         answer'.given = Hosted(g), answer'.failed = FALSE
  PROVE  BlameIsRight'
<1>1. CASE Hosted(g) = Refused("estate-wide-credential")
  <2>1. Plain(Refused("estate-wide-credential"))
    BY PlainGrants
  <2>2. QED
    BY <1>1, <2>1, BlameOfPlain
<1>2. CASE Hosted(g) = g
  <2>1. g.allow \/ g.reason # ""
    BY NamedFields
  <2>2. (g.allow <=> Succeeds(g)) /\ (Fails(g) <=> (~g.allow /\ Unavailable(g.reason)))
    BY <2>1, StatusOfFacts
  <2>3. QED
    BY <1>2, <2>2, Zenon DEF BlameIsRight, Succeeds, Fails, Unavailable
<1>3. QED
  BY <1>1, <1>2 DEF Hosted

\* What the tenant rule lets through, and what it makes of a plain grant.
LEMMA HostedFacts ==
  ASSUME NEW g
  PROVE  /\ Plain(g) => Plain(Hosted(g))
         /\ hosted /\ Hosted(g).allow => ~Hosted(g).scope.all /\ Hosted(g).scope.stations # {}
  BY PlainGrants, GrantFields DEF Hosted, stationScoped

\* What check finds, and when it admits.
LEMMA CheckFacts ==
  ASSUME NEW l, NEW a
  PROVE  /\ Plain(check(l, a))
         /\ check(l, a).allow =>
              ~TooLong(l) /\ ~(now >= l.exp) /\ ~(l.epoch < floor[l.scope.estate])
  BY PlainGrants, GrantFields DEF check

LEMMA AnswerLease ==
  ASSUME StateInv, NEW x \in Questions, AdmitLease(x)
  PROVE  Answered'
<1> DEFINE l == x.cred
           g == check(x.cred, x.on)
<1>1. /\ answer'.q = x /\ answer'.by = "lease" /\ answer'.given = g
      /\ answer'.at = now /\ answer'.failed = FALSE /\ answer'.told = told
  <2>1. Reply(x, "lease", g, g, now, x, FALSE)
    BY DEF AdmitLease
  <2> HIDE DEF g
  <2>2. QED
    BY <2>1, ReplyFields
<1>2. UNCHANGED <<config, now, plane>> /\ l \in leases
  BY DEF AdmitLease, Referred
<1>3. /\ Plain(g)
      /\ g.allow => ~TooLong(l) /\ ~(now >= l.exp) /\ ~(l.epoch < floor[l.scope.estate])
  BY CheckFacts
<1>4. /\ l.nbf \in Nat /\ l.exp \in Nat /\ l.epoch \in Nat /\ l.scope.estate \in Estates
      /\ now \in Nat /\ MaxLife \in Nat
      /\ floor[l.scope.estate] \in Nat /\ told[l.scope.estate] \in Nat
  <2>1. l \in Lease
    BY <1>2 DEF StateInv, TypeOK
  <2>2. l.scope.estate \in Estates
    BY <2>1, RequestAssumption DEF Lease
  <2>3. QED
    BY <2>1, <2>2, LifetimeAssumption DEF StateInv, TypeOK, Lease
<1> HIDE DEF g, l
<1>5. RevocationBounded'
  <2>1. ASSUME g.allow, NEW r \in RaisedFor(l.scope.estate), l.epoch < r.epoch
        PROVE  now < r.at + MaxLife
    <3>1. l.nbf <= r.at /\ r.at \in Nat
      BY <1>2, <2>1 DEF StateInv, TypeOK, EpochsCounted, RaisedFor
    <3>2. l.exp - l.nbf <= MaxLife /\ now < l.exp
      BY <1>3, <1>4, <2>1 DEF TooLong
    <3>3. QED
      BY <1>4, <3>1, <3>2
  <2>2. QED
    BY <1>1, <1>2, <2>1 DEF RevocationBounded, RaisedFor, plane, l
<1>6. ToldOnceIsEnough'
  <2>1. g.allow => l.epoch >= told[l.scope.estate]
    BY <1>3, <1>4 DEF StateInv, FloorHolds
  <2>2. QED
    BY <1>1, <2>1 DEF ToldOnceIsEnough, l
<1>7. BlameIsRight'
  BY <1>1, <1>3, BlameOfPlain
<1>8. QED
  BY <1>1, <1>5, <1>6, <1>7 DEF Answered, AnswersFresh, HostedNamesStations, AsListed

LEMMA AnswerPlane ==
  ASSUME StateInv, NEW x, NEW y, NEW g \in NamedGrants, NEW decided \in Nat,
         Reply(x, "plane", g, Hosted(g), decided, y, FALSE),
         key(y) = key(x), Clear(y) /\ Clear(x) => y = x,
         now <= decided + AskTimeout \/ now < decided + AskTimeout + Lifetime(g),
         UNCHANGED config
  PROVE  Answered'
<1>1. /\ answer'.q = x /\ answer'.by = "plane" /\ answer'.said = g /\ answer'.given = Hosted(g)
      /\ answer'.at = now /\ answer'.decided = decided /\ answer'.about = y
      /\ answer'.failed = FALSE
  BY ReplyFields
<1>2. AnswersFresh'
  BY <1>1 DEF AnswersFresh, Lifetime
<1>3. BlameIsRight'
  BY <1>1, BlameOfPlane
<1>4. HostedNamesStations'
  BY <1>1, HostedFacts DEF HostedNamesStations, config
<1>5. QED
  BY <1>1, <1>2, <1>3, <1>4 DEF Answered, RevocationBounded, ToldOnceIsEnough, AsListed

LEMMA AnswerCached ==
  ASSUME StateInv, NEW x \in Questions, AdmitCached(x)
  PROVE  Answered'
<1>1. PICK c \in Held(x) : Reply(x, c.by, c.grant, Hosted(c.grant), c.decided, c.about, FALSE)
  BY DEF AdmitCached
<1>2. /\ c.about \in Question /\ c.key = key(c.about) /\ c.by = "plane"
      /\ c.grant \in NamedGrants /\ c.decided \in Nat /\ c.until \in Nat
      /\ c.until <= c.decided + AskTimeout + Lifetime(c.grant)
      /\ c.key = key(x) /\ now < c.until
  BY DEF Held, StateInv, CacheInTime
<1>3. Clear(c.about) /\ Clear(x) => c.about = x
  BY <1>2, KeyIsQuestion, QuestionsType DEF StateInv
<1>4. now < c.decided + AskTimeout + Lifetime(c.grant)
  BY <1>2, LifetimeType, LifetimeAssumption DEF StateInv, TypeOK
<1>5. UNCHANGED config
  BY DEF AdmitCached
<1>6. QED
  BY <1>1, <1>2, <1>3, <1>4, <1>5, AnswerPlane

LEMMA AnswerHeard ==
  ASSUME StateInv, NEW s \in Slots, Hear(s)
  PROVE  Answered'
<1>1. PICK o \in open[s] : \E r \in o.reply :
        /\ Reply(o.q, "plane", Named(r.grant), Hosted(Named(r.grant)), r.decided, o.q, FALSE)
        /\ UNCHANGED config
  BY DEF Hear
<1>2. PICK r \in o.reply :
        /\ Reply(o.q, "plane", Named(r.grant), Hosted(Named(r.grant)), r.decided, o.q, FALSE)
        /\ UNCHANGED config
  BY <1>1
<1>3. Named(r.grant) \in NamedGrants /\ r.decided \in Nat /\ now <= r.decided + AskTimeout
  BY HeardInTime
<1>4. QED
  BY <1>2, <1>3, AnswerPlane

\* The relay speaks for itself: no credential, or nobody to ask.
LEMMA AnswerRelay ==
  ASSUME NEW x, NEW why, NEW failed \in BOOLEAN,
         why \in {"no-credential", "authoriser-unavailable"},
         failed <=> why = "authoriser-unavailable",
         Reply(x, "relay", Refused(why), Refused(why), now, x, failed)
  PROVE  Answered'
<1>1. answer'.by = "relay" /\ answer'.given = Refused(why) /\ answer'.failed = failed
  BY ReplyFields
<1>2. BlameIsRight'
  <2>1. ~Refused(why).allow /\ Refused(why).reason = why /\ why # ""
    BY GrantFields
  <2>2. Unavailable(Refused(why).reason) <=> failed
    BY <2>1, StatusFacts
  <2>3. ~Succeeds(Refused(why)) /\ (Fails(Refused(why)) <=> failed)
    BY <2>1, <2>2, StatusOfFacts
  <2>4. QED
    BY <1>1, <2>1, <2>3, Zenon DEF BlameIsRight, Succeeds, Fails
<1>3. QED
  BY <1>1, <1>2, GrantFields
  DEF Answered, AnswersFresh, RevocationBounded, ToldOnceIsEnough, HostedNamesStations, AsListed

-----------------------------------------------------------------------------
(* The two authorisers that read their configuration.                      *)

LEMMA StaticPlain == \A x : Plain(StaticAdmit(x))
<1> SUFFICES ASSUME NEW x PROVE Plain(StaticAdmit(x))
  OBVIOUS
<1>1. \/ \E sc : StaticAdmit(x) = Allowed(sc)
      \/ \E why \in {"no-credential", "wrong-direction", "bad-credential"} :
           StaticAdmit(x) = Refused(why)
  BY DEF StaticAdmit
<1>2. QED
  BY <1>1, PlainGrants, GrantFields

LEMMA ScopedPlain == \A x : Plain(ScopedAdmit(x))
<1> SUFFICES ASSUME NEW x PROVE Plain(ScopedAdmit(x))
  OBVIOUS
<1>1. \/ \E sc : ScopedAdmit(x) = Allowed(sc)
      \/ \E why \in {"no-credential", "bad-credential", "out-of-scope"} :
           ScopedAdmit(x) = Refused(why)
  BY DEF ScopedAdmit
<1>2. QED
  BY <1>1, PlainGrants, GrantFields

\* ScopedAdmit admits exactly what the entries of the credential list, as long as
\* they are all of one estate.
LEMMA ScopedAsListed ==
  ASSUME StateInv, mode = "stations", NEW x, x.on \in Attempt,
         Cardinality({entries[i].estate : i \in Listed(x.cred)}) <= 1
  PROVE  ScopedAdmit(x).allow <=>
           \E i \in Listed(x.cred) :
             /\ entries[i].estate = x.on.estate
             /\ entries[i].station = x.on.station
             /\ (entries[i].role = "station") <=> ((x.on.dir = "c2s") <=> (x.on.op = "read"))
<1> DEFINE L == Listed(x.cred)
           last == CHOOSE i \in L : \A j \in L : j <= i
           sc == ScopeOf(x.cred)
<1>1. PICK n \in Nat : entries \in [1 .. n -> Entry]
  BY DEF StateInv, ListedWell
<1>2. L \subseteq 1 .. n
  BY <1>1 DEF Listed
<1>3. CASE L = {}
  <2>1. CASE x.cred = NoCred
    <3>1. ScopedAdmit(x) = Refused("no-credential")
      BY <2>1 DEF ScopedAdmit
    <3>2. QED
      BY <1>3, <3>1, GrantFields
  <2>2. CASE x.cred # NoCred
    <3>1. ScopedAdmit(x) = Refused("bad-credential")
      BY <1>3, <2>2 DEF ScopedAdmit
    <3>2. QED
      BY <1>3, <3>1, GrantFields
  <2>3. QED
    BY <2>1, <2>2
<1>4. CASE L # {}
  <2>1. x.cred # NoCred
    BY <1>1, <1>2, <1>4, RequestAssumption DEF Listed, Entry
  <2>2. last \in L
    BY <1>2, <1>4, LastExists
  <2>3. \A i \in L : entries[i].estate = entries[last].estate
    <3> DEFINE e == [i \in L |-> entries[i].estate]
    <3>1. {e[i] : i \in L} = {entries[i].estate : i \in L}
      OBVIOUS
    <3>2. IsFiniteSet(L)
      <4>1. IsFiniteSet(1 .. n)
        BY FS_Interval
      <4> HIDE DEF L
      <4>2. QED
        BY <1>2, <4>1, FS_Subset
    <3>3. \A i, j \in L : e[i] = e[j]
      <4>1. Cardinality({e[i] : i \in L}) <= 1
        BY <3>1
      <4> HIDE DEF e, L
      <4>2. QED
        BY <3>2, <4>1, OneEstate
    <3>4. QED
      BY <2>2, <3>3
  <2>4. \A i \in L : entries[i].role = entries[last].role
    BY <1>1, <1>2, <2>2 DEF StateInv, ListedWell, Consistent, Listed
  <2>5. entries[last].role \in {"control", "station"}
    BY <1>1, <1>2, <2>2 DEF Entry
  <2>6. /\ sc.estate = entries[last].estate
        /\ sc.stations = {entries[i].station : i \in L} /\ sc.all = FALSE
        /\ sc.read = {IF entries[last].role = "station" THEN "c2s" ELSE "s2c"}
        /\ sc.write = {IF entries[last].role = "station" THEN "s2c" ELSE "c2s"}
    BY DEF ScopeOf
  <2>7. x.on.dir \in {"c2s", "s2c"} /\ x.on.op \in {"read", "write"}
    BY DEF Attempt, Dirs
  <2> HIDE DEF last, L, sc
  <2>8. permits(sc, x.on) <=>
          \E i \in L :
            /\ entries[i].estate = x.on.estate
            /\ entries[i].station = x.on.station
            /\ (entries[i].role = "station") <=> ((x.on.dir = "c2s") <=> (x.on.op = "read"))
    <3>1. (x.on.dir \in (IF x.on.op = "read" THEN sc.read ELSE sc.write))
            <=> ((entries[last].role = "station") <=> ((x.on.dir = "c2s") <=> (x.on.op = "read")))
      BY <2>5, <2>6, <2>7
    <3>2. (sc.estate = x.on.estate /\ (sc.all \/ x.on.station \in sc.stations)) <=>
            \E i \in L : entries[i].estate = x.on.estate /\ entries[i].station = x.on.station
      BY <2>3, <2>6
    <3>3. QED
      BY <2>4, <3>1, <3>2, Zenon DEF permits
  <2>9. ScopedAdmit(x).allow <=> permits(sc, x.on)
    <3>1. ScopedAdmit(x) = IF permits(sc, x.on) THEN Allowed(sc) ELSE Refused("out-of-scope")
      BY <1>4, <2>1 DEF ScopedAdmit, sc, L
    <3>2. QED
      BY <3>1, GrantFields
  <2>10. QED
    BY <2>8, <2>9 DEF L
<1>5. QED
  BY <1>3, <1>4

LEMMA AnswerConfigured ==
  ASSUME StateInv, NEW x \in Questions, AdmitConfigured(x)
  PROVE  Answered'
<1> DEFINE g == IF mode = "stations" THEN ScopedAdmit(x) ELSE StaticAdmit(x)
<1>1. Plain(g)
  BY StaticPlain, ScopedPlain
<1>2. Reply(x, "config", g, Hosted(g), now, x, FALSE)
  BY DEF AdmitConfigured
<1>3. mode = "stations" => g = ScopedAdmit(x)
  OBVIOUS
<1> HIDE DEF g
<1>4. /\ answer'.q = x /\ answer'.by = "config" /\ answer'.said = g /\ answer'.given = Hosted(g)
      /\ answer'.failed = FALSE
  BY <1>2, ReplyFields
<1>5. UNCHANGED config
  BY DEF AdmitConfigured
<1>6. BlameIsRight'
  BY <1>1, <1>4, HostedFacts, BlameOfPlain
<1>7. HostedNamesStations'
  BY <1>1, <1>4, <1>5, HostedFacts DEF HostedNamesStations, config
<1>8. AsListed'
  <2>1. x.on \in Attempt
    BY QuestionsType DEF StateInv, Question
  <2>2. SUFFICES ASSUME mode = "stations",
                        Cardinality({entries[i].estate : i \in Listed(x.cred)}) <= 1
                 PROVE  g.allow <=>
                          \E i \in Listed(x.cred) :
                            /\ entries[i].estate = x.on.estate
                            /\ entries[i].station = x.on.station
                            /\ (entries[i].role = "station") <=> ((x.on.dir = "c2s") <=> (x.on.op = "read"))
    BY <1>4, <1>5 DEF AsListed, config, Listed
  <2>3. QED
    BY <1>3, <2>1, <2>2, ScopedAsListed
<1>9. QED
  BY <1>4, <1>6, <1>7, <1>8 DEF Answered, AnswersFresh, RevocationBounded, ToldOnceIsEnough

-----------------------------------------------------------------------------
LEMMA AdmissionInit == Init => AdmissionInv
<1> SUFFICES ASSUME Init PROVE AdmissionInv
  OBVIOUS
<1>1. answer = Nobody
  BY DEF Init
<1>2. Answered
  BY <1>1, NobodyFields DEF Answered, AnswersFresh, BlameIsRight, RevocationBounded,
                            ToldOnceIsEnough, HostedNamesStations, AsListed
<1>3. QED
  BY <1>2, StateInit DEF AdmissionInv

LEMMA AnsweredNext == AdmissionInv /\ [Next]_vars => Answered'
<1> SUFFICES ASSUME AdmissionInv, [Next]_vars PROVE Answered'
  OBVIOUS
<1>0. StateInv
  BY DEF AdmissionInv
<1>1. ASSUME UNCHANGED vars PROVE Answered'
  BY <1>1 DEF vars, config, plane, AdmissionInv, Answered, AnswersFresh, BlameIsRight,
              RevocationBounded, RaisedFor, ToldOnceIsEnough, HostedNamesStations, AsListed, Listed
<1>2. ASSUME NEW x \in Questions, AdmitNone(x) PROVE Answered'
  <2>1. Reply(x, "relay", Refused("no-credential"), Refused("no-credential"), now, x, FALSE)
    BY <1>2 DEF AdmitNone
  <2>2. \A why : why = "no-credential" =>
          why \in {"no-credential", "authoriser-unavailable"} /\ (FALSE <=> why = "authoriser-unavailable")
    OBVIOUS
  <2>3. PICK why : why = "no-credential"
    OBVIOUS
  <2>4. QED
    BY <2>1, <2>2, <2>3, AnswerRelay
<1>3. ASSUME NEW s \in Slots, AskFail(s) PROVE Answered'
  <2>1. PICK o \in open[s] :
          Reply(o.q, "relay", Refused("authoriser-unavailable"), Refused("authoriser-unavailable"),
                now, o.q, TRUE)
    BY <1>3 DEF AskFail
  <2>2. QED
    BY <2>1, AnswerRelay
<1>4. ASSUME \/ \E x \in Questions, s \in Slots : Ask(s, x)
             \/ \E s \in Slots : Decide(s)
             \/ Mint \/ Tick \/ Restart
             \/ \E e \in Estates : Raise(e) \/ \E n \in 1 .. Epoch(e) : Revoke(e, n)
      PROVE  Answered'
  BY <1>4, AnswerNobody DEF Ask, Decide, Mint, Raise, Tick, Restart, Revoke
<1>5. QED
  BY <1>0, <1>1, <1>2, <1>3, <1>4, AnswerLease, AnswerConfigured, AnswerCached, AnswerHeard
  DEF Next

LEMMA AdmissionInvariant == Spec => []AdmissionInv
<1>1. AdmissionInv /\ [Next]_vars => AdmissionInv'
  BY StateNext, AnsweredNext DEF AdmissionInv
<1>2. QED
  BY <1>1, AdmissionInit, PTL DEF Spec

\* Whatever the lifetimes, the timeout, the names and the number of calls under way,
\* what the control plane said is served for its lifetime and no longer, plus the time
\* a call may take, and, unless the separator of the key is in the name of an estate or
\* a station, only to the question it answered (remote.go, Admit and key).
THEOREM AnswersStayFresh == Spec => []AnswersFresh
<1>1. AdmissionInv => AnswersFresh
  BY DEF AdmissionInv, Answered
<1>2. QED
  BY <1>1, AdmissionInvariant, PTL

\* Whatever reasons the control plane gives, a 503 goes to the requests that asked in
\* vain and to those it refused itself in those words, in every configuration, and a
\* refusal never looks like a success (auth.go, Reason.Status; server.go, refuse).
THEOREM BlameStaysRight == Spec => []BlameIsRight
<1>1. AdmissionInv => BlameIsRight
  BY DEF AdmissionInv, Answered
<1>2. QED
  BY <1>1, AdmissionInvariant, PTL

\* MaxAuthorityLife bounds the delay of a revocation whose notice never arrives,
\* whatever the lengths leases are minted with (authlease.go, check).
THEOREM RevocationIsBounded == Spec => []RevocationBounded
<1>1. AdmissionInv => RevocationBounded
  BY DEF AdmissionInv, Answered
<1>2. QED
  BY <1>1, AdmissionInvariant, PTL

\* Between restarts the floor is at least the highest epoch the relay was told of,
\* and no lease below it opens anything (authlease.go, Revoke and check).
THEOREM ToldIsHeeded == Spec => []ToldOnceIsEnough
<1>1. AdmissionInv => ToldOnceIsEnough
  BY DEF AdmissionInv, Answered
<1>2. QED
  BY <1>1, AdmissionInvariant, PTL

\* The tenant rule stands around all three authorisers (scope.go, Hosted).
THEOREM TenantsNameStations == Spec => []HostedNamesStations
<1>1. AdmissionInv => HostedNamesStations
  BY DEF AdmissionInv, Answered
<1>2. QED
  BY <1>1, AdmissionInvariant, PTL

\* Any list of entries ParseStationScopes accepts is enforced as it is written, for
\* the credentials listed under one estate (scope.go, ParseStationScopes).
THEOREM StationsAsListed == Spec => []AsListed
<1>1. AdmissionInv => AsListed
  BY DEF AdmissionInv, Answered
<1>2. QED
  BY <1>1, AdmissionInvariant, PTL

=============================================================================
