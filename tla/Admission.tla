------------------------------ MODULE Admission ------------------------------
(***************************************************************************)
(* Who may do what: the authorisers of server.go, auth.go, scope.go,       *)
(* remote.go and authlease.go, stacked the way cmd/heliograph-relay stacks *)
(* them.  Outermost an authorisation lease is checked on the spot; what it *)
(* does not settle goes to one of three authorisers, with the rule for     *)
(* hosted tenants around it:                                               *)
(*                                                                         *)
(*   remote    a control plane over HTTP, its answers cached;              *)
(*   stations  scopes read from HELIOGRAPH_RELAY_STATIONS;                 *)
(*   estates   token pairs read from HELIOGRAPH_RELAY_ESTATES.             *)
(*                                                                         *)
(* The control plane is not part of this repository.  It answers as it     *)
(* likes, with any reason it likes, when it likes, or not at all; it mints *)
(* leases for the current revocation epoch of their estate, in force from  *)
(* now or earlier; and what it says about a raised epoch may be lost,      *)
(* repeated or overtaken.                                                  *)
(*                                                                         *)
(* A request is admitted by its own goroutine, and many are at the same    *)
(* time; the only thing a request waits for is the control plane.          *)
(***************************************************************************)
EXTENDS Naturals, Sequences, FiniteSets

CONSTANTS
  Modes,       \* the authorisers to be configured with
  Hosting,     \* whether the tenant is hosted, is not, or either, in each mode
  Estates, Stations,
  Tokens,      \* ordinary bearer credentials
  Pairs,       \* the pairs of tokens an estate may have: [control, station]
  Presented,   \* the requests that present them, in each mode: [cred, on]
  NoCred,      \* no credential, "" in the code
  Attempts,    \* what others attempt, in each mode: [estate, station, dir, op]
  Pieces, Split, \* how names are written: their pieces between separators
  LeaseScopes, \* the scopes leases are minted with
  PlaneScopes, \* the scopes the control plane names when it allows something
  PlaneReasons, \* the reasons it gives, with a yes and with a no, "" for none
  Audience,    \* the name this relay answers to, "" for none
  Audiences,   \* the names leases are minted for
  Positive,    \* how long a yes is reused
  Negative,    \* how long a no is reused
  AskTimeout,  \* http.Client.Timeout
  MaxLife,     \* MaxAuthorityLife
  Slots,       \* bound: questions open at the control plane at the same time
  MaxEntries,  \* bound: entries of HELIOGRAPH_RELAY_STATIONS
  Lengths,     \* bound: for how long leases are minted
  MaxMints,    \* bound: leases minted, in each mode
  MaxEpoch,    \* bound: revocation epochs of all estates, in each mode
  MaxTime      \* bound: clock readings

ASSUME LifetimeAssumption == {Positive, Negative, AskTimeout, MaxLife} \subseteq Nat
ASSUME CountAssumption ==
  /\ {MaxEntries, MaxTime} \subseteq Nat
  /\ Lengths \subseteq Nat
  /\ \A m \in Modes : MaxMints[m] \in Nat /\ MaxEpoch[m] \in Nat
ASSUME ConfigAssumption ==
  /\ Modes \subseteq {"remote", "stations", "estates"}
  /\ \A m \in Modes : Hosting[m] \subseteq BOOLEAN

VARIABLES
  mode, hosted, \* the configuration: which authoriser, and the tenant rule
  entries,      \* mode stations: the entries, in the order they are written
  pairs,        \* mode estates: the tokens of each estate, NoCred for none
  now,
  leases,       \* the leases in circulation
  raised,       \* when the control plane gave up each epoch: [estate, epoch, at]
  floor,        \* AuthorityAuth.epoch, of each estate
  cache,        \* RemoteAuth.cache, the entries that can still be read
  open,         \* the questions at the control plane
  answer,       \* the answer this step has given the server, if it has
  told          \* history: the highest epoch Revoke was called with, by estate

config == <<mode, hosted, entries, pairs>>
plane  == <<leases, raised>>
vars   == <<config, now, plane, floor, cache, open, answer, told>>

-----------------------------------------------------------------------------
(* Scopes.                                                                 *)

Dirs == {"c2s", "s2c"}
Attempt == [estate : Estates, station : Stations, dir : Dirs, op : {"read", "write"}]

\* Requests attempt nothing else, no credential is not a credential, and leases
\* are minted for the estates there are.
ASSUME RequestAssumption ==
  /\ \A m \in Modes : Attempts[m] \subseteq Attempt
                     /\ Presented[m] \subseteq [cred : Tokens, on : Attempt]
  /\ NoCred \notin Tokens
  /\ \A p \in Pairs : p.control \in Tokens /\ p.station \in Tokens \ {p.control}
  /\ \A sc \in LeaseScopes : sc.estate \in Estates

\* A name is what it is written as.  One without a separator is one piece, itself.
ASSUME SpellingAssumption ==
  /\ Split \in [Tokens \cup Estates \cup Stations -> Seq(Pieces) \ {<<>>}]
  /\ \A n, m \in DOMAIN Split : Split[n] = Split[m] => n = m
  /\ \A n \in DOMAIN Split : Len(Split[n]) = 1 => Split[n] = <<n>>

Scope == [estate : Estates, stations : SUBSET Stations, all : BOOLEAN,
          read : SUBSET Dirs, write : SUBSET Dirs]

\* The zero Scope, which permits nothing.
NoScope == [estate |-> "", stations |-> {}, all |-> FALSE, read |-> {}, write |-> {}]

permits(s, a) ==
  /\ s.estate = a.estate
  /\ s.all \/ a.station \in s.stations
  /\ a.dir \in (IF a.op = "read" THEN s.read ELSE s.write)

stationScoped(s) == ~s.all /\ s.stations # {}

Allowed(s) == [allow |-> TRUE, reason |-> "", scope |-> s]
Refused(reason) == [allow |-> FALSE, reason |-> reason, scope |-> NoScope]

\* Reason.Status.
StatusOK == 200
StatusServiceUnavailable == 503
Status(reason) ==
  CASE reason = "" -> StatusOK
    [] reason \in {"authoriser-unavailable", "not-durable"} -> StatusServiceUnavailable
    [] reason = "queue-full" -> 429
    [] reason = "too-large" -> 413
    [] reason \in {"bad-route", "unreadable-request", "bad-lease"} -> 400
    [] reason = "no-such-lease" -> 410
    [] reason = "internal" -> 500
    [] OTHER -> 401

\* What the server answers a request with, as far as admission goes: a refusal
\* refuses, whatever reason it names.
StatusOf(g) ==
  IF g.allow THEN StatusOK ELSE Status(IF g.reason = "" THEN "bad-credential" ELSE g.reason)

-----------------------------------------------------------------------------
(* The two authorisers that read their configuration.                      *)

\* ParseStationScopes refuses to start with a credential on both sides.
Consistent(es) ==
  \A i, j \in DOMAIN es : es[i].cred = es[j].cred => es[i].role = es[j].role

Listed(c) == {i \in DOMAIN entries : entries[i].cred = c}

\* Mutant of ScopeOf: the last entry replaces the ones before it.
ScopeOfLast(c) ==
  LET last == CHOOSE i \in Listed(c) : \A j \in Listed(c) : j <= i
      side == entries[last].role = "station"
  IN  [estate |-> entries[last].estate, stations |-> {entries[last].station}, all |-> FALSE,
       read |-> {IF side THEN "c2s" ELSE "s2c"}, write |-> {IF side THEN "s2c" ELSE "c2s"}]

\* The scope of a listed credential: its stations add up, the rest is what the
\* last of its entries says.
ScopeOf(c) ==
  LET last == CHOOSE i \in Listed(c) : \A j \in Listed(c) : j <= i
      side == entries[last].role = "station"
  IN  [estate |-> entries[last].estate,
       stations |-> {entries[i].station : i \in Listed(c)}, all |-> FALSE,
       read |-> {IF side THEN "c2s" ELSE "s2c"}, write |-> {IF side THEN "s2c" ELSE "c2s"}]

ScopedAdmit(q) ==
  IF q.cred = NoCred THEN Refused("no-credential")
  ELSE IF Listed(q.cred) = {} THEN Refused("bad-credential")
  ELSE IF permits(ScopeOf(q.cred), q.on) THEN Allowed(ScopeOf(q.cred))
  ELSE Refused("out-of-scope")

\* StaticAuth: either side reads both queues of its estate, each writes its own.
AllowRead(c, a) == c \in {pairs[a.estate].control, pairs[a.estate].station}
AllowWrite(c, a) ==
  c = IF a.dir = "c2s" THEN pairs[a.estate].control ELSE pairs[a.estate].station

\* FromAuth: what a boolean allows it allows estate-wide, and a credential that
\* could have read is told so.
StaticAdmit(q) ==
  LET wide == [estate |-> q.on.estate, stations |-> {}, all |-> TRUE,
               read |-> Dirs, write |-> {q.on.dir}]
  IN  IF q.cred = NoCred THEN Refused("no-credential")
      ELSE IF q.on.op = "read" /\ AllowRead(q.cred, q.on) THEN Allowed(wide)
      ELSE IF q.on.op = "write" /\ AllowWrite(q.cred, q.on) THEN Allowed(wide)
      ELSE IF q.on.op = "write" /\ AllowRead(q.cred, q.on) THEN Refused("wrong-direction")
      ELSE Refused("bad-credential")

\* Mutant of Hosted: only an explicit estate-wide grant is refused.
HostedSilenceIsFine(g) ==
  IF hosted /\ g.allow /\ g.scope.all THEN Refused("estate-wide-credential") ELSE g

\* The tenant rule: silence about stations is refused like an estate-wide scope.
Hosted(g) ==
  IF hosted /\ g.allow /\ ~stationScoped(g.scope)
  THEN Refused("estate-wide-credential") ELSE g

-----------------------------------------------------------------------------
(* Authorisation leases.  A lease is its own credential.                   *)

\* The epoch the control plane is at for an estate.
RaisedFor(e) == {r \in raised : r.estate = e}
Epoch(e) == Cardinality(RaisedFor(e))

\* Mutant of TooLong: the length of a lease is its minter's business.
TooLongNever(l) == FALSE

TooLong(l) == l.exp - l.nbf > MaxLife

check(l, a) ==
  IF ~l.genuine THEN Refused("authority-unverifiable")
  ELSE IF Audience # "" /\ l.aud # Audience THEN Refused("authority-unverifiable")
  ELSE IF TooLong(l) THEN Refused("authority-expired")
  ELSE IF now < l.nbf \/ now >= l.exp THEN Refused("authority-expired")
  ELSE IF l.epoch < floor[l.scope.estate] THEN Refused("authority-revoked")
  ELSE IF ~permits(l.scope, a) THEN Refused("out-of-scope")
  ELSE Allowed(l.scope)

\* Not a lease, or a lease used outside itself: a question for somebody else.
Referred(q) == q.cred \in leases => check(q.cred, q.on).reason = "out-of-scope"

-----------------------------------------------------------------------------
Nobody == [q |-> [cred |-> NoCred, on |-> NoCred], by |-> "nobody", said |-> Refused("none"),
           given |-> Refused("none"), at |-> 0, decided |-> 0, about |-> NoCred,
           failed |-> FALSE, told |-> [e \in Estates |-> 0]]

Entry == [estate : Estates, station : Stations, role : {"control", "station"}, cred : Tokens]
NoPair == [control |-> NoCred, station |-> NoCred]

Init ==
  /\ mode \in Modes /\ hosted \in Hosting[mode]
  /\ \/ /\ mode = "stations"
        /\ entries \in UNION {[1 .. n -> Entry] : n \in 1 .. MaxEntries}
        /\ Consistent(entries)
     \/ mode # "stations" /\ entries = <<>>
  /\ \/ /\ mode = "estates"
        /\ pairs \in [Estates -> Pairs \cup {NoPair}]
        /\ \E e \in Estates : pairs[e] # NoPair
     \/ mode # "estates" /\ pairs = [e \in Estates |-> NoPair]
  /\ now = 0 /\ leases = {} /\ raised = {}
  /\ floor = [e \in Estates |-> 0] /\ told = floor
  /\ cache = {} /\ open = [s \in Slots |-> {}]
  /\ answer = Nobody

Questions == Presented[mode] \cup [cred : {NoCred} \cup leases, on : Attempts[mode]]

\* The server is answered.  said is what was found out, given what becomes of
\* it under the tenant rule; decided and about are when, and for which
\* question, the control plane said it; failed is that this request asked in vain.
Reply(q, by, said, given, decided, about, failed) ==
  answer' = [q |-> q, by |-> by, said |-> said, given |-> given, at |-> now,
             decided |-> decided, about |-> about, failed |-> failed, told |-> told]

\* A lease that settles the matter, with no call to anybody.
AdmitLease(q) ==
  /\ ~Referred(q)
  /\ LET g == check(q.cred, q.on) IN Reply(q, "lease", g, g, now, q, FALSE)
  /\ UNCHANGED <<config, now, plane, floor, cache, open, told>>

AdmitConfigured(q) ==
  /\ mode # "remote" /\ Referred(q)
  /\ LET g == IF mode = "stations" THEN ScopedAdmit(q) ELSE StaticAdmit(q)
     IN  Reply(q, "config", g, Hosted(g), now, q, FALSE)
  /\ UNCHANGED <<config, now, plane, floor, cache, open, told>>

\* RemoteAuth.Admit: no credential, no call.
AdmitNone(q) ==
  /\ mode = "remote" /\ q.cred = NoCred
  /\ LET g == Refused("no-credential") IN Reply(q, "relay", g, g, now, q, FALSE)
  /\ UNCHANGED <<config, now, plane, floor, cache, open, told>>

\* A lease is written in base64url and two dots: in one piece.
Written(c) == IF c \in DOMAIN Split THEN Split[c] ELSE <<c>>

\* The fields are joined with a separator that nothing escapes.
key(q) ==
  Written(q.cred) \o Split[q.on.estate] \o Split[q.on.station] \o <<q.on.dir>> \o <<q.on.op>>

Held(q) == {c \in cache : c.key = key(q) /\ now < c.until}

AdmitCached(q) ==
  /\ mode = "remote" /\ q.cred # NoCred /\ Referred(q)
  /\ \E c \in Held(q) :
       Reply(q, c.by, c.grant, Hosted(c.grant), c.decided, c.about, FALSE)
  /\ UNCHANGED <<config, now, plane, floor, cache, open, told>>

\* Nothing in the cache: the question goes out, and the mutex is not held.
\* Two requests with the same question may both be asking.
Ask(s, q) ==
  /\ mode = "remote" /\ q.cred # NoCred /\ Referred(q) /\ Held(q) = {}
  /\ open[s] = {}
  /\ open' = [open EXCEPT ![s] = {[q |-> q, at |-> now, reply |-> {}]}]
  /\ answer' = Nobody
  /\ UNCHANGED <<config, now, plane, floor, cache, told>>

\* Whatever reason it names is taken as it is, and with a yes too.
PlaneGrants ==
  {[Allowed(sc) EXCEPT !.reason = why] : sc \in PlaneScopes, why \in PlaneReasons.yes}
    \cup {Refused(why) : why \in PlaneReasons.no}

\* The control plane makes up its mind.
Decide(s) ==
  \E o \in open[s] :
    /\ o.reply = {}
    /\ \E g \in PlaneGrants :
         open' = [open EXCEPT ![s] = {[o EXCEPT !.reply = {[grant |-> g, decided |-> now]}]}]
    /\ answer' = Nobody
    /\ UNCHANGED <<config, now, plane, floor, cache, told>>

\* A refusal must name a reason; the control plane's may have left it out.
Named(g) == IF ~g.allow /\ g.reason = "" THEN Refused("bad-credential") ELSE g

\* Mutant of Lifetime: the other way round.
LifetimeSwapped(g) == IF g.allow THEN Negative ELSE Positive

Lifetime(g) == IF g.allow THEN Positive ELSE Negative

\* What by has found out is cached, over whatever is there.
Remember(q, g, by, decided) ==
  cache' = IF Lifetime(g) = 0 THEN cache
           ELSE {c \in cache : c.key # key(q)} \cup
                {[key |-> key(q), grant |-> g, until |-> now + Lifetime(g),
                  by |-> by, decided |-> decided, about |-> q]}

Hear(s) ==
  \E o \in open[s] : \E r \in o.reply :
    LET g == Named(r.grant)
    IN  /\ Remember(o.q, g, "plane", r.decided)
        /\ Reply(o.q, "plane", g, Hosted(g), r.decided, o.q, FALSE)
        /\ open' = [open EXCEPT ![s] = {}]
        /\ UNCHANGED <<config, now, plane, floor, told>>

\* Mutant of AskFail: the outage is remembered like any other no.
AskFailRemembered(s) ==
  \E o \in open[s] :
    LET g == Refused("authoriser-unavailable")
    IN  /\ Remember(o.q, g, "relay", now)
        /\ Reply(o.q, "relay", g, g, now, o.q, TRUE)
        /\ open' = [open EXCEPT ![s] = {}]
        /\ UNCHANGED <<config, now, plane, floor, told>>

\* Unreachable, too late, not a 200, not a decision, or the client has gone:
\* neither yes nor no, and not remembered.
AskFail(s) ==
  \E o \in open[s] :
    LET g == Refused("authoriser-unavailable")
    IN  /\ Reply(o.q, "relay", g, g, now, o.q, TRUE)
        /\ open' = [open EXCEPT ![s] = {}]
        /\ UNCHANGED <<config, now, plane, floor, cache, told>>

-----------------------------------------------------------------------------
(* The control plane's leases and revocations, time, and restarts.         *)

\* A lease is minted: in force from now (from earlier is over earlier), for any
\* length, for this relay or another.  Or somebody else makes one up.
Mint ==
  /\ Cardinality(leases) < MaxMints[mode]
  /\ \E sc \in LeaseScopes, d \in Lengths, aud \in Audiences, genuine \in BOOLEAN :
       leases' = leases \cup {[scope |-> sc, nbf |-> now, exp |-> now + d,
                               epoch |-> Epoch(sc.estate),
                               aud |-> aud, genuine |-> genuine]}
  /\ answer' = Nobody
  /\ UNCHANGED <<config, now, raised, floor, cache, open, told>>

\* The control plane withdraws every lease minted so far for an estate.
Raise(e) ==
  /\ Cardinality(raised) < MaxEpoch[mode]
  /\ raised' = raised \cup {[estate |-> e, epoch |-> Epoch(e) + 1, at |-> now]}
  /\ answer' = Nobody
  /\ UNCHANGED <<config, now, leases, floor, cache, open, told>>

\* Mutant of Revoke: the last notice counts.
RevokeLast(e, n) ==
  /\ floor' = [floor EXCEPT ![e] = n]
  /\ told' = [told EXCEPT ![e] = IF n > @ THEN n ELSE @]
  /\ answer' = Nobody
  /\ UNCHANGED <<config, now, plane, cache, open>>

\* A notice of a raised epoch arrives, in whatever order and however often.
Revoke(e, n) ==
  /\ floor' = [floor EXCEPT ![e] = IF n > @ THEN n ELSE @]
  /\ told' = [told EXCEPT ![e] = IF n > @ THEN n ELSE @]
  /\ answer' = Nobody
  /\ UNCHANGED <<config, now, plane, cache, open>>

TimedOut(o) == now >= o.at + AskTimeout

\* Time passes, but not past the timer of a call that has to be given up.  The
\* code leaves old entries in the cache and never reads them again.
Tick ==
  /\ now < MaxTime
  /\ \A s \in Slots : \A o \in open[s] : ~TimedOut(o)
  /\ now' = now + 1
  /\ cache' = {c \in cache : now' < c.until}
  /\ answer' = Nobody
  /\ UNCHANGED <<config, plane, floor, open, told>>

\* The cache and the floor are in memory only, and so are the open requests.
Restart ==
  /\ floor' = [e \in Estates |-> 0] /\ told' = floor'
  /\ cache' = {} /\ open' = [s \in Slots |-> {}]
  /\ answer' = Nobody
  /\ UNCHANGED <<config, now, plane>>

Next ==
  \/ \E q \in Questions :
       \/ AdmitLease(q)
       \/ AdmitConfigured(q)
       \/ AdmitNone(q)
       \/ AdmitCached(q)
       \/ \E s \in Slots : Ask(s, q)
  \/ \E s \in Slots : Decide(s) \/ Hear(s) \/ AskFail(s)
  \/ Mint
  \/ \E e \in Estates : Raise(e) \/ \E n \in 1 .. Epoch(e) : Revoke(e, n)
  \/ Tick
  \/ Restart

Spec == Init /\ [][Next]_vars

-----------------------------------------------------------------------------
(* Properties of the answers.                                              *)

\* Neither the estate nor the station has the separator of the key in its name.
Clear(q) == Len(Split[q.on.estate]) = 1 /\ Len(Split[q.on.station]) = 1

\* What the control plane said is served for its lifetime and no longer, counted
\* from when it was decided, plus the time the call may take: a late answer may
\* replace a newer one in the cache, and even then a withdrawn yes or a repaired
\* no is gone by that time.  And it is served to questions that are joined to the
\* same key as the one it answered: to that one alone among the questions without
\* the separator in estate and station, whatever the credentials are.
\* (remote.go, Admit, key and NewRemoteAuth.)
AnswersFresh ==
  answer.by = "plane" =>
    /\ key(answer.about) = key(answer.q)
    /\ Clear(answer.about) /\ Clear(answer.q) => answer.about = answer.q
    /\ \/ answer.at <= answer.decided + AskTimeout
       \/ answer.at < answer.decided + AskTimeout
                        + (IF answer.said.allow THEN Positive ELSE Negative)

\* "Unavailability is not cached at all, so the relay recovers as soon as the
\* authoriser does" (README), and a 503 rather than a 401 says that the fault
\* is not the caller's (auth.go, Reason): a request that asked in vain gets it, and
\* any other request only if the control plane itself said no in those words.
\* And no refusal looks like a success.
BlameIsRight ==
  answer.by # "nobody" =>
    /\ answer.failed =>
         answer.by = "relay" /\ StatusOf(answer.given) = StatusServiceUnavailable
    /\ StatusOf(answer.given) = StatusServiceUnavailable =>
         \/ answer.failed
         \/ /\ answer.by = "plane" /\ ~answer.said.allow
            /\ Status(answer.said.reason) = StatusServiceUnavailable
    /\ answer.given.allow <=> (StatusOf(answer.given) = StatusOK)

\* The maximum revocation delay (authlease.go, MaxAuthorityLife): however few
\* notices arrive and however often the relay restarts, a lease minted before
\* its estate's epoch was raised opens nothing MaxLife after it was raised.
RevocationBounded ==
  answer.by = "lease" /\ answer.given.allow =>
    \A r \in RaisedFor(answer.q.cred.scope.estate) :
      answer.q.cred.epoch < r.epoch => answer.at < r.at + MaxLife

\* "Raised by Revoke and never lowered" (authlease.go, AuthorityAuth): a relay
\* that has been told of an estate's epoch admits no lease below it for as long as it
\* runs, whatever older notices arrive after the newer ones.
ToldOnceIsEnough ==
  answer.by = "lease" /\ answer.given.allow => answer.q.cred.epoch >= answer.told[answer.q.cred.scope.estate]

\* A hosted tenant admits nothing on the word of an authoriser that has not
\* named the stations (scope.go, Hosted), also when the word is a cached one.
\* Leases are outside the rule: they are checked before it.
HostedNamesStations ==
  hosted /\ answer.given.allow /\ answer.by # "lease" =>
    ~answer.given.scope.all /\ answer.given.scope.stations # {}

\* A credential of HELIOGRAPH_RELAY_STATIONS may do what its entries say and
\* nothing else (scope.go, ParseStationScopes and ScopedAuth.Admit): collect
\* from the one queue of a listed station and fill the other.  Credentials
\* listed under a single estate only: see the README for the others.
AsListed ==
  answer.by = "config" /\ mode = "stations"
    /\ Cardinality({entries[i].estate : i \in Listed(answer.q.cred)}) <= 1
  => (answer.said.allow <=>
        \E i \in Listed(answer.q.cred) :
          /\ entries[i].estate = answer.q.on.estate
          /\ entries[i].station = answer.q.on.station
          /\ (entries[i].role = "station") <=> ((answer.q.on.dir = "c2s") <=> (answer.q.on.op = "read")))
==============================================================================
