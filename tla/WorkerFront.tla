----------------------------- MODULE WorkerFront -----------------------------
(***************************************************************************)
(* The front of the Worker: fetch of edge/src/worker.ts, from the route to *)
(* the answer of admit, and on to the queue object of the route.           *)
(*                                                                         *)
(* A Worker runs in isolates that come and go.  An isolate runs one        *)
(* request at a time and changes over at every await: at the verification  *)
(* of an authorisation lease and at the call to the control plane.  The    *)
(* decisions of the control plane are kept in the isolate that heard them. *)
(*                                                                         *)
(* What scopes say and how leases are read is the business of Admission;   *)
(* here a grant is narrow (it names stations), wide (estate-wide) or       *)
(* silent, and a lease is its window, whether it is genuine, and whether   *)
(* it covers the request.                                                  *)
(***************************************************************************)
EXTENDS Naturals, Sequences, FiniteSets

CONSTANTS
  Isolates,
  Requests,     \* bound: requests at the same time
  NoCred,       \* no credential, "" in the code
  Leases,       \* authorisation leases: [nbf, exp, genuine, covers]
  Estates, Stations,
  Pieces, Split, \* how names are written: their pieces between separators
  Loads,        \* deployments and what comes at them, see LoadAssumption
  Positive,     \* POSITIVE_MS
  Negative,     \* NEGATIVE_MS
  AskTimeout,   \* AbortSignal.timeout of the call
  MaxLife,      \* MAX_AUTHORITY_LIFE_MS
  MaxCached,    \* MAX_CACHED
  MaxTime       \* bound: clock readings

ASSUME TimeAssumption ==
  {Positive, Negative, AskTimeout, MaxLife, MaxTime} \subseteq Nat /\ MaxCached \in Nat \ {0}
ASSUME LeaseAssumption == \A l \in Leases : l.nbf \in Nat /\ l.exp \in Nat /\ l.nbf <= l.exp
\* A load is how the Worker is configured, which requests may come, by shape,
\* credential, route and Content-Length, and what the control plane may say: how
\* wide its grants are, and the reasons it gives, with a yes or a no, "" for none.
Routes == [estate : Estates, station : Stations, dir : {"c2s", "s2c"}]
ASSUME LoadAssumption ==
  \A load \in Loads :
    /\ load.bound \in [mode : {"stations", "static", "remote"}, hosted : BOOLEAN, keyed : BOOLEAN]
    /\ \A r \in Requests : \A q \in load.offered[r] :
         DOMAIN q = {"shape", "cred", "route", "bytes"} /\ q.route \in Routes
    /\ load.widths \subseteq {"narrow", "wide", "silent"}
\* A name is what it is written as.  One without a separator is one piece, itself.
ASSUME SpellingAssumption ==
  /\ Estates \cup Stations \subseteq DOMAIN Split
  /\ \A n \in DOMAIN Split :
       /\ Split[n] \in Seq(Pieces)
       /\ Len(Split[n]) = 1 => Split[n] = <<n>>
       /\ \A m \in DOMAIN Split : Split[n] = Split[m] => n = m

VARIABLES
  load,      \* the bindings (which authoriser, the tenant rule, a lease key) and the traffic
  now,
  pc,        \* where each request is
  req,       \* the request
  home,      \* the isolate that has it
  decisions, \* of each isolate, the answers it has heard
  asked,     \* when each request went to the control plane
  reply,     \* what the control plane has said to it, and when
  answer     \* what this step has found out, and told a client

call == <<asked, reply>>
vars == <<load, now, pc, req, home, decisions, call, answer>>

bound == load.bound

-----------------------------------------------------------------------------
(* Grants and refusals.                                                    *)

Allowed(width) == [allow |-> TRUE, reason |-> "", width |-> width]
Refused(reason) == [allow |-> FALSE, reason |-> reason, width |-> "silent"]

\* The status table, and json's default for a reason that is not in it.
STATUS(reason) ==
  CASE reason \in {"no-credential", "bad-credential", "wrong-direction", "out-of-scope",
                   "estate-wide-credential", "authority-expired", "authority-unverifiable"} -> 401
    [] reason = "authoriser-unavailable" -> 503
    [] reason \in {"bad-route", "unreadable-request", "bad-lease"} -> 400
    [] reason = "too-large" -> 413
    [] reason = "queue-full" -> 429
    [] reason = "no-such-lease" -> 410
    [] reason = "internal" -> 500
    [] OTHER -> 200

\* The tenant rule.
hosted(g) ==
  IF bound.hosted /\ g.allow /\ g.width # "narrow" THEN Refused("estate-wide-credential") ELSE g

\* What the configured scopes may say: they always name their stations, and a
\* configuration that cannot be read is no statement about the caller.
admitScoped(q) ==
  IF q.cred = NoCred THEN {Refused("no-credential")}
  ELSE {Allowed("narrow"), Refused("internal"), Refused("bad-credential"), Refused("out-of-scope")}

\* What the configured estates may say: all stations, and reading in both
\* directions.
admitStatic(q) ==
  IF q.cred = NoCred THEN {Refused("no-credential")}
  ELSE {Allowed("wide"), Refused("bad-credential")} \cup
       {Refused(why) : why \in {x \in {"wrong-direction"} : q.op = "write"}}

\* An acknowledgement is the second half of a collection, and so a read.
Op(shape) == IF shape.method = "POST" /\ shape.path # "ack" THEN "write" ELSE "read"

-----------------------------------------------------------------------------
NoRequest == [shape |-> NoCred, cred |-> NoCred, route |-> NoCred, op |-> "", bytes |-> 0]
NoAnswer == [said |-> Refused("none"), grant |-> Refused("none"), by |-> "nobody", at |-> 0, decided |-> 0,
             about |-> NoRequest, q |-> NoRequest, status |-> 0]

Init ==
  /\ load \in Loads
  /\ now = 0
  /\ pc = [r \in Requests |-> "idle"]
  /\ req = [r \in Requests |-> NoRequest]
  /\ home = [r \in Requests |-> NoCred]
  /\ decisions = [i \in Isolates |-> {}]
  /\ asked = [r \in Requests |-> 0] /\ reply = [r \in Requests |-> {}]
  /\ answer = NoAnswer

Go(r, step) == pc' = [pc EXCEPT ![r] = step]

\* The request is over, and with it all that is known of it.
End(r) ==
  /\ Go(r, "idle")
  /\ req' = [req EXCEPT ![r] = NoRequest]
  /\ home' = [home EXCEPT ![r] = NoCred]
  /\ asked' = [asked EXCEPT ![r] = 0] /\ reply' = [reply EXCEPT ![r] = {}]

Respond(r, code) == End(r) /\ answer' = [NoAnswer EXCEPT !.status = code]

\* admit returns; said is what was found out, g what becomes of it under the tenant
\* rule; by is who decided, decided when, about which request.  A no is answered, a
\* yes goes on to the queue.
Admitted(r, said, g, by, decided, about) ==
  /\ answer' = [said |-> said, grant |-> g, by |-> by, at |-> now, decided |-> decided, about |-> about,
                q |-> req[r], status |-> IF g.allow THEN 0 ELSE STATUS(g.reason)]
  /\ IF g.allow THEN Go(r, "queue") /\ UNCHANGED <<req, home, call>> ELSE End(r)

\* A request arrives, while there is time for the call it may make.
Arrive(r) ==
  /\ pc[r] = "idle" /\ now + AskTimeout <= MaxTime
  /\ \E q \in load.offered[r] :
       req' = [req EXCEPT ![r] = [shape |-> q.shape, cred |-> q.cred, route |-> q.route,
                                  op |-> Op(q.shape), bytes |-> q.bytes]]
  /\ \E i \in Isolates : home' = [home EXCEPT ![r] = i]
  /\ Go(r, "route")
  /\ answer' = NoAnswer
  /\ UNCHANGED <<load, now, decisions, call>>

\* The pages need no credential, and what is no route is refused before anybody
\* is asked about it.
Route(r) ==
  LET path == req[r].shape.path
  IN  /\ pc[r] = "route"
      /\ CASE path = "page" -> Respond(r, 200)
           [] path = "elsewhere" -> Respond(r, 404)
           [] path = "sideways" -> Respond(r, STATUS("bad-route"))
           [] OTHER -> Go(r, IF req[r].cred \in Leases THEN "verify" ELSE "authorise")
                        /\ answer' = NoAnswer /\ UNCHANGED <<req, home, call>>
      /\ UNCHANGED <<load, now, decisions>>

-----------------------------------------------------------------------------
(* Authorisation leases.                                                   *)

\* Mutant of InWindow: a lease is good until the end of its last moment.
InWindowToTheEnd(l) == l.nbf <= now /\ now <= l.exp

InWindow(l) == l.nbf <= now /\ now < l.exp

\* admitAuthority reads neither the audience nor the epoch of a lease.
checked(l) ==
  IF ~bound.keyed \/ ~l.genuine THEN Refused("authority-unverifiable")
  ELSE IF l.exp - l.nbf > MaxLife THEN Refused("authority-expired")
  ELSE IF ~InWindow(l) THEN Refused("authority-expired")
  ELSE IF ~l.covers THEN Refused("out-of-scope")
  ELSE Allowed("narrow")

\* The verification is awaited; the clock is read after it.  A lease used outside
\* itself is a question for somebody else.
Verified(r) ==
  LET g == checked(req[r].cred)
  IN  /\ pc[r] = "verify"
      /\ IF g.reason = "out-of-scope"
         THEN Go(r, "authorise") /\ answer' = NoAnswer /\ UNCHANGED <<req, home, call>>
         ELSE Admitted(r, g, g, "lease", now, req[r])
      /\ UNCHANGED <<load, now, decisions>>

-----------------------------------------------------------------------------
(* The authoriser that is configured.                                      *)

AdmitLocal(r) ==
  /\ pc[r] = "authorise" /\ bound.mode # "remote"
  /\ \E g \in IF bound.mode = "stations" THEN admitScoped(req[r]) ELSE admitStatic(req[r]) :
       Admitted(r, g, hosted(g), "config", now, req[r])
  /\ UNCHANGED <<load, now, decisions>>

AdmitNone(r) ==
  /\ pc[r] = "authorise" /\ bound.mode = "remote" /\ req[r].cred = NoCred
  /\ LET g == Refused("no-credential") IN Admitted(r, g, g, "relay", now, req[r])
  /\ UNCHANGED <<load, now, decisions>>

\* A lease is written in base64url and two dots: in one piece.
Written(c) == IF c \in DOMAIN Split THEN Split[c] ELSE <<c>>

\* Everything but the size, joined with a separator that nothing escapes.
decisionKey(q) ==
  Written(q.cred) \o Split[q.route.estate] \o Split[q.route.station]
    \o <<q.route.dir>> \o <<q.op>>

Held(r) == {d \in decisions[home[r]] : d.key = decisionKey(req[r]) /\ now < d.until}

AdmitCached(r) ==
  /\ pc[r] = "authorise" /\ bound.mode = "remote" /\ req[r].cred # NoCred
  /\ \E d \in Held(r) : Admitted(r, d.grant, hosted(d.grant), "plane", d.decided, d.about)
  /\ UNCHANGED <<load, now, decisions>>

Ask(r) ==
  /\ pc[r] = "authorise" /\ bound.mode = "remote" /\ req[r].cred # NoCred /\ Held(r) = {}
  /\ Go(r, "asking")
  /\ asked' = [asked EXCEPT ![r] = now]
  /\ answer' = NoAnswer
  /\ UNCHANGED <<load, now, req, home, decisions, reply>>

PlaneGrants ==
  {[Allowed(w) EXCEPT !.reason = why] : w \in load.widths, why \in load.reasons}
    \cup {Refused(why) : why \in load.reasons}

\* The control plane makes up its mind, and nothing checks the reason it gives: there
\* may be none, or one the Worker's table does not have, or one the relay has for
\* itself.
Decide(r) ==
  /\ pc[r] = "asking" /\ reply[r] = {}
  /\ \E g \in PlaneGrants :
       reply' = [reply EXCEPT ![r] = {[grant |-> g, at |-> now]}]
  /\ answer' = NoAnswer
  /\ UNCHANGED <<load, now, pc, req, home, decisions, asked>>

\* No reason is a reason too, with a yes as with a no.
Named(g) == [g EXCEPT !.reason = IF @ = "" THEN "bad-credential" ELSE @]

\* Mutant of Room: one too many.
RoomForOneMore(D) == IF Cardinality(D) > MaxCached THEN {} ELSE D

\* A full cache is emptied, also for an answer that would replace one it holds.
Room(D) == IF Cardinality(D) >= MaxCached THEN {} ELSE D

\* Mutant of Kept: the wrong lifetime.
KeptSwapped(r, g, t) ==
  LET D == Room(decisions[home[r]])
  IN  {d \in D : d.key # decisionKey(req[r])} \cup
      {[key |-> decisionKey(req[r]), grant |-> g, decided |-> t, about |-> req[r],
        until |-> now + (IF g.allow THEN Negative ELSE Positive)]}

\* The cache with the answer in it.  What has lapsed stays until it is replaced.
Kept(r, g, t) ==
  LET D == Room(decisions[home[r]])
  IN  {d \in D : d.key # decisionKey(req[r])} \cup
      {[key |-> decisionKey(req[r]), grant |-> g, decided |-> t, about |-> req[r],
        until |-> now + (IF g.allow THEN Positive ELSE Negative)]}

\* The answer arrives and is kept.
Hear(r) ==
  \E p \in reply[r] :
    LET g == Named(p.grant)
    IN  /\ pc[r] = "asking"
        /\ decisions' = [decisions EXCEPT ![home[r]] = Kept(r, g, p.at)]
        /\ Admitted(r, g, hosted(g), "plane", p.at, req[r])
        /\ UNCHANGED <<load, now>>

\* Unreachable, not a 200, not a decision: neither yes nor no, and not kept.
AskFail(r) ==
  /\ pc[r] = "asking"
  /\ LET g == Refused("authoriser-unavailable") IN Admitted(r, g, g, "outage", now, req[r])
  /\ UNCHANGED <<load, now, decisions>>

\* Mutant of TimedOut: the call has no timer.
TimedOutNever(r) == FALSE

TimedOut(r) == pc[r] = "asking" /\ now >= asked[r] + AskTimeout

AskTimesOut(r) == TimedOut(r) /\ AskFail(r)

-----------------------------------------------------------------------------
\* The queue object: its own method check, and then what WorkerQueue models.
Dispatch(r) ==
  LET shape == req[r].shape
  IN  /\ pc[r] = "queue"
      /\ Respond(r, CASE shape.path # "ack" /\ shape.method = "POST" -> 202
                      [] \/ shape.path = "ack" /\ shape.method = "POST"
                         \/ shape.path # "ack" /\ shape.method = "GET" -> 200
                      [] OTHER -> 405)
      /\ UNCHANGED <<load, now, decisions>>

\* Time passes while requests are awaiting something, but not past the timer of
\* a call; between two awaits an isolate does not stop.
Tick ==
  /\ now < MaxTime
  /\ \A r \in Requests :
       /\ pc[r] \in {"idle", "verify", "asking"} /\ ~TimedOut(r)
       /\ pc[r] = "verify" => now + AskTimeout < MaxTime
  /\ now' = now + 1
  /\ answer' = NoAnswer
  /\ UNCHANGED <<load, pc, req, home, decisions, call>>

\* An isolate with nothing to do is torn down, and its decisions with it.
Evict(i) ==
  /\ decisions[i] # {}
  /\ \A r \in Requests : home[r] # i
  /\ decisions' = [decisions EXCEPT ![i] = {}]
  /\ answer' = NoAnswer
  /\ UNCHANGED <<load, now, pc, req, home, call>>

Run(r) ==
  \/ Route(r) \/ Verified(r) \/ AdmitLocal(r) \/ AdmitNone(r) \/ AdmitCached(r)
  \/ Ask(r) \/ Hear(r) \/ AskTimesOut(r) \/ Dispatch(r)

Next ==
  \/ \E r \in Requests : Arrive(r) \/ Run(r) \/ Decide(r) \/ AskFail(r)
  \/ Tick
  \/ \E i \in Isolates : Evict(i)

Spec == Init /\ [][Next]_vars

\* The runtime goes on with a request once what it awaits is there, and the clock
\* does not stop, however many requests an isolate serves between two awaits.  The
\* control plane may never answer.
FairSpec == Spec /\ SF_vars(Tick) /\ \A r \in Requests : WF_vars(Run(r))

-----------------------------------------------------------------------------
(* Properties.                                                             *)

\* "A cap, because this Map outlives a request" (worker.ts, MAX_CACHED): however
\* many answers are awaited at the same time, an isolate never holds more, and
\* never two for the same question.
CacheBounded ==
  \A i \in Isolates :
    /\ Cardinality(decisions[i]) <= MaxCached
    /\ \A d, e \in decisions[i] : d.key = e.key => d = e

\* Neither the estate nor the station has the separator of the key in its name.
Clear(q) == Len(Split[q.route.estate]) = 1 /\ Len(Split[q.route.station]) = 1

\* What the control plane said is served for its lifetime and no longer, counted
\* from when it was said, plus the time of the call.  It is served to questions that
\* are joined to the same key as the one it answered: to that one alone, the size
\* aside, among the questions without the separator in estate and station.
\* "Unavailability is never cached": a request that asked in vain is told 503, and
\* any other request only if the control plane itself said no in those words
\* (worker.ts, admitRemote, decisionKey and STATUS).
AnswersFresh ==
  LET a == answer
  IN  /\ a.by = "outage" => a.status = 503
      /\ a.status = 503 =>
           \/ a.by = "outage"
           \/ a.by = "plane" /\ ~a.said.allow /\ a.said.reason = "authoriser-unavailable"
      /\ a.by = "plane" =>
           /\ decisionKey(a.about) = decisionKey(a.q)
           /\ Clear(a.about) /\ Clear(a.q) =>
                a.about.cred = a.q.cred /\ a.about.route = a.q.route /\ a.about.op = a.q.op
           /\ \/ a.at <= a.decided + AskTimeout
              \/ a.at < a.decided + AskTimeout + (IF a.said.allow THEN Positive ELSE Negative)

\* The verification of a lease is awaited, and time passes in it: a lease that
\* is let in is in force at that moment, and within MAX_AUTHORITY_LIFE_MS of the
\* moment it came into force (worker.ts, admitAuthority).
LeaseInForce ==
  LET l == answer.q.cred
  IN  answer.by = "lease" /\ answer.grant.allow =>
        /\ bound.keyed /\ l.genuine /\ l.covers
        /\ l.nbf <= answer.at /\ answer.at < l.exp /\ answer.at < l.nbf + MaxLife

\* "A slow authoriser must become an outage quickly" (worker.ts, admitRemote):
\* every request is answered, whatever the control plane does.
EveryRequestAnswered == \A r \in Requests : (pc[r] = "route") ~> (pc[r] = "idle")
==============================================================================
