--------------------------- MODULE ContractScript ---------------------------
(***************************************************************************)
(* The relay contract of conformance/conformance.go as a script: the calls *)
(* of every section of Run, leasing and durability in their order, each    *)
(* with what is asserted of the reply.                                     *)
(*                                                                         *)
(* Assertions on the same reply are one step.  Most sections use stations  *)
(* of their own, named afresh for every run of the suite; the tenancy      *)
(* section has two stations with fixed names.                              *)
(***************************************************************************)
EXTENDS Naturals, Sequences, SequencesExt

Lane(estate, station, dir) == [estate |-> estate, station |-> station, dir |-> dir]

AnyCode == {0, 200, 202, 400, 401, 410, 503}
NotAccepted == AnyCode \ {202}
Reasons == {"", "no-credential", "bad-credential", "wrong-direction", "out-of-scope",
            "estate-wide-credential", "authority-expired", "authority-unverifiable",
            "authoriser-unavailable", "bad-route", "bad-lease", "no-such-lease"}
AnyNumber == 0 .. 9

\* A call and what is asserted of its reply: the status, the reason, the number
\* of messages, and what also names.  A failed step with stop ends its part.
Step(do, lane, cred, codes, numbers) ==
  [part |-> "run", do |-> do, lane |-> lane, cred |-> cred, arg |-> 0, codes |-> codes,
   reasons |-> Reasons, numbers |-> numbers, also |-> "", as |-> "last", when |-> "last",
   stop |-> FALSE]

Put(station, dir, cred, codes) == Step("put", Lane("e1", station, dir), cred, codes, AnyNumber)
Get(station, dir, cred, codes, numbers) ==
  Step("get", Lane("e1", station, dir), cred, codes, numbers)
Lease(station, time, codes, numbers) ==
  [Step("lease", Lane("e1", station, "c2s"), "station", codes, numbers) EXCEPT !.arg = time]
Ack(station, cred, lease, codes, numbers) ==
  [Step("ack", Lane("e1", station, "c2s"), cred, codes, numbers) EXCEPT !.arg = lease]
Lever(do) == Step(do, Lane("", "", ""), "none", AnyCode, AnyNumber)
Sleep(time) == [Lever("sleep") EXCEPT !.arg = time]

Because(s, reason) == [s EXCEPT !.reasons = {reason}]
Also(s, what) == [s EXCEPT !.also = what]
As(s, label) == [s EXCEPT !.as = label]
OrStop(s) == [s EXCEPT !.stop = TRUE]

\* Health, identity, the round trip, the scope split, no credential, and why.
Basics ==
  << Also(Lever("look"), "pages"),
     Put("main", "c2s", "control", {202}),
     Also(Get("main", "c2s", "station", {200}, {1}), "intact"),
     Get("main", "c2s", "station", AnyCode, {0}),
     Put("main", "c2s", "station", NotAccepted),
     Put("main", "s2c", "control", NotAccepted),
     Put("main", "s2c", "station", {202}),
     Get("main", "s2c", "control", {200}, {1}),
     Put("main", "c2s", "none", {401}),
     Get("main", "c2s", "none", {401}, AnyNumber),
     Put("main", "c2s", "wrong", {401}),
     As(Put("main", "c2s", "none", AnyCode), "none"),
     As(Put("main", "c2s", "wrong", AnyCode), "wrong"),
     Also(Put("main", "c2s", "station", AnyCode), "reasons") >>

\* The control plane goes away and comes back.
Outage ==
  << Put("warm", "c2s", "control", {202}),
     Lever("outage"),
     Put("warm", "c2s", "control", {202}),
     Because(Put("cold", "c2s", "control", {503}), "authoriser-unavailable"),
     Lever("restore"),
     Put("cold", "c2s", "control", {202}) >>

Sentinel ==
  << Put("sentinel", "c2s", "control", {202}),
     Get("sentinel", "c2s", "station", AnyCode, AnyNumber),
     Also(Lever("look"), "unseen") >>

\* One account, two customers: always the same two stations.
Tenant(s) == [s EXCEPT !.lane.estate = "tenancy"]
Crossing(cred, station, dir) ==
  << Tenant(Because(Put(station, dir, cred, NotAccepted), "out-of-scope")),
     Tenant(Get(station, dir, cred, AnyCode \ {200}, AnyNumber)) >>

Tenancy ==
  FlattenSeq(<< Crossing("alphaStation", "bravo", "c2s"), Crossing("alphaStation", "bravo", "s2c"),
                Crossing("alphaControl", "bravo", "c2s"), Crossing("alphaControl", "bravo", "s2c"),
                Crossing("bravoStation", "alpha", "c2s"), Crossing("bravoStation", "alpha", "s2c"),
                Crossing("bravoControl", "alpha", "c2s") >>)
  \o << Tenant(Put("alpha", "c2s", "alphaControl", {202})),
        Tenant(Get("alpha", "c2s", "alphaStation", {200}, {1})),
        Tenant(Put("alpha", "s2c", "alphaStation", {202})),
        Tenant(Put("alpha", "c2s", "alphaStation", NotAccepted)),
        Tenant(Because(Put("alpha", "c2s", "wide", NotAccepted), "estate-wide-credential")) >>

\* A lease that nobody has signed, and a credential that is no lease.
Unverified ==
  << Because(Put("lease", "s2c", "forged", NotAccepted), "authority-unverifiable"),
     Get("lease", "c2s", "forged", AnyCode \ {200}, AnyNumber),
     Put("dotted", "c2s", "control", {202}) >>

\* Leases the harness has signed, or somebody else, or that were edited since.
Signed ==
  << Put("leased", "s2c", "live", {202}),
     Put("leased", "c2s", "control", {202}),
     Get("leased", "c2s", "live", {200}, {1}),
     Put("leased", "c2s", "live", NotAccepted),
     Put("elsewhere", "s2c", "live", NotAccepted),
     Because(Put("leased", "s2c", "expired", NotAccepted), "authority-expired"),
     Because(Put("leased", "s2c", "forged", NotAccepted), "authority-unverifiable"),
     Put("leased", "c2s", "tampered", NotAccepted) >>

Estate(s, estate) == [s EXCEPT !.lane.estate = estate]
Isolation ==
  << Estate(Put("main", "c2s", "control", NotAccepted), "e2"),
     Estate(Get("main", "c2s", "station", {401}, AnyNumber), "e2") >>

\* An estate nobody configured, a direction that is none, any body, any order,
\* a long poll, and a collection that does not wait and is answered at once.
Remaining ==
  << Estate(Put("main", "c2s", "control", NotAccepted), "nowhere"),
     Put("main", "sideways", "control", NotAccepted),
     Put("body", "c2s", "control", {202}),
     Put("seq", "c2s", "control", AnyCode),
     Put("seq", "c2s", "control", AnyCode),
     Also(Get("seq", "c2s", "station", AnyCode, {2}), "intact"),
     Step("poll", Lane("e1", "poll", "c2s"), "station", AnyCode, AnyNumber),
     Sleep(4),
     Put("poll", "c2s", "control", AnyCode),
     Step("await", Lane("e1", "poll", "c2s"), "station", {200}, {1}),
     Also(Get("empty", "c2s", "station", AnyCode, AnyNumber), "at once") >>

\* Collection leases: compatibility first, then a lease held and acknowledged.
Holding ==
  << OrStop(Put("plain", "c2s", "control", {202})),
     Also(Get("plain", "c2s", "station", {200}, {1}), "intact"),
     Get("plain", "c2s", "station", AnyCode, {0}),
     Put("zero", "c2s", "control", AnyCode),
     Get("zero", "c2s", "station", {200}, {1}),
     Get("zero", "c2s", "station", AnyCode, AnyNumber),
     OrStop(Put("held", "c2s", "control", {202})),
     As(OrStop(Also(Lease("held", 300, {200}, {1}), "leased")), "loan"),
     Also(Lease("held", 300, AnyCode, {0}), "no lease"),
     Get("held", "c2s", "station", AnyCode, {0}),
     Ack("held", "station", "loan", {200}, {1}),
     Get("held", "c2s", "station", AnyCode, {0}),
     Ack("held", "station", "loan", {410}, AnyNumber),
     Ack("held", "station", "never", {410}, AnyNumber),
     Ack("held", "none", "loan", {401}, AnyNumber) >>

\* Abandoned leases, long polls under a lease, and the lease parameter itself.
Returning ==
  << Put("dying", "c2s", "control", AnyCode),
     As(OrStop(Lease("dying", 10, AnyCode, {1})), "short"),
     Sleep(15),
     Also(Lease("dying", 300, AnyCode, {1}), "again"),
     [Step("poll", Lane("e1", "leasepoll", "c2s"), "station", AnyCode, AnyNumber) EXCEPT !.arg = 300],
     Sleep(4),
     Put("leasepoll", "c2s", "control", AnyCode),
     As(Also(Step("await", Lane("e1", "leasepoll", "c2s"), "station", AnyCode, {1}), "leased"), "woke"),
     [Ack("leasepoll", "station", "woke", {200}, {1}) EXCEPT !.when = "woke"],
     Put("badlease", "c2s", "control", AnyCode),
     Lease("badlease", 36000, {400}, AnyNumber) >>
  \o FlattenSeq([i \in 1 .. 3 |->
       << As(Lease("badlease", <<300, 5, 1200>>[i], {200}, AnyNumber), "good"),
          [Ack("badlease", "station", "good", AnyCode, AnyNumber) EXCEPT !.when = "good"],
          [Put("badlease", "c2s", "control", AnyCode) EXCEPT !.when = "good"] >>])

Durability ==
  << OrStop(Put("durable", "c2s", "control", {202})),
     OrStop(Also(Lever("restart"), "back")),
     Also(Get("durable", "c2s", "station", {200}, {1}), "intact"),
     OrStop(Put("collected", "c2s", "control", {202})),
     OrStop(Get("collected", "c2s", "station", AnyCode, {1})),
     OrStop(Also(Lever("restart"), "back")),
     Get("collected", "c2s", "station", AnyCode, {0}) >>

\* What Run does with a section it has no lever for: ok, with a note.
NotAttempted == <<Lever("note")>>

InPart(steps, part) == [i \in DOMAIN steps |-> [steps[i] EXCEPT !.part = part]]

\* The script for a harness with these levers.  An estate that was not named is
\* left out; durability is marked as skipped.
ScriptOf(L) ==
  LET Section(lever, steps) == IF lever \in L THEN steps ELSE NotAttempted
      Other(steps) == IF "other" \in L THEN steps ELSE <<>>
  IN  Basics \o Section("plane", Outage) \o Section("plane", Sentinel)
        \o Section("tenancy", Tenancy) \o Unverified \o Section("sign", Signed)
        \o Other(Isolation) \o Remaining
        \o InPart(Holding \o Other(<<Estate(Ack("held", "station", "loan", {401}, AnyNumber), "e2")>>)
                     \o Returning, "leasing")
        \o InPart(IF "restart" \in L THEN Durability ELSE <<Lever("skip"), Lever("skip")>>,
                   "durability")
=============================================================================
