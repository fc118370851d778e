----------------------------- MODULE MCAdmission -----------------------------
(***************************************************************************)
(* An instance of Admission for TLC: two estates and two stations, so that *)
(* a scope can be too narrow in either way.                                *)
(***************************************************************************)
EXTENDS Admission, TLC

CONSTANTS e1, e2, s1, s2, t1, t2

Here(dir, op) == [estate |-> e1, station |-> s1, dir |-> dir, op |-> op]

\* Everything on one pair of queues, and two attempts that differ in the place.
Both == {Here(dir, op) : dir \in Dirs, op \in {"read", "write"}}
AtE2 == [Here("c2s", "read") EXCEPT !.estate = e2]
AtS2 == [Here("c2s", "read") EXCEPT !.station = s2]

\* What is attempted without a credential, and with leases where there are any.
MCAttempts == [remote   |-> {Here("c2s", "read")},
               stations |-> {Here("c2s", "read")},
               estates  |-> {Here("c2s", "read"), AtE2}]

\* The second token is the first one and the first estate with a separator between
\* them, and the second station is the first estate and the first station.  So of
\* the three questions for the control plane, two share a key.
MCPieces == {t1, e1, e2, s1}
MCSplit == (t1 :> <<t1>>) @@ (t2 :> <<t1, e1>>) @@ (e1 :> <<e1>>) @@ (e2 :> <<e2>>)
           @@ (s1 :> <<s1>>) @@ (s2 :> <<e1, s1>>)
MCPresented ==
  [remote   |-> [cred : {t1, t2}, on : {Here("c2s", "read")}] \cup {[cred |-> t1, on |-> AtS2]},
   stations |-> [cred : Tokens, on : Both \cup {AtE2, AtS2}],
   estates  |-> [cred : {t1}, on : {Here("c2s", "read"), Here("c2s", "write")}]
                  \cup [cred : {t2}, on : {Here("c2s", "write"), Here("s2c", "write")}]]
MCPairs == {[control |-> t1, station |-> t2]}

\* The tenant rule looks at what the control plane has said already.
MCHosting == [remote |-> {TRUE}, stations |-> BOOLEAN, estates |-> BOOLEAN]

\* Leases are presented, referred and revoked where the rest is small.
MCMaxMints == [remote |-> 0, stations |-> 0, estates |-> 1]
MCMaxEpoch == [remote |-> 0, stations |-> 0, estates |-> 2]

\* A station's scope: it collects requests and publishes.
StationScope == [estate |-> e1, stations |-> {s1}, all |-> FALSE,
                 read |-> {"c2s"}, write |-> {"s2c"}]

MCLeaseScopes == {StationScope, [StationScope EXCEPT !.estate = e2]}
\* An authoriser that names the station, and one that does not say.
MCPlaneScopes == {StationScope, NoScope}
\* No reason, and one the relay has for itself.
MCPlaneReasons == [yes |-> {"authoriser-unavailable"}, no |-> {"", "authoriser-unavailable"}]

\* Nothing tells the slots apart.
SlotSymmetry == Permutations(Slots)
=============================================================================
