---------------------------- MODULE MCWorkerFront ----------------------------
(***************************************************************************)
(* The instance of WorkerFront for TLC.                                    *)
(***************************************************************************)
EXTENDS WorkerFront, TLC

CONSTANTS r1, c1, c2, e1, s1, s2

Shape(path, method) == [path |-> path, method |-> method]

\* Every way through fetch.
AllShapes ==
  {Shape("page", "GET"), Shape("elsewhere", "GET"), Shape("sideways", "POST"),
   Shape("queue", "POST"), Shape("queue", "GET"), Shape("queue", "PUT"),
   Shape("ack", "POST"), Shape("ack", "GET")}

Minted(nbf, exp, genuine, covers) ==
  [nbf |-> nbf, exp |-> exp, genuine |-> genuine, covers |-> covers]

\* In force, too long, made up, and for somewhere else.
AllLeases ==
  {Minted(1, 2, TRUE, TRUE), Minted(0, 3, TRUE, TRUE),
   Minted(0, 2, FALSE, TRUE), Minted(0, 2, TRUE, FALSE)}

Binding(mode, tenant) == [mode |-> mode, hosted |-> tenant, keyed |-> TRUE]

\* Every way to be configured.
AllBindings ==
  {Binding(m, h) : m \in {"stations", "static", "remote"}, h \in BOOLEAN}
    \cup {[Binding("static", FALSE) EXCEPT !.keyed = FALSE]}

\* The second credential is the first one and the estate with a separator between
\* them, and the second station is the estate and the first station.
AllPieces == {c1, e1, s1}
AllSplit == (c1 :> <<c1>>) @@ (c2 :> <<c1, e1>>) @@ (e1 :> <<e1>>)
            @@ (s1 :> <<s1>>) @@ (s2 :> <<e1, s1>>)
x1 == [estate |-> e1, station |-> s1, dir |-> "c2s"]
x2 == [estate |-> e1, station |-> s2, dir |-> "c2s"]

Offer(S, C, X, N) == [shape : S, cred : C, route : X, bytes : N]

\* One request of every kind, at every deployment.
Alone(b) ==
  [bound |-> b, widths |-> {"narrow", "wide", "silent"},
   reasons |-> {"", "authoriser-unavailable", "authority-revoked"},
   offered |-> [r \in Requests |->
     IF r # r1 THEN {}
     ELSE Offer({Shape("queue", "GET")}, AllLeases \cup {c1, NoCred}, {x1}, {1})
            \cup Offer(AllShapes, {c1}, {x1}, {1})]]

\* Two at the same time at a cache that has room for one, for two entries, for the
\* same entry with two sizes, and for two questions that share an entry; the control
\* plane behind the tenant rule.
Crowd ==
  [bound |-> Binding("remote", TRUE), widths |-> {"narrow"},
   reasons |-> {"", "authoriser-unavailable"},
   offered |-> [r \in Requests |->
     IF r = r1 THEN Offer({Shape("queue", "GET")}, {c1}, {x1}, {2})
                      \cup Offer({Shape("queue", "GET")}, {c2}, {x1}, {1})
               ELSE Offer({Shape("queue", "GET")}, {c1}, {x1, x2}, {1})]]

AllLoads == {Alone(b) : b \in AllBindings} \cup {Crowd}
==============================================================================
