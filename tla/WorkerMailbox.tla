---------------------------- MODULE WorkerMailbox ----------------------------
(***************************************************************************)
(* The Durable Object of the hosted relay implements the same Mailbox as   *)
(* the Go store, on its one route, as long as no two polls are held at the *)
(* same time: polls woken together are where it departs from it.           *)
(***************************************************************************)
EXTENDS WorkerQueue

CONSTANT Route  \* the route of this object

Letter(m) == [route |-> Route, msg |-> m.msg, at |-> m.at]
Loan(k) == [m |-> Letter(k.m), lease |-> k.lease, until |-> k.until]

Promise == INSTANCE Mailbox WITH
  Routes    <- {Route},
  LeaseIds  <- 1 .. MaxGrants,
  Forgetful <- FALSE,
  accepted  <- {Letter(m) : m \in accepted},
  kept      <- {Letter(m) : m \in q.msgs},
  lent      <- {Loan(k) : k \in {x \in q.marks : x.until > now}},
  damaged   <- {},
  given     <- {g.lease : g \in grants}

\* "A second implementation of the same contract as the Go server" (worker.ts,
\* the opening comment): each handler of the object is a step of the mailbox,
\* eviction in between included, which here does not even end a loan.
ImplementsMailbox == Promise!Spec
==============================================================================
