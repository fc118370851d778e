---------------------------- MODULE StoreMailbox ----------------------------
(***************************************************************************)
(* The Go store, with or without a spool, implements Mailbox.              *)
(***************************************************************************)
EXTENDS Store

\* A message and a lease mark without the store's own numbers.
Letter(m) == [route |-> m.route, msg |-> m.msg, at |-> m.at]
Loan(k) == [m |-> Letter(k.m), lease |-> k.lease, until |-> k.until]

\* Where the messages really are: in the queue of a running relay, otherwise in
\* the files it will be able to read when it starts.
Kept == (accepted \ Gone) \cap (IF up THEN q ELSE Loadable)

Promise == INSTANCE Mailbox WITH
  LeaseIds  <- (1 .. MaxStarts) \X (1 .. MaxGrants),
  Forgetful <- ~Durable,
  accepted  <- {Letter(m) : m \in accepted},
  kept      <- {Letter(m) : m \in Kept},
  lent      <- {Loan(k) : k \in {x \in marks : x.m \in Kept /\ x.until > now}},
  damaged   <- {Letter(m) : m \in rotten},
  given     <- {g.lease : g \in grants}

\* "A sender that receives a 202 must never be the only holder of the message"
\* (relay.go, Put), "a lease that any other collector could override would
\* guarantee nothing" (relay.go, Take), oldest first, and nothing past its time:
\* each step of the store, down to a single system call, a crash or a power
\* cut, is a step of the mailbox or invisible there.
ImplementsMailbox == Promise!Spec
=============================================================================
