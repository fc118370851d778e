------------------------------- MODULE Mailbox -------------------------------
(***************************************************************************)
(* What a relay promises about its queues, to senders and collectors who   *)
(* know nothing of spool files, stored records, mutexes or copies.         *)
(*                                                                         *)
(* A message that was accepted is kept until it is handed over, or         *)
(* acknowledged under the lease it was handed over with, or too old.       *)
(* Collectors get the oldest first and never what is lent to somebody      *)
(* else.  A lease has a name of its own, lasts for as long as was said,    *)
(* and ends early only with a restart.                                     *)
(*                                                                         *)
(* The Go store and the Worker's Durable Object both implement this        *)
(* (StoreMailbox, WorkerMailbox).  Messages that are not kept in this      *)
(* sense, such as one that comes back after its removal was cut off, are   *)
(* not spoken of: delivery is at least once.                               *)
(***************************************************************************)
EXTENDS Naturals

CONSTANTS
  Routes,
  TTL,       \* how long a message is kept
  MaxLease,  \* the longest lease
  LeaseIds,  \* the names leases may have
  Forgetful  \* does a restart lose the messages?

VARIABLES
  now,
  accepted,  \* every message a sender was told 202 for
  kept,      \* those of them that are still to be handed over
  lent,      \* the loans that are running: [m, lease, until]
  damaged,   \* messages the medium has spoilt
  given      \* every lease id that was handed out

vars == <<now, accepted, kept, lent, damaged, given>>

\* A message is [route, msg, at]; msg is its place in the order of arrival.
Init == now = 0 /\ accepted = {} /\ kept = {} /\ lent = {} /\ damaged = {} /\ given = {}

TooOld(r) == {m \in kept : m.route = r /\ m.at + TTL < now}

\* What a collector on route r may be given.
Free(r) == {m \in kept \ TooOld(r) : m.route = r /\ \A k \in lent : k.m # m}

\* S is an initial segment of F, by arrival.
OldestFirst(S, F) == S \subseteq F /\ \A m \in S : \A x \in F \ S : m.msg < x.msg

Drop(out) ==
  /\ kept' = kept \ out
  /\ lent' = {k \in lent : k.m \notin out}

\* A 202.  Messages are numbered as they arrive; what is too old may go first.
Accept(m) ==
  /\ m.at <= now
  /\ \A x \in accepted : x.msg < m.msg
  /\ accepted' = accepted \cup {m}
  /\ \E out \in {{}, TooOld(m.route)} :
       /\ kept' = (kept \ out) \cup {m}
       /\ lent' = {k \in lent : k.m \notin out}
  /\ UNCHANGED <<now, damaged, given>>

\* Delete on collection.
Deliver(r, S) ==
  /\ OldestFirst(S, Free(r))
  /\ Drop(S \cup TooOld(r))
  /\ UNCHANGED <<now, accepted, damaged, given>>

\* Collection under a lease that nobody has had before.
Lend(r, S, l, d) ==
  /\ OldestFirst(S, Free(r))
  /\ l \notin given
  /\ kept' = kept \ TooOld(r)
  /\ lent' = {k \in lent : k.m \notin TooOld(r)}
               \cup {[m |-> m, lease |-> l, until |-> now + d] : m \in S}
  /\ given' = given \cup {l}
  /\ UNCHANGED <<now, accepted, damaged>>

\* The acknowledgement of lease l on route r: exactly what is still lent.
Settle(r, l) ==
  /\ Drop(TooOld(r) \cup {m \in kept : m.route = r /\ \E k \in lent : k.m = m /\ k.lease = l})
  /\ UNCHANGED <<now, accepted, damaged, given>>

Expire(R) ==
  /\ Drop(UNION {TooOld(r) : r \in R})
  /\ UNCHANGED <<now, accepted, damaged, given>>

\* The medium spoils a message.  It is lost now, or at the next restart, or
\* never if it is handed over before.
Damage(m) ==
  /\ damaged' = damaged \cup {m}
  /\ kept' \in {kept, kept \ {m}}
  /\ UNCHANGED <<now, accepted, lent, given>>

\* Loans end when their time comes, and not before.
Tick ==
  /\ now' = now + 1
  /\ lent' = {k \in lent : k.until > now'}
  /\ UNCHANGED <<accepted, kept, damaged, given>>

\* A clock that is set back while nothing is kept concerns nobody.
SetBack ==
  /\ kept = {} /\ lent = {} /\ now' < now
  /\ UNCHANGED <<accepted, kept, lent, damaged, given>>

\* A restart ends the loans and loses what is spoilt, and nothing else.
Restart ==
  /\ lent' = {}
  /\ kept' = IF Forgetful THEN {} ELSE kept \ damaged
  /\ UNCHANGED <<now, accepted, damaged, given>>

Next ==
  \/ \E m \in accepted' \ accepted : Accept(m)
  \/ \E r \in Routes :
       \/ \E S \in SUBSET Free(r) :
            \/ Deliver(r, S)
            \/ \E l \in LeaseIds, d \in 1 .. MaxLease : Lend(r, S, l, d)
       \/ \E l \in given : Settle(r, l)
  \/ \E R \in SUBSET Routes : Expire(R)
  \/ \E m \in damaged' \ damaged : Damage(m)
  \/ Tick
  \/ SetBack
  \/ Restart

Spec == Init /\ [][Next]_vars
==============================================================================
