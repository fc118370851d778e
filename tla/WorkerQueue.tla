----------------------------- MODULE WorkerQueue -----------------------------
(***************************************************************************)
(* RelayQueue of edge/src/worker.ts: the Durable Object that keeps one     *)
(* route of the hosted relay.  Its whole state is one stored record; what  *)
(* is in memory is the list of polls to wake.                              *)
(*                                                                         *)
(* The runtime delivers no new event while a storage operation is pending, *)
(* so a handler that loads, computes and saves is one step.  There is one  *)
(* exception.  A put that wakes several held polls resolves all their      *)
(* promises in the same turn: every one of them loads the record before    *)
(* any of them saves it, and each then works on a copy of its own.         *)
(***************************************************************************)
EXTENDS Naturals, FiniteSets

CONSTANTS
  Polls,            \* collection requests that may be held
  TTL, MaxQueue, MaxLease,
  Limits,           \* the limits collectors ask for; 0 means no limit
  MaxWaiting,       \* bound: polls held at the same time
  ClockMayStepBack, \* may Date.now() go back?
  MaxPuts,          \* bound: messages accepted, the ones found at deployment included
  MaxTime,          \* bound: clock readings
  MaxGrants,        \* bound: leases granted
  MaxFound          \* bound: messages in the old shape found at deployment

ASSUME QueueAssumption ==
  TTL \in Nat /\ MaxLease \in Nat /\ MaxQueue \in Nat \ {0} /\ Limits \subseteq Nat
ASSUME InstanceAssumption ==
  /\ ClockMayStepBack \in BOOLEAN
  /\ {MaxWaiting, MaxPuts, MaxTime, MaxGrants, MaxFound} \subseteq Nat

VARIABLES
  now,      \* Date.now()
  q,        \* the stored record: counters n and l, messages, lease marks
  waiters,  \* polls held: their ids and what they asked for
  batch,    \* polls woken in this turn that have loaded and not yet saved
  copy,     \* the record as they loaded it
  sent,     \* history: messages so far
  accepted, \* history: messages whose sender was told 202
  gone,     \* history: how messages left
  grants    \* history: leases handed out

past == <<accepted, gone, grants, sent>>
vars == <<now, q, waiters, batch, copy, past>>

\* What a held poll asked for; d is its lease, 0 for none.
Asked == [poll : Polls, limit : Limits, d : 0 .. MaxLease]

\* A message is [msg, id, at]: msg is the identity of the payload, and queue
\* order is the order of ids.  A lease mark is [m, lease, until].

\* Either nothing was stored, or the shape before leasing: a bare array, which
\* load gives ids by position, the same ones each time until it is saved.
Init ==
  \E k \in 0 .. MaxFound :
    LET found == {[msg |-> i, id |-> i, at |-> 0] : i \in 1 .. k}
    IN  /\ q = [n |-> k + 1, l |-> 1, msgs |-> found, marks |-> {}]
        /\ copy = q
        /\ now = 0 /\ waiters = {} /\ batch = {}
        /\ sent = k /\ accepted = found /\ gone = {} /\ grants = {}

\* No turn is in progress, so the next event can be delivered.
Quiet == batch = {}

-----------------------------------------------------------------------------
\* Mutant of Live: off by one at the edge of the seven days.
LiveLonger(m) == m.at + TTL + 1 >= now

Live(m) == m.at + TTL >= now

\* load: what the seven days have taken goes, wherever it is in the queue, and
\* leases past their deadline are released.
Load(s) ==
  [s EXCEPT !.msgs = {m \in s.msgs : Live(m)},
            !.marks = {k \in s.marks : Live(k.m) /\ k.until > now}]

Exits(S, how, by) == {[m |-> m, how |-> how, at |-> now, by |-> by] : m \in S}
Expiring == Exits({m \in q.msgs : ~Live(m)}, "expired", 0)

\* Mutant of First: the newest first.
FirstNewest(S, limit) ==
  IF limit = 0 THEN S
  ELSE {m \in S : Cardinality({x \in S : x.id > m.id}) < limit}

First(S, limit) ==
  IF limit = 0 THEN S
  ELSE {m \in S : Cardinality({x \in S : x.id < m.id}) < limit}

available(s, limit) == First(s.msgs \ {k.m : k \in s.marks}, limit)

\* Delete on collection.
without(s, out) == [s EXCEPT !.msgs = @ \ out]

\* Mutant of save: the record goes with its last message, counters and all.
saveUnlessEmpty(s) == q' = IF s.msgs = {} THEN [s EXCEPT !.n = 1, !.l = 1] ELSE s

save(s) == q' = s

\* The part of take after the line was held, on the record s it has loaded.
\* Leased messages are marked, others leave.  An empty answer saves whatever
\* load changed; saving an unchanged record changes nothing.
Finish(s, limit, d) ==
  LET out == available(s, limit)
  IN  \/ /\ out = {}
         /\ save(s)
         /\ gone' = gone \cup Expiring
         /\ UNCHANGED grants
      \/ /\ out # {} /\ d = 0
         /\ save(without(s, out))
         /\ gone' = gone \cup Expiring \cup Exits(out, "taken", 0)
         /\ UNCHANGED grants
      \/ /\ out # {} /\ d > 0
         /\ Cardinality(grants) < MaxGrants
         /\ save([s EXCEPT !.l = @ + 1,
                           !.marks = @ \cup {[m |-> m, lease |-> s.l, until |-> now + d] : m \in out}])
         /\ gone' = gone \cup Expiring
         /\ grants' = grants \cup {[k |-> Cardinality(grants) + 1, lease |-> s.l,
                                    at |-> now, until |-> now + d, msgs |-> out]}

-----------------------------------------------------------------------------
(* The handlers.                                                           *)

\* A full queue: refused, and what load found out is not saved.
PutFull ==
  /\ Quiet
  /\ Cardinality(Load(q).msgs) >= MaxQueue
  /\ UNCHANGED vars

\* Mutants of Wake: only one of the polls, or all of them before the save.
WakeOne ==
  /\ copy' = q'
  /\ \/ waiters = {} /\ UNCHANGED <<waiters, batch>>
     \/ \E w \in waiters : batch' = {w} /\ waiters' = waiters \ {w}
WakeFirst == batch' = waiters /\ waiters' = {} /\ copy' = Load(q)

\* Every held poll is woken; each loads the record as it is now.
Wake == batch' = waiters /\ waiters' = {} /\ copy' = q'

Put ==
  LET s == Load(q)
      m == [msg |-> sent + 1, id |-> s.n, at |-> now]
  IN  /\ Quiet
      /\ sent < MaxPuts
      /\ Cardinality(s.msgs) < MaxQueue
      /\ save([s EXCEPT !.n = @ + 1, !.msgs = @ \cup {m}])
      /\ Wake
      /\ sent' = sent + 1
      /\ accepted' = accepted \cup {m}
      /\ gone' = gone \cup Expiring
      /\ UNCHANGED <<now, grants>>

\* A collection that is answered at once: something is there, or ?wait=0.
Take(limit, d) ==
  /\ Quiet
  /\ Finish(Load(q), limit, d)
  /\ UNCHANGED <<now, waiters, batch, copy, sent, accepted>>

\* Nothing is there: the line is held.
Hold(a) ==
  /\ Quiet
  /\ Cardinality(waiters) < MaxWaiting
  /\ \A w \in waiters : w.poll # a.poll
  /\ available(Load(q), a.limit) = {}
  /\ save(Load(q))
  /\ gone' = gone \cup Expiring
  /\ waiters' = waiters \cup {a}
  /\ UNCHANGED <<now, batch, copy, grants, sent, accepted>>

\* The 25 seconds are over: an event of its own, which loads again.
HoldTimeout(w) ==
  /\ Quiet
  /\ w \in waiters
  /\ waiters' = waiters \ {w}
  /\ Finish(Load(q), w.limit, w.d)
  /\ UNCHANGED <<now, batch, copy, sent, accepted>>

\* A poll woken by a put goes on with the copy it loaded.
Resume(w) ==
  /\ w \in batch
  /\ batch' = batch \ {w}
  /\ Finish(copy, w.limit, w.d)
  /\ UNCHANGED <<now, waiters, copy, sent, accepted>>

\* The acknowledgement of grant g, whenever it arrives.
Ack(g) ==
  LET s     == Load(q)
      acked == {m \in s.msgs : \E k \in s.marks : k.m = m /\ k.lease = g.lease}
  IN  /\ Quiet
      /\ save([s EXCEPT !.msgs = @ \ acked,
                        !.marks = {k \in @ : k.m \notin acked}])
      /\ gone' = gone \cup Expiring \cup Exits(acked, "acked", g.k)
      /\ UNCHANGED <<now, waiters, batch, copy, grants, sent, accepted>>

Tick ==
  /\ Quiet /\ now < MaxTime
  /\ now' = now + 1
  /\ UNCHANGED <<q, waiters, batch, copy, past>>

StepClockBack ==
  /\ Quiet /\ ClockMayStepBack
  /\ \E t \in 0 .. MaxTime : t < now /\ now' = t
  /\ UNCHANGED <<q, waiters, batch, copy, past>>

\* The object is evicted or restarted: what was held in memory is lost, with
\* the polls' connections.  The record is not.
Evict ==
  /\ waiters # {} \/ batch # {}
  /\ waiters' = {} /\ batch' = {}
  /\ UNCHANGED <<now, q, copy, past>>

Next ==
  \/ PutFull
  \/ Put
  \/ \E limit \in Limits : \E d \in 0 .. MaxLease : Take(limit, d)
  \/ \E a \in Asked : Hold(a)
  \/ \E w \in waiters : HoldTimeout(w)
  \/ \E w \in batch : Resume(w)
  \/ \E g \in grants : Ack(g)
  \/ Tick
  \/ StepClockBack
  \/ Evict

Spec == Init /\ [][Next]_vars

-----------------------------------------------------------------------------
(* Properties.                                                             *)

Gone == {x.m : x \in gone}

\* "A message you were told was accepted is still there" (README, Storage):
\* until it is collected, acknowledged or expired it is in the stored record,
\* also when several woken polls save copies of the record over each other and
\* when the object is evicted among them.
StillThere == accepted \ Gone \subseteq q.msgs

\* "It is never reused - not even after a queue empties" (README): the counters
\* outlive the messages, and messages of the old shape get ids below them.
IdNeverReused == \A a, b \in accepted : a.id = b.id => a = b

\* What an acknowledgement deletes was handed out under that very grant, which
\* had not run out: "the messages stay in the queue until the collector says it
\* has them" (worker.ts, take).
AckOwn ==
  \A x \in gone : x.how = "acked" =>
    \E g \in grants : g.k = x.by /\ x.m \in g.msgs /\ x.at < g.until

\* "Held only until collected, or seven days": no step hands out a message past
\* its time to live, even when the clock has been set back in between.
HandedOut(m) ==
  \/ \E x \in gone' \ gone : x.m = m /\ x.how = "taken"
  \/ \E g \in grants' \ grants : m \in g.msgs
FreshOnly == [][\A m \in accepted : HandedOut(m) => now <= m.at + TTL]_vars

\* A poll is not held past a message: whatever is queued while polls are held
\* was under a lease at some time (a lease that lapses wakes nobody) or arrived
\* by the put that is waking them (worker.ts, take and put).
NotHeldPastAMessage ==
  waiters # {} => \A m \in q.msgs : \E g \in grants : m \in g.msgs
==============================================================================
