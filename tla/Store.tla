------------------------------- MODULE Store -------------------------------
(***************************************************************************)
(* The message store of the relay: the queues of relay.go, the collection  *)
(* leases of lease.go and the durable spool of spool.go, together with the *)
(* restarts, power cuts and disk errors the spool is written against.      *)
(*                                                                         *)
(* Every operation of the store runs under one mutex.  In memory that makes *)
(* it one step.  On disk it does not: a process may die between any two    *)
(* system calls, so a durable Put is a sequence of steps and the unlinking *)
(* of removed messages is one step per file, all with the mutex held.      *)
(*                                                                         *)
(* Queues and directories are sets.  A message carries the number of its   *)
(* spool file, num, which is also the order of the queue: Put appends with *)
(* the next number and the loader sorts by it.                             *)
(***************************************************************************)
EXTENDS Naturals, FiniteSets

CONSTANTS
  Routes,           \* estate/station/dir keys
  Durable,          \* is there a spool?
  TTL,              \* DefaultTTL
  MaxQueue,         \* DefaultMaxQueue
  MaxLease,         \* the longest lease granted
  Limits,           \* the limits collectors ask for; 0 means no limit
  FSMayFail,        \* may os.Remove and the rename aside fail?
  ClockMayStepBack, \* may the wall clock be set back while the relay is down?
  MaxPuts,          \* bound: puts that get as far as being stamped
  MaxTime,          \* bound: clock readings
  MaxGrants,        \* bound: leased collections in one run of the process
  MaxStarts,        \* bound: starts of the process; the last run never stops
  MaxCuts,          \* bound: power cuts
  MaxFaults         \* bound: spool files damaged while at rest

ASSUME DurableAssumption == Durable \in BOOLEAN
ASSUME SwitchAssumption == FSMayFail \in BOOLEAN /\ ClockMayStepBack \in BOOLEAN
ASSUME TimeAssumption == TTL \in Nat /\ MaxLease \in Nat
ASSUME SizeAssumption == MaxQueue \in Nat \ {0} /\ Limits \subseteq Nat
ASSUME BoundAssumption ==
  /\ MaxPuts \in Nat
  /\ MaxTime \in Nat
  /\ MaxGrants \in Nat
  /\ MaxStarts \in Nat \ {0}
  /\ MaxCuts \in Nat
  /\ MaxFaults \in Nat

VARIABLES
  now,      \* the relay's clock
  up,       \* is the process running?
  epoch,    \* the run of the process; distinct runs have distinct epochs
  q,        \* the messages in the in-memory queues
  marks,    \* lease marks on queued messages: [m, lease, until]
  ids,      \* the message id counter
  leases,   \* the lease counter of this run
  next,     \* the next spool file number
  busy,     \* how far the Put holding the mutex has come
  cur,      \* the message that Put is storing
  doomed,   \* removed messages whose files are still to be unlinked
  disk,     \* the spool directory as the operating system shows it
  firm,     \* the entries of disk that would survive a power cut
  loose,    \* entries that may or may not be there after a power cut
  tmp,      \* writing-* fragments
  aside,    \* the .corrupt files
  rotten,   \* files whose contents no longer parse
  cuts,     \* power cuts so far
  sent,     \* history: puts stamped so far
  accepted, \* history: messages whose sender was told 202
  refused,  \* history: messages whose sender was told they were not stored
  gone,     \* history: how messages left the queue
  grants    \* history: leases handed to collectors

memory == <<q, marks, ids, leases, next>>
call   == <<busy, cur, doomed>>
media  == <<disk, firm, loose, tmp, aside, rotten, cuts>>
past   == <<sent, accepted, refused, gone, grants>>
vars   == <<now, up, epoch, memory, call, media, past>>

-----------------------------------------------------------------------------
(* What the store holds.                                                   *)

\* A message.  msg is the identity of its payload: which Put brought it.
Message == [route : Routes, msg : Nat, id : Nat, num : Nat, at : Nat]

Mark == [m : Message, lease : Nat \X Nat, until : Nat]

\* One message leaving the queue; by names the grant of an acknowledgement.
Exit == [m : Message, how : {"taken", "acked", "expired"},
         at : Nat, run : Nat, by : Nat \X Nat]

\* A lease as its collector knows it.  k tells the collector's own request
\* apart from others of the same run; lease is the id it was given.
Grant == [run : Nat, k : Nat, lease : Nat \X Nat, route : Routes,
          at : Nat, until : Nat, msgs : SUBSET Message]

Init ==
  /\ now = 0 /\ up = TRUE /\ epoch = 1
  /\ q = {} /\ marks = {} /\ ids = 0 /\ leases = 0 /\ next = 1
  /\ busy = "idle" /\ doomed = {}
  /\ \E r \in Routes : cur = [route |-> r, msg |-> 0, id |-> 0, num |-> 0, at |-> 0]
  /\ disk = {} /\ firm = {} /\ loose = {} /\ tmp = {}
  /\ aside = {} /\ rotten = {} /\ cuts = 0
  /\ sent = 0 /\ accepted = {} /\ refused = {} /\ gone = {} /\ grants = {}

\* The mutex is free: no Put is half way, nothing is left to unlink.
Idle == up /\ busy = "idle" /\ doomed = {}

Queue(r) == {m \in q : m.route = r}

\* expireLocked drops the messages at the FRONT of the queue that are older
\* than the time to live, and stops at the first one that is not.
Stale(m) == m.at + TTL < now
Expired(r) == {m \in Queue(r) : \A x \in Queue(r) : x.num <= m.num => Stale(x)}

\* Mutant of Lapsed: leases released a tick early.
LapsedEarly(r) == {k \in marks : k.m.route = r /\ k.until <= now + 1}

\* expireLeasesLocked releases the leases whose deadline has come.
Lapsed(r) == {k \in marks : k.m.route = r /\ k.until <= now}
Marked(r) == {k.m : k \in marks \ Lapsed(r)}

\* Mutant of Available: collection overrides leases.
AvailableLeasedToo(r) == Queue(r) \ Expired(r)

\* Mutant of First: the newest first.
FirstNewest(S, limit) ==
  IF limit = 0 THEN S
  ELSE {m \in S : Cardinality({x \in S : x.num > m.num}) < limit}

\* What a collector can be given, and the first few of it.
Available(r) == (Queue(r) \ Expired(r)) \ Marked(r)
First(S, limit) ==
  IF limit = 0 THEN S
  ELSE {m \in S : Cardinality({x \in S : x.num < m.num}) < limit}

\* Mutants of nextLease: an id that does not name the run, or a bare counter.
nextLeaseAnyRun == <<0, leases + 1>>
nextLeaseCounter == <<leases + 1>>

\* The id of the next lease: the epoch of this run and the lease counter.
nextLease == <<epoch, leases + 1>>

\* Mutant of Leave: the durable copy is forgotten.
LeaveFiles(S) == q' = q \ S /\ doomed' = {}

\* The messages of S leave the queue: from memory now, and from the spool by
\* the Unlink steps that follow.
Leave(S) ==
  /\ q' = q \ S
  /\ doomed' = IF Durable THEN S ELSE {}

Exits(S, how, by) ==
  {[m |-> m, how |-> how, at |-> now, run |-> epoch, by |-> by] : m \in S}
NoOne == <<0, 0>>

\* The directory with file f under its number; a rename replaces what was there.
Over(D, f) == {x \in D : x.num # f.num} \cup {f}

-----------------------------------------------------------------------------
(* Put: expire, check the room, stamp, write the file, answer.             *)

\* Mutant of HasRoom: > where the code has >=.
HasRoomForOneMore(r) == Cardinality(Queue(r) \ Expired(r)) <= MaxQueue

HasRoom(r) == Cardinality(Queue(r) \ Expired(r)) < MaxQueue

\* The early return for a full queue.  Expiry has already happened.
PutFull(r) ==
  /\ Idle
  /\ ~HasRoom(r)
  /\ Leave(Expired(r))
  /\ marks' = {k \in marks : k.m \notin Expired(r)}
  /\ gone' = gone \cup Exits(Expired(r), "expired", NoOne)
  /\ UNCHANGED <<now, up, epoch, ids, leases, next, busy, cur, media,
                 sent, accepted, refused, grants>>

\* There is room: from here to the answer the mutex stays with this Put.
PutAdmit(r) ==
  /\ Idle
  /\ sent < MaxPuts
  /\ HasRoom(r)
  /\ Leave(Expired(r))
  /\ marks' = {k \in marks : k.m \notin Expired(r)}
  /\ gone' = gone \cup Exits(Expired(r), "expired", NoOne)
  /\ busy' = "stamp"
  /\ cur' = [cur EXCEPT !.route = r]
  /\ UNCHANGED <<now, up, epoch, ids, leases, next, media,
                 sent, accepted, refused, grants>>

Stamped(id) ==
  [route |-> cur.route, msg |-> sent + 1, id |-> id, num |-> next, at |-> now]

\* Without a spool the message is queued and the sender told 202.
PutMemory ==
  /\ up /\ busy = "stamp" /\ ~Durable
  /\ ids' = ids + 1
  /\ q' = q \cup {Stamped(ids + 1)}
  /\ next' = next + 1
  /\ busy' = "idle"
  /\ sent' = sent + 1
  /\ accepted' = accepted \cup {Stamped(ids + 1)}
  /\ UNCHANGED <<now, up, epoch, marks, leases, cur, doomed, media,
                 refused, gone, grants>>

\* With a spool, os.CreateTemp comes first.  The id is used up either way.
PutStamp ==
  /\ up /\ busy = "stamp" /\ doomed = {} /\ Durable
  /\ ids' = ids + 1
  /\ cur' = Stamped(ids + 1)
  /\ tmp' = tmp \cup {cur'}
  /\ busy' = "write"
  /\ sent' = sent + 1
  /\ UNCHANGED <<now, up, epoch, q, marks, leases, next, doomed,
                 disk, firm, loose, aside, rotten, cuts,
                 accepted, refused, gone, grants>>

\* A failed write, fsync, close or rename: the fragment is removed, if it can
\* be, and the sender is told the message was not accepted.
PutFail ==
  /\ up /\ busy = "write"
  /\ tmp' \in {tmp \ {cur}} \cup (IF FSMayFail THEN {tmp} ELSE {})
  /\ busy' = "idle"
  /\ refused' = refused \cup {cur}
  /\ UNCHANGED <<now, up, epoch, memory, cur, doomed,
                 disk, firm, loose, aside, rotten, cuts,
                 sent, accepted, gone, grants>>

\* The contents are on the medium and the final name is in place, but the
\* directory entry may still be lost, and so may what it replaced.
PutRename ==
  /\ up /\ busy = "write"
  /\ tmp' = tmp \ {cur}
  /\ disk' = Over(disk, cur)
  /\ firm' = {x \in firm : x.num # cur.num}
  /\ loose' = loose \cup {cur} \cup {x \in firm : x.num = cur.num}
  /\ next' = next + 1
  /\ busy' = "sync"
  /\ UNCHANGED <<now, up, epoch, q, marks, ids, leases, cur, doomed,
                 aside, rotten, cuts, past>>

\* The directory is synced, the message queued, the sender told 202.
PutSync ==
  /\ up /\ busy = "sync"
  /\ firm' = disk
  /\ loose' = {}
  /\ q' = q \cup {cur}
  /\ busy' = "idle"
  /\ accepted' = accepted \cup {cur}
  /\ UNCHANGED <<now, up, epoch, marks, ids, leases, next, cur, doomed,
                 disk, tmp, aside, rotten, cuts, sent, refused, gone, grants>>

\* The sync failed: the file is removed again, if it can be.  Neither the
\* rename nor the removal is known to have reached the medium.
PutSyncFail ==
  /\ up /\ busy = "sync"
  /\ disk' \in {disk \ {cur}} \cup (IF FSMayFail THEN {disk} ELSE {})
  /\ busy' = "idle"
  /\ refused' = refused \cup {cur}
  /\ UNCHANGED <<now, up, epoch, memory, cur, doomed,
                 firm, loose, tmp, aside, rotten, cuts,
                 sent, accepted, gone, grants>>

-----------------------------------------------------------------------------
(* Collection, acknowledgement, and the two operations that only expire.   *)

\* Delete on collection: everything not under somebody's lease.
Take(r, limit) ==
  LET taken == First(Available(r), limit)
      out   == Expired(r) \cup taken
  IN  /\ Idle
      /\ Leave(out)
      /\ marks' = {k \in marks \ Lapsed(r) : k.m \notin out}
      /\ gone' = gone \cup Exits(Expired(r), "expired", NoOne)
                      \cup Exits(taken, "taken", NoOne)
      /\ UNCHANGED <<now, up, epoch, ids, leases, next, busy, cur, media,
                     sent, accepted, refused, grants>>

\* The messages stay where they are, marked.  The counter moves even when
\* there is nothing to hold, but then no lease is handed out.
TakeLeased(r, limit, d) ==
  LET held == First(Available(r), limit)
  IN  /\ Idle
      /\ leases < MaxGrants
      /\ Leave(Expired(r))
      /\ marks' = {k \in marks \ Lapsed(r) : k.m \notin Expired(r)}
                    \cup {[m |-> m, lease |-> nextLease, until |-> now + d] : m \in held}
      /\ leases' = leases + 1
      /\ gone' = gone \cup Exits(Expired(r), "expired", NoOne)
      /\ grants' = grants \cup
           {[run |-> epoch, k |-> leases + 1, lease |-> nextLease, route |-> r,
             at |-> now, until |-> now + d, msgs |-> S] : S \in {held} \ {{}}}
      /\ UNCHANGED <<now, up, epoch, ids, next, busy, cur, media,
                     sent, accepted, refused>>

\* The acknowledgement of grant g, sent to route r, whenever it arrives: in
\* time, late, twice, to the wrong route, or in a later run of the process.
Ack(r, g) ==
  LET kept  == marks \ Lapsed(r)
      acked == {m \in Queue(r) \ Expired(r) :
                  \E k \in kept : k.m = m /\ k.lease = g.lease}
      out   == Expired(r) \cup acked
  IN  /\ Idle
      /\ Leave(out)
      /\ marks' = {k \in kept : k.m \notin out}
      /\ gone' = gone \cup Exits(Expired(r), "expired", NoOne)
                      \cup Exits(acked, "acked", <<g.run, g.k>>)
      /\ UNCHANGED <<now, up, epoch, ids, leases, next, busy, cur, media,
                     sent, accepted, refused, grants>>

\* Depth and Sweep count, and expire on the way: one queue or all of them.
Expire(R) ==
  LET out == UNION {Expired(r) : r \in R}
  IN  /\ Idle
      /\ Leave(out)
      /\ marks' = {k \in marks : k.m \notin out}
      /\ gone' = gone \cup Exits(out, "expired", NoOne)
      /\ UNCHANGED <<now, up, epoch, ids, leases, next, busy, cur, media,
                     sent, accepted, refused, grants>>

Depth(r) == Expire({r})
Sweep == Expire(Routes)

\* spool.remove, one file at a time, in queue order.  It goes by path, a file
\* that is not there is no error, and an error is passed over in silence.
Unlink(m) ==
  /\ up
  /\ m \in doomed
  /\ \A x \in doomed : x.route = m.route => m.num <= x.num
  /\ doomed' = doomed \ {m}
  /\ \/ /\ disk' = {x \in disk : x.num # m.num}
        /\ firm' = {x \in firm : x.num # m.num}
        /\ loose' = loose \cup {x \in firm : x.num = m.num}
     \/ FSMayFail /\ UNCHANGED <<disk, firm, loose>>
  /\ UNCHANGED <<now, up, epoch, memory, busy, cur, tmp, aside, rotten, cuts, past>>

-----------------------------------------------------------------------------
(* Time, crashes, power cuts, damage, and starting again.                  *)

Tick ==
  /\ now < MaxTime
  /\ now' = now + 1
  /\ UNCHANGED <<up, epoch, memory, call, media, past>>

\* The process dies with whatever it was doing; the directory stays.
Crash ==
  /\ up
  /\ epoch < MaxStarts
  /\ up' = FALSE
  /\ q' = {} /\ marks' = {} /\ doomed' = {} /\ busy' = "idle"
  /\ UNCHANGED <<now, epoch, ids, leases, next, cur, media, past>>

\* The machine loses power: directory changes not yet synced may or may not
\* have happened, each independently of the others.
PowerCut ==
  /\ cuts < MaxCuts
  /\ epoch < MaxStarts
  /\ cuts' = cuts + 1
  /\ up' = FALSE
  /\ q' = {} /\ marks' = {} /\ doomed' = {} /\ busy' = "idle"
  /\ \E D \in SUBSET loose :
       /\ \A x, y \in firm \cup D : x.num = y.num => x = y
       /\ disk' = firm \cup D
       /\ firm' = firm \cup D
  /\ loose' = {}
  /\ UNCHANGED <<now, epoch, ids, leases, next, cur, tmp, aside, rotten, past>>

\* The contents of a file go bad, or cannot be read when they are wanted.
Corrupt(f) ==
  /\ Cardinality(rotten) < MaxFaults
  /\ f \in disk
  /\ rotten' = rotten \cup {f}
  /\ UNCHANGED <<now, up, epoch, memory, call, disk, firm, loose, tmp, aside, cuts, past>>

\* Spool files keep wall-clock times, so a clock set back between two runs is
\* a clock that goes back.  Within one run the readings are monotonic.
StepClockBack ==
  /\ ClockMayStepBack
  /\ ~up
  /\ \E t \in 0 .. MaxTime : t < now /\ now' = t
  /\ UNCHANGED <<up, epoch, memory, call, media, past>>

\* Mutant of Loadable: the loader gives up at the first file it cannot read.
LoadableUpToDamage ==
  {f \in disk : \A x \in disk \cap rotten : f.num < x.num}

\* The files readSpoolFile can read.
Loadable == disk \ rotten

HighestOf(S) == {n \in {0} \cup S : \A x \in S : x <= n}

\* Mutant of RecoveredIds: as many ids as files.
RecoveredIdsByCount(good) == {Cardinality(good)}

\* Ids continue from the highest one recovered.
RecoveredIds(good) == HighestOf({f.id : f \in good})

\* Mutant of RecoveredNext: the first number that is free.
RecoveredNextGap(good) ==
  {n \in 1 .. Cardinality(good) + 1 :
     /\ \A f \in good : f.num # n
     /\ \A i \in 1 .. n - 1 : \E f \in good : f.num = i}

\* File numbers continue from the highest one among the files that were read.
RecoveredNext(good) == {n + 1 : n \in HighestOf({f.num : f \in good})}

\* Mutant of Quarantined: what cannot be read is deleted.
QuarantinedNowhere(moved) == {a \in aside : \A f \in moved : f.num # a.num}

\* The .corrupt files once those of moved have been renamed, over any earlier
\* one of the same name.
Quarantined(moved) == {a \in aside : \A f \in moved : f.num # a.num} \cup moved

\* load: fragments are removed, what does not parse is renamed aside or,
\* if that fails, left where it is; the rest is queued.
OpenSpool ==
  LET good == Loadable
      bad  == disk \ good
  IN  \E stuck \in {{}} \cup (IF FSMayFail THEN SUBSET bad ELSE {}) :
        /\ q' = good
        /\ ids' \in RecoveredIds(good)
        /\ next' \in RecoveredNext(good)
        /\ disk' = good \cup stuck
        /\ firm' = firm \ (bad \ stuck)
        /\ loose' = loose \ (bad \ stuck)
        /\ aside' = Quarantined(bad \ stuck)
        /\ tmp' \in {{}} \cup (IF FSMayFail THEN {tmp} ELSE {})

\* NewStore, then OpenSpool if there is a spool directory.
Start ==
  /\ ~up
  /\ up' = TRUE
  /\ epoch' = epoch + 1
  /\ leases' = 0
  /\ marks' = {}
  /\ \/ Durable /\ OpenSpool
     \/ /\ ~Durable
        /\ q' = {} /\ ids' = 0 /\ next' = 1
        /\ UNCHANGED <<disk, firm, loose, aside, tmp>>
  /\ UNCHANGED <<now, call, rotten, cuts, past>>

Next ==
  \/ \E r \in Routes :
       \/ PutFull(r)
       \/ PutAdmit(r)
       \/ Depth(r)
       \/ \E limit \in Limits :
            \/ Take(r, limit)
            \/ \E d \in 1 .. MaxLease : TakeLeased(r, limit, d)
       \/ \E g \in grants : Ack(r, g)
  \/ PutMemory
  \/ PutStamp
  \/ PutFail
  \/ PutRename
  \/ PutSync
  \/ PutSyncFail
  \/ Sweep
  \/ \E m \in doomed : Unlink(m)
  \/ Tick
  \/ Crash
  \/ PowerCut
  \/ \E f \in disk : Corrupt(f)
  \/ StepClockBack
  \/ Start

Spec == Init /\ [][Next]_vars

-----------------------------------------------------------------------------
(* Properties.                                                             *)

\* Every variable keeps to the shape its Go counterpart has: counters are
\* numbers, queue, directory and history hold messages.
TypeOK ==
  /\ now \in Nat /\ up \in BOOLEAN /\ epoch \in Nat
  /\ q \subseteq Message /\ marks \subseteq Mark
  /\ ids \in Nat /\ leases \in Nat /\ next \in Nat
  /\ busy \in {"idle", "stamp", "write", "sync"}
  /\ cur \in Message /\ doomed \subseteq Message
  /\ disk \subseteq Message /\ firm \subseteq Message /\ loose \subseteq Message
  /\ tmp \subseteq Message /\ aside \subseteq Message /\ rotten \subseteq Message
  /\ cuts \in Nat /\ sent \in Nat
  /\ accepted \subseteq Message /\ refused \subseteq Message
  /\ gone \subseteq Exit /\ grants \subseteq Grant

Gone == {x.m : x \in gone}

\* What the relay still owes somebody: accepted with a 202, not collected,
\* acknowledged or expired since, and its file not damaged on the medium.
Owed == (accepted \ Gone) \ rotten

\* "A sender that receives a 202 must never be the only holder of the message"
\* (relay.go, Put).  With a spool an owed message survives whatever happens
\* next, a power cut included, and a running relay has it queued: also after
\* crashes inside Put, between two unlinks, and across any number of restarts.
NoLoss ==
  /\ Durable => Owed \subseteq firm
  /\ up /\ (Durable \/ epoch = 1) => Owed \subseteq q

\* "What is on disk and what is in the queue cannot disagree" (spool.go,
\* write): whenever the mutex is free the spool holds the queued messages and
\* nothing else, no collected or refused one and no fragment.
DiskAgrees == Durable /\ Idle => disk = q /\ tmp = {}

\* A stale acknowledgement is "a 410 instead of somebody else's silent loss"
\* (lease.go, nextLeaseLocked): what an acknowledgement deletes was handed out
\* under that very grant, in this run of the process, and the grant had not
\* run out.
AckOwn ==
  \A x \in gone : x.how = "acked" =>
    \E g \in grants :
      /\ <<g.run, g.k>> = x.by
      /\ x.m \in g.msgs
      /\ g.run = x.run
      /\ x.at < g.until

\* "A lease that any other collector could override would guarantee nothing"
\* (relay.go, Take): while a grant lasts, no other collection of the same run
\* gets one of its messages, neither under a lease nor by deletion.
LeaseExclusion ==
  /\ \A g, h \in grants :
       g.run = h.run /\ g # h /\ g.msgs \cap h.msgs # {} =>
         g.until <= h.at \/ h.until <= g.at
  /\ \A g \in grants : \A x \in gone :
       x.how = "taken" /\ x.run = g.run /\ x.m \in g.msgs => g.until <= x.at

\* Owed messages keep the order in which they were accepted, over restarts
\* too: the loader sorts file names, and the next number is above all of them.
OrderKept == \A a, b \in Owed : a.msg < b.msg => a.num < b.num

\* A collector deduplicates on the id, so no two owed messages share one, even
\* when they were accepted by different runs (spool.go, OpenSpool).
OwedIdsDistinct == \A a, b \in Owed : a.id = b.id => a = b

\* "One estate cannot exhaust the server" (relay.go, Store): no queue owes more
\* than its limit, whatever is refused, expires or comes back after a restart.
OwedBounded == \A r \in Routes : Cardinality({m \in Owed : m.route = r}) <= MaxQueue

\* A file that does not parse is "moved aside rather than deleted, because the
\* bytes may be the only remaining copy of something" (spool.go, SpoolReport): a
\* damaged message nobody has had is still in the directory, under one name or
\* the other.
DamageKept == Durable => (rotten \cap accepted) \ Gone \subseteq disk \cup aside

-----------------------------------------------------------------------------
(* What makes NoLoss inductive.                                            *)

\* A process that is not running holds nothing.
Stopped == ~up => q = {} /\ busy = "idle" /\ doomed = {}

\* Spool files go by their numbers, so no number may stand for two messages:
\* not in the directory, and not between the directory and what the process
\* has queued or is about to unlink.  The next number is above all of those.
NumbersAgree ==
  /\ \A f, g \in disk : f.num = g.num => f = g
  /\ \A m \in q \cup doomed : \A f \in disk : f.num = m.num => f = m
  /\ \A m \in q \cup doomed : m.num < next

\* What is firm is there; a Put that has renamed has done so under a number of
\* its own and is not firm yet; nothing is unlinked meanwhile.
PutInFlight ==
  /\ firm \subseteq disk
  /\ busy \in {"write", "sync"} => doomed = {}
  /\ busy = "write" => cur.num = next
  /\ busy = "sync" => cur \in disk \ firm /\ cur.num < next

\* Only what has left the queue is unlinked.
DoomedGone == doomed \subseteq Gone

SpoolInv ==
  /\ TypeOK
  /\ epoch >= 1
  /\ Stopped
  /\ Durable => NumbersAgree /\ PutInFlight
  /\ DoomedGone
  /\ NoLoss
=============================================================================
