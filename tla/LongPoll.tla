------------------------------ MODULE LongPoll ------------------------------
(***************************************************************************)
(* The long poll of server.go (get, getLeased, hold, wake, put) together   *)
(* with the revocation watch of authlease.go (Watch, Revoke), on one queue *)
(* of one estate.  Every request is a goroutine; a step is what it does    *)
(* between two points where another goroutine can get in: one call of the  *)
(* store, one critical section, one channel operation.                     *)
(*                                                                         *)
(* The store is seen from here as a set of available messages and a set of *)
(* leased ones (module Store has the rest).  A lease of a credential ("an  *)
(* authority lease") is its epoch and whether its expiry has come.         *)
(***************************************************************************)
EXTENDS Naturals, FiniteSets

CONSTANTS
  Polls,    \* collection requests
  Puts,     \* put requests; each brings the message of the same name
  Loads,    \* which polls come and with what: functions from some polls to Request
  MaxEpoch  \* bound: the epochs Revoke is called with

\* The epoch of the lease presented, 0 for a credential that is no lease; whether
\* ?lease= is asked for; FALSE for ?wait=0.
Request == [cred : Nat, leased : BOOLEAN, waits : BOOLEAN]

ASSUME EpochAssumption == MaxEpoch \in Nat
ASSUME LoadAssumption == \A load \in Loads : \A p \in DOMAIN load : p \in Polls /\ load[p] \in Request

VARIABLES
  pc,       \* where each collection handler is
  putpc,    \* where each put handler is
  cred,     \* the epoch of the lease each poll presents; 0 for a plain token
  leased,   \* did the poll ask for ?lease=?
  waits,    \* FALSE for ?wait=0
  avail,    \* queued messages nobody holds
  marked,   \* queued messages held under a lease: message and poll
  waiters,  \* Server.waiters: polls whose wake channel is registered
  woken,    \* polls whose wake channel is full
  ctxdone,  \* polls whose request context has ended
  over,     \* polls whose authority lease has run out
  floor,    \* AuthorityAuth.epoch of the estate
  watchers, \* AuthorityAuth.watchers: polls whose revoke channel is registered
  dog,      \* the goroutine of Watch
  revch,    \* polls whose revoke channel is full
  ending,   \* polls Revoke has taken off the list and has still to tell
  got,      \* the messages the store gave each poll
  outcome,  \* what was settled for each poll
  early     \* history: what was queued when the poll registered to be woken

store  == <<avail, marked, got>>
asked  == <<cred, leased, waits>>
server == <<waiters, woken, early>>
auth   == <<floor, watchers, dog, revch, ending>>
vars   == <<pc, putpc, asked, store, server, ctxdone, over, auth, outcome>>

Init ==
  /\ \E load \in Loads :
       LET request(p) == IF p \in DOMAIN load THEN load[p] ELSE [cred |-> 0, leased |-> FALSE, waits |-> FALSE]
       IN  /\ pc = [p \in Polls |-> IF p \in DOMAIN load THEN "start" ELSE "done"]
           /\ cred = [p \in Polls |-> request(p).cred]
           /\ leased = [p \in Polls |-> request(p).leased]
           /\ waits = [p \in Polls |-> request(p).waits]
  /\ putpc = [w \in Puts |-> "start"]
  /\ avail = {} /\ marked = {}
  /\ waiters = {} /\ woken = {} /\ early = [p \in Polls |-> {}]
  /\ ctxdone = {} /\ over = {}
  /\ floor = 1 /\ watchers = {} /\ dog = [p \in Polls |-> "off"]
  /\ revch = {} /\ ending = {}
  /\ got = [p \in Polls |-> {}]
  /\ outcome = [p \in Polls |-> "none"]

Go(p, step) == pc' = [pc EXCEPT ![p] = step]

-----------------------------------------------------------------------------
(* AuthorityAuth.check, as far as it can change while a request is running. *)

Current(p) == p \notin over /\ cred[p] >= floor
Good(p) == cred[p] = 0 \/ Current(p)

(* The collection handler.                                                 *)

Admit(p) ==
  /\ pc[p] = "start"
  /\ IF Good(p)
     THEN Go(p, "collect") /\ UNCHANGED outcome
     ELSE Go(p, "done") /\ outcome' = [outcome EXCEPT ![p] = "denied"]
  /\ ctxdone' = IF Good(p) THEN ctxdone ELSE ctxdone \cup {p}
  /\ UNCHANGED <<putpc, asked, store, server, over, auth>>

\* store.Take or store.TakeLeased: one critical section of the store.
Obtain(p) ==
  /\ got' = [got EXCEPT ![p] = avail]
  /\ marked' = IF leased[p] THEN marked \cup (avail \X {p}) ELSE marked
  /\ avail' = {}

\* Mutant of Collect: the line is held although there is something to answer.
CollectAndHold(p) ==
  /\ pc[p] = "collect"
  /\ Obtain(p)
  /\ Go(p, IF waits[p] THEN "watch" ELSE "answer")
  /\ UNCHANGED <<putpc, asked, server, ctxdone, over, auth, outcome>>

Collect(p) ==
  /\ pc[p] = "collect"
  /\ Obtain(p)
  /\ Go(p, IF avail = {} /\ waits[p] THEN "watch" ELSE "answer")
  /\ UNCHANGED <<putpc, asked, server, ctxdone, over, auth, outcome>>

\* A ?lease= that cannot be honoured: settled as refused, nothing collected.
BadLease(p) ==
  /\ pc[p] = "collect"
  /\ Go(p, "done")
  /\ outcome' = [outcome EXCEPT ![p] = "refused"]
  /\ ctxdone' = ctxdone \cup {p}
  /\ UNCHANGED <<putpc, asked, store, server, over, auth>>

\* Watch looks at the lease again.  If it no longer holds, or there is none,
\* the inner authoriser answers, and has no channel to give.
Watch(p) ==
  /\ pc[p] = "watch"
  /\ Go(p, IF cred[p] # 0 /\ Current(p) THEN "register" ELSE "hold")
  /\ UNCHANGED <<putpc, asked, store, server, ctxdone, over, auth, outcome>>

Register(p) ==
  /\ pc[p] = "register"
  /\ watchers' = watchers \cup {p}
  /\ dog' = [dog EXCEPT ![p] = "armed"]
  /\ Go(p, "hold")
  /\ UNCHANGED <<putpc, asked, store, server, ctxdone, over, floor, revch, ending, outcome>>

Hold(p) ==
  /\ pc[p] = "hold"
  /\ waiters' = waiters \cup {p}
  /\ early' = [early EXCEPT ![p] = avail]
  /\ Go(p, "select")
  /\ UNCHANGED <<putpc, asked, store, woken, ctxdone, over, auth, outcome>>

\* select: any channel that is ready, at random; with none ready it parks, and
\* then the first event decides (PollTimeout, HangUp, Wake, Tell below).
Select(p) ==
  /\ pc[p] = "select"
  /\ \/ p \in woken /\ Go(p, "again")
     \/ p \in revch /\ Go(p, "revoked")
     \/ p \in ctxdone /\ Go(p, "leave")
     \/ p \notin woken \cup revch \cup ctxdone /\ Go(p, "parked")
  /\ UNCHANGED <<putpc, asked, store, server, ctxdone, over, auth, outcome>>

\* Mutant of PollTimeout: a hold without a timer.
PollTimeoutNever(p) == pc[p] = "parked" /\ FALSE /\ UNCHANGED vars

PollTimeout(p) ==
  /\ pc[p] = "parked"
  /\ Go(p, "leave")
  /\ UNCHANGED <<putpc, asked, store, server, ctxdone, over, auth, outcome>>

\* The deferred function of hold takes the wake channel off the list again.
\* Woken, the handler collects a second time; otherwise it answers.
Leave(p) ==
  /\ pc[p] \in {"leave", "again", "revoked"}
  /\ p \in waiters
  /\ waiters' = waiters \ {p}
  /\ pc' = IF pc[p] = "leave" THEN [pc EXCEPT ![p] = "answer"] ELSE pc
  /\ UNCHANGED <<putpc, asked, store, woken, early, ctxdone, over, auth, outcome>>

Again(p) ==
  /\ pc[p] = "again" /\ p \notin waiters
  /\ Obtain(p)
  /\ Go(p, "answer")
  /\ UNCHANGED <<putpc, asked, server, ctxdone, over, auth, outcome>>

\* Settle and answer.  The request's context ends with the handler.
Answer(p) ==
  /\ \/ /\ pc[p] = "answer"
        /\ outcome' = [outcome EXCEPT ![p] = IF got[p] = {} THEN "empty" ELSE "delivered"]
     \/ /\ pc[p] = "revoked" /\ p \notin waiters
        /\ outcome' = [outcome EXCEPT ![p] = "revoked"]
  /\ Go(p, "done")
  /\ ctxdone' = ctxdone \cup {p}
  /\ UNCHANGED <<putpc, asked, store, server, over, auth>>

\* The client goes away.
HangUp(p) ==
  /\ pc[p] # "done" /\ p \notin ctxdone
  /\ ctxdone' = ctxdone \cup {p}
  /\ pc' = IF pc[p] = "parked" THEN [pc EXCEPT ![p] = "leave"] ELSE pc
  /\ UNCHANGED <<putpc, asked, store, server, over, auth, outcome>>

-----------------------------------------------------------------------------
(* The put handler: the message is queued, then the waiting polls woken.   *)

\* Not admitted, unreadable, too large, or refused by the store: nobody wakes.
PutRefuse(w) ==
  /\ putpc[w] = "start"
  /\ putpc' = [putpc EXCEPT ![w] = "done"]
  /\ UNCHANGED <<pc, asked, store, server, ctxdone, over, auth, outcome>>

PutQueue(w) ==
  /\ putpc[w] = "start"
  /\ avail' = avail \cup {w}
  /\ putpc' = [putpc EXCEPT ![w] = "queued"]
  /\ UNCHANGED <<pc, asked, marked, got, server, ctxdone, over, auth, outcome>>

\* Mutant of Wake: the first channel on the list and no other.
WakeOne(w) ==
  /\ putpc[w] = "queued"
  /\ putpc' = [putpc EXCEPT ![w] = "done"]
  /\ \E p \in waiters :
       /\ pc' = [pc EXCEPT ![p] = IF pc[p] = "parked" THEN "again" ELSE pc[p]]
       /\ woken' = woken \cup {x \in {p} : pc[x] # "parked"}
  /\ UNCHANGED <<asked, store, waiters, early, ctxdone, over, auth, outcome>>

\* wake: a send that does not block to every registered channel.  A parked
\* poll takes it at once; for any other the channel keeps it.
Wake(w) ==
  /\ putpc[w] = "queued"
  /\ putpc' = [putpc EXCEPT ![w] = "done"]
  /\ pc' = [p \in Polls |->
              IF p \in waiters /\ pc[p] = "parked" THEN "again" ELSE pc[p]]
  /\ woken' = woken \cup {p \in waiters : pc[p] # "parked"}
  /\ UNCHANGED <<asked, store, waiters, early, ctxdone, over, auth, outcome>>

\* A collector acknowledges what it was given, or its lease lapses and the
\* messages are available again.  Neither wakes anybody.
Ack(p) ==
  /\ pc[p] = "done" /\ Good(p)
  /\ \E m \in Puts : <<m, p>> \in marked
  /\ marked' = {x \in marked : x[2] # p}
  /\ UNCHANGED <<pc, putpc, asked, avail, got, server, ctxdone, over, auth, outcome>>

Lapse(p) ==
  /\ \E m \in Puts : <<m, p>> \in marked
  /\ marked' = {x \in marked : x[2] # p}
  /\ avail' = avail \cup {m \in Puts : <<m, p>> \in marked}
  /\ UNCHANGED <<pc, putpc, asked, got, server, ctxdone, over, auth, outcome>>

-----------------------------------------------------------------------------
(* Authority: expiry, the goroutine of Watch, and Revoke.                  *)

\* The expiry of the lease behind poll p comes.
RunOut(p) ==
  /\ cred[p] # 0 /\ p \notin over
  /\ over' = over \cup {p}
  /\ UNCHANGED <<pc, putpc, asked, store, server, ctxdone, auth, outcome>>

\* A send that does not block on a poll's revoke channel.
Tell(p) ==
  IF pc[p] = "parked"
  THEN Go(p, "revoked") /\ UNCHANGED revch
  ELSE UNCHANGED pc /\ revch' = revch \cup {p}

\* Mutant of DogExpire: the timer only cleans up.
DogExpireMute(p) ==
  /\ dog[p] = "armed" /\ p \in over
  /\ dog' = [dog EXCEPT ![p] = "closing"]
  /\ UNCHANGED <<pc, putpc, asked, store, server, ctxdone, over, floor, watchers, revch,
                 ending, outcome>>

DogExpire(p) ==
  /\ dog[p] = "armed" /\ p \in over
  /\ Tell(p)
  /\ dog' = [dog EXCEPT ![p] = "closing"]
  /\ UNCHANGED <<putpc, asked, store, server, ctxdone, over, floor, watchers, ending, outcome>>

\* Mutant of DogRelease: only the timer ends the goroutine.
DogReleaseNever(p) == dog[p] = "armed" /\ FALSE /\ UNCHANGED vars

DogRelease(p) ==
  /\ dog[p] = "armed" /\ p \in ctxdone
  /\ dog' = [dog EXCEPT ![p] = "closing"]
  /\ UNCHANGED <<pc, putpc, asked, store, server, ctxdone, over, floor, watchers, revch,
                 ending, outcome>>

DogClose(p) ==
  /\ dog[p] = "closing"
  /\ watchers' = watchers \ {p}
  /\ dog' = [dog EXCEPT ![p] = "off"]
  /\ UNCHANGED <<pc, putpc, asked, store, server, ctxdone, over, floor, revch, ending, outcome>>

\* Revoke(estate, e): the floor never goes down, and every watcher of the
\* estate is taken off the list, to be told after the lock is released.
Revoke(e) ==
  /\ e > floor \/ watchers # {}
  /\ floor' = IF e > floor THEN e ELSE floor
  /\ ending' = ending \cup watchers
  /\ watchers' = {}
  /\ UNCHANGED <<pc, putpc, asked, store, server, ctxdone, over, dog, revch, outcome>>

RevokeTell(p) ==
  /\ p \in ending
  /\ Tell(p)
  /\ ending' = ending \ {p}
  /\ UNCHANGED <<putpc, asked, store, server, ctxdone, over, floor, watchers, dog, outcome>>

-----------------------------------------------------------------------------
\* What the goroutine of poll p does of its own accord.
Handler(p) ==
  \/ Admit(p) \/ BadLease(p) \/ Collect(p) \/ Watch(p) \/ Register(p) \/ Hold(p)
  \/ Select(p) \/ Leave(p) \/ Again(p) \/ Answer(p)

Dog(p) == DogExpire(p) \/ DogRelease(p) \/ DogClose(p)

Next ==
  \/ \E p \in Polls :
       \/ Handler(p)
       \/ PollTimeout(p)
       \/ HangUp(p)
       \/ Ack(p)
       \/ Lapse(p)
       \/ RunOut(p)
       \/ Dog(p)
       \/ RevokeTell(p)
  \/ \E w \in Puts : PutRefuse(w) \/ PutQueue(w) \/ Wake(w)
  \/ \E e \in 1 .. MaxEpoch : Revoke(e)

Spec == Init /\ [][Next]_vars

\* The Go scheduler runs every goroutine that can run, and a send or a timer
\* that is due happens.  Clients, senders, the control plane and the passing of
\* leases owe nothing, so they have no fairness; nor has PollTimeout here.
PromptSpec ==
  /\ Spec
  /\ \A p \in Polls : WF_vars(Handler(p)) /\ WF_vars(Dog(p)) /\ WF_vars(RevokeTell(p))
  /\ \A w \in Puts : WF_vars(Wake(w))

-----------------------------------------------------------------------------
(* Properties.                                                             *)

\* What the store hands over for a poll is answered: a poll that is denied,
\* refused, revoked or answered empty has had nothing deleted or leased on its behalf.
\* (server.go, get and getLeased: the revoked branch returns before the second
\* collection, and the line is held only when the first one found nothing.)
NothingTakenSilently ==
  \A p \in Polls : outcome[p] \in {"denied", "refused", "empty", "revoked"} => got[p] = {}

\* Messages some lease has held: a lapsed lease returns them and wakes nobody.
WasLeased == UNION {got[p] : p \in {x \in Polls : leased[x]}}

\* wake reaches every poll that is waiting: whatever a parked poll has not been
\* woken for was queued before it registered, has its wake still to come, or
\* came back from a lease.  (server.go, put: queue first and wake afterwards.)
WakeReachesAll ==
  \A p \in Polls : pc[p] = "parked" =>
    avail \subseteq early[p] \cup WasLeased \cup {w \in Puts : putpc[w] = "queued"}

\* Every request is answered in the end, whatever the senders, the clients and
\* the control plane do, if the timer of a hold fires in the end: hold always
\* returns (server.go, hold).
PollsEnd ==
  (\A p \in Polls : WF_vars(PollTimeout(p))) => \A p \in Polls : <>(pc[p] = "done")

\* A poll parked under a lease that has run out, or that Revoke took off the
\* list, ends without waiting for its own timeout or its client (authlease.go,
\* Watch: a lease's expiry is a bound, not a lower bound).
WithdrawnPollEnds ==
  \A p \in Polls :
    (pc[p] = "parked" /\ (p \in ending \/ (dog[p] = "armed" /\ p \in over)))
      ~> (pc[p] = "done")

\* "Both have to happen whichever way the request ends, or a flapping link
\* accumulates timers and channels" (authlease.go, Watch): after the answer
\* neither list keeps the poll and its goroutine is gone, for good.
NothingAccumulates ==
  \A p \in Polls :
    (pc[p] = "done") ~> [](p \notin waiters \cup watchers /\ dog[p] = "off")
=============================================================================
