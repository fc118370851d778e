--------------------------- MODULE LongPollProofs ---------------------------
(***************************************************************************)
(* Proofs about LongPoll, for any polls, puts, loads and epochs.           *)
(***************************************************************************)
EXTENDS LongPoll, TLAPS

Steps == {"start", "collect", "watch", "register", "hold", "select", "parked",
          "leave", "again", "revoked", "answer", "done"}
Outcomes == {"none", "denied", "refused", "empty", "delivered", "revoked"}

\* The shape of what the two properties speak of.
TypeOK ==
  /\ pc \in [Polls -> Steps]
  /\ putpc \in [Puts -> {"start", "queued", "done"}]
  /\ leased \in [Polls -> BOOLEAN]
  /\ avail \subseteq Puts /\ marked \subseteq Puts \X Polls
  /\ got \in [Polls -> SUBSET Puts]
  /\ waiters \subseteq Polls /\ woken \subseteq Polls
  /\ early \in [Polls -> SUBSET Puts]
  /\ outcome \in [Polls -> Outcomes]

\* Nothing has been decided about a request that is running, and one that holds
\* messages has nothing left to do but to answer with them.
GotIsAnswered ==
  \A p \in Polls :
    /\ pc[p] # "done" => outcome[p] = "none"
    /\ got[p] # {} => \/ pc[p] = "answer"
                      \/ pc[p] = "done" /\ outcome[p] = "delivered"

\* A lease mark is on a message that was given to a poll that asked for a lease.
MarksAreGiven == \A x \in marked : leased[x[2]] /\ x[1] \in got[x[2]]

\* What a poll that waits may have missed.
Known(p) == early[p] \cup WasLeased \cup {w \in Puts : putpc[w] = "queued"}

\* A poll is on the list from the time it selects, one that parks has no wake
\* in its channel, and one without a wake has missed nothing it could have had.
WakePending ==
  \A p \in Polls :
    /\ pc[p] \in {"select", "parked"} => p \in waiters
    /\ pc[p] = "parked" => p \notin woken
    /\ pc[p] \in {"select", "parked"} /\ p \notin woken => avail \subseteq Known(p)

PollInv == TypeOK /\ GotIsAnswered /\ MarksAreGiven /\ WakePending

-----------------------------------------------------------------------------
\* Every load starts in PollInv: nothing queued, held, given or decided.
LEMMA PollInit == Init => PollInv
<1> SUFFICES ASSUME Init PROVE PollInv
  OBVIOUS
<1> PICK load \in Loads :
      /\ pc = [p \in Polls |-> IF p \in DOMAIN load THEN "start" ELSE "done"]
      /\ leased = [p \in Polls |->
           (IF p \in DOMAIN load THEN load[p] ELSE [cred |-> 0, leased |-> FALSE, waits |-> FALSE]).leased]
  BY DEF Init
<1>1. leased \in [Polls -> BOOLEAN]
  BY LoadAssumption DEF Request
<1>2. TypeOK
  BY <1>1 DEF Init, TypeOK, Steps, Outcomes
<1>3. QED
  BY <1>2 DEF Init, PollInv, GotIsAnswered, MarksAreGiven, WakePending, TypeOK

\* No step leaves the types.
LEMMA TypeNext == TypeOK /\ [Next]_vars => TypeOK'
<1> SUFFICES ASSUME TypeOK, [Next]_vars PROVE TypeOK'
  OBVIOUS
<1> USE DEF TypeOK, Steps, Outcomes, Go, store, asked, server, auth
<1>1. CASE UNCHANGED vars
  BY <1>1 DEF vars
<1>2. ASSUME NEW p \in Polls, Handler(p) PROVE TypeOK'
  <2>1. CASE Admit(p)
    BY <2>1 DEF Admit
  <2>2. CASE BadLease(p)
    BY <2>2 DEF BadLease
  <2>3. CASE Collect(p)
    BY <2>3 DEF Collect, Obtain
  <2>4. CASE Watch(p)
    BY <2>4 DEF Watch
  <2>5. CASE Register(p)
    BY <2>5 DEF Register
  <2>6. CASE Hold(p)
    BY <2>6 DEF Hold
  <2>7. CASE Select(p)
    BY <2>7 DEF Select
  <2>8. CASE Leave(p)
    BY <2>8 DEF Leave
  <2>9. CASE Again(p)
    BY <2>9 DEF Again, Obtain
  <2>10. CASE Answer(p)
    BY <2>10 DEF Answer
  <2>11. QED
    BY <1>2, <2>1, <2>2, <2>3, <2>4, <2>5, <2>6, <2>7, <2>8, <2>9, <2>10 DEF Handler
<1>3. ASSUME NEW p \in Polls, PollTimeout(p) \/ HangUp(p) \/ RunOut(p) PROVE TypeOK'
  BY <1>3 DEF PollTimeout, HangUp, RunOut
<1>4. ASSUME NEW p \in Polls, Ack(p) \/ Lapse(p) PROVE TypeOK'
  BY <1>4 DEF Ack, Lapse
<1>5. ASSUME NEW p \in Polls, Dog(p) \/ RevokeTell(p) PROVE TypeOK'
  BY <1>5 DEF Dog, DogExpire, DogRelease, DogClose, RevokeTell, Tell
<1>6. ASSUME NEW w \in Puts, PutRefuse(w) \/ PutQueue(w) \/ Wake(w) PROVE TypeOK'
  BY <1>6 DEF PutRefuse, PutQueue, Wake
<1>7. ASSUME NEW e \in 1 .. MaxEpoch, Revoke(e) PROVE TypeOK'
  BY <1>7 DEF Revoke
<1>8. QED
  BY <1>1, <1>2, <1>3, <1>4, <1>5, <1>6, <1>7 DEF Next

\* Only Collect and Again give messages, and both lead straight to the answer.
LEMMA GotNext ==
  ASSUME TypeOK, TypeOK', GotIsAnswered, [Next]_vars
  PROVE  GotIsAnswered'
<1> USE DEF TypeOK, Steps, Outcomes, Go, store, asked, server, auth, GotIsAnswered
<1>1. CASE UNCHANGED vars
  BY <1>1 DEF vars
<1>2. ASSUME NEW p \in Polls, Handler(p) PROVE GotIsAnswered'
  <2>1. CASE Admit(p)
    BY <2>1 DEF Admit
  <2>2. CASE BadLease(p)
    BY <2>2 DEF BadLease
  <2>3. CASE Collect(p)
    BY <2>3 DEF Collect, Obtain
  <2>4. CASE Watch(p)
    BY <2>4 DEF Watch
  <2>5. CASE Register(p)
    BY <2>5 DEF Register
  <2>6. CASE Hold(p)
    BY <2>6 DEF Hold
  <2>7. CASE Select(p)
    BY <2>7 DEF Select
  <2>8. CASE Leave(p)
    BY <2>8 DEF Leave
  <2>9. CASE Again(p)
    BY <2>9 DEF Again, Obtain
  <2>10. CASE Answer(p)
    BY <2>10 DEF Answer
  <2>11. QED
    BY <1>2, <2>1, <2>2, <2>3, <2>4, <2>5, <2>6, <2>7, <2>8, <2>9, <2>10 DEF Handler
<1>3. ASSUME NEW p \in Polls, PollTimeout(p) \/ HangUp(p) \/ RunOut(p) PROVE GotIsAnswered'
  BY <1>3 DEF PollTimeout, HangUp, RunOut
<1>4. ASSUME NEW p \in Polls, Ack(p) \/ Lapse(p) PROVE GotIsAnswered'
  BY <1>4 DEF Ack, Lapse
<1>5. ASSUME NEW p \in Polls, Dog(p) \/ RevokeTell(p) PROVE GotIsAnswered'
  BY <1>5 DEF Dog, DogExpire, DogRelease, DogClose, RevokeTell, Tell
<1>6. ASSUME NEW w \in Puts, PutRefuse(w) \/ PutQueue(w) \/ Wake(w) PROVE GotIsAnswered'
  BY <1>6 DEF PutRefuse, PutQueue, Wake
<1>7. ASSUME NEW e \in 1 .. MaxEpoch, Revoke(e) PROVE GotIsAnswered'
  BY <1>7 DEF Revoke
<1>8. QED
  BY <1>1, <1>2, <1>3, <1>4, <1>5, <1>6, <1>7 DEF Next

\* Only the two collections mark, and they mark what they give.
LEMMA MarksNext ==
  ASSUME TypeOK, TypeOK', GotIsAnswered, MarksAreGiven, [Next]_vars
  PROVE  MarksAreGiven'
<1> USE DEF TypeOK, Steps, Outcomes, Go, store, asked, server, auth, GotIsAnswered, MarksAreGiven
<1>1. CASE UNCHANGED vars
  BY <1>1 DEF vars
<1>2. ASSUME NEW p \in Polls, Handler(p) PROVE MarksAreGiven'
  <2>1. CASE Admit(p)
    BY <2>1 DEF Admit
  <2>2. CASE BadLease(p)
    BY <2>2 DEF BadLease
  <2>3. CASE Collect(p)
    BY <2>3 DEF Collect, Obtain
  <2>4. CASE Watch(p)
    BY <2>4 DEF Watch
  <2>5. CASE Register(p)
    BY <2>5 DEF Register
  <2>6. CASE Hold(p)
    BY <2>6 DEF Hold
  <2>7. CASE Select(p)
    BY <2>7 DEF Select
  <2>8. CASE Leave(p)
    BY <2>8 DEF Leave
  <2>9. CASE Again(p)
    BY <2>9 DEF Again, Obtain
  <2>10. CASE Answer(p)
    BY <2>10 DEF Answer
  <2>11. QED
    BY <1>2, <2>1, <2>2, <2>3, <2>4, <2>5, <2>6, <2>7, <2>8, <2>9, <2>10 DEF Handler
<1>3. ASSUME NEW p \in Polls, PollTimeout(p) \/ HangUp(p) \/ RunOut(p) PROVE MarksAreGiven'
  BY <1>3 DEF PollTimeout, HangUp, RunOut
<1>4. ASSUME NEW p \in Polls, Ack(p) \/ Lapse(p) PROVE MarksAreGiven'
  BY <1>4 DEF Ack, Lapse
<1>5. ASSUME NEW p \in Polls, Dog(p) \/ RevokeTell(p) PROVE MarksAreGiven'
  BY <1>5 DEF Dog, DogExpire, DogRelease, DogClose, RevokeTell, Tell
<1>6. ASSUME NEW w \in Puts, PutRefuse(w) \/ PutQueue(w) \/ Wake(w) PROVE MarksAreGiven'
  BY <1>6 DEF PutRefuse, PutQueue, Wake
<1>7. ASSUME NEW e \in 1 .. MaxEpoch, Revoke(e) PROVE MarksAreGiven'
  BY <1>7 DEF Revoke
<1>8. QED
  BY <1>1, <1>2, <1>3, <1>4, <1>5, <1>6, <1>7 DEF Next

\* Messages become available by a put, which is queued until it has woken, or by
\* the lapse of a lease.
LEMMA WakeNext ==
  ASSUME PollInv, TypeOK', [Next]_vars
  PROVE  WakePending'
<1> USE DEF TypeOK, Steps, Outcomes, Go, store, asked, server, auth, PollInv, GotIsAnswered, MarksAreGiven, WakePending, Known, WasLeased
<1>1. CASE UNCHANGED vars
  BY <1>1 DEF vars
<1>2. ASSUME NEW p \in Polls, Handler(p) PROVE WakePending'
  <2>1. CASE Admit(p)
    BY <2>1 DEF Admit
  <2>2. CASE BadLease(p)
    BY <2>2 DEF BadLease
  <2>3. CASE Collect(p)
    BY <2>3 DEF Collect, Obtain
  <2>4. CASE Watch(p)
    BY <2>4 DEF Watch
  <2>5. CASE Register(p)
    BY <2>5 DEF Register
  <2>6. CASE Hold(p)
    BY <2>6 DEF Hold
  <2>7. CASE Select(p)
    BY <2>7 DEF Select
  <2>8. CASE Leave(p)
    BY <2>8 DEF Leave
  <2>9. CASE Again(p)
    BY <2>9 DEF Again, Obtain
  <2>10. CASE Answer(p)
    BY <2>10 DEF Answer
  <2>11. QED
    BY <1>2, <2>1, <2>2, <2>3, <2>4, <2>5, <2>6, <2>7, <2>8, <2>9, <2>10 DEF Handler
<1>3. ASSUME NEW p \in Polls, PollTimeout(p) \/ HangUp(p) \/ RunOut(p) PROVE WakePending'
  BY <1>3 DEF PollTimeout, HangUp, RunOut
<1>4. ASSUME NEW p \in Polls, Ack(p) \/ Lapse(p) PROVE WakePending'
  <2>1. CASE Ack(p)
    BY <2>1 DEF Ack
  <2>2. CASE Lapse(p)
    <3> DEFINE back == {m \in Puts : <<m, p>> \in marked}
    <3>1. \A m \in back : leased[p] /\ m \in got[p]
      <4>1. TAKE m \in back
      <4>2. <<m, p>> \in marked /\ <<m, p>>[1] = m /\ <<m, p>>[2] = p
        OBVIOUS
      <4>3. QED
        BY <4>2
    <3>2. back \subseteq WasLeased
      BY <3>1
    <3>3. /\ avail' = avail \cup back
          /\ UNCHANGED <<pc, putpc, waiters, woken, early, got, leased>>
      BY <2>2 DEF Lapse
    <3>4. WasLeased' = WasLeased
      BY <3>3
    <3>5. QED
      BY <3>2, <3>3, <3>4
  <2>3. QED
    BY <1>4, <2>1, <2>2
<1>5. ASSUME NEW p \in Polls, Dog(p) \/ RevokeTell(p) PROVE WakePending'
  BY <1>5 DEF Dog, DogExpire, DogRelease, DogClose, RevokeTell, Tell
<1>6. ASSUME NEW w \in Puts, PutRefuse(w) \/ PutQueue(w) \/ Wake(w) PROVE WakePending'
  BY <1>6 DEF PutRefuse, PutQueue, Wake
<1>7. ASSUME NEW e \in 1 .. MaxEpoch, Revoke(e) PROVE WakePending'
  BY <1>7 DEF Revoke
<1>8. QED
  BY <1>1, <1>2, <1>3, <1>4, <1>5, <1>6, <1>7 DEF Next

\* The invariant is inductive.
LEMMA PollNext == PollInv /\ [Next]_vars => PollInv'
  BY TypeNext, GotNext, MarksNext, WakeNext DEF PollInv

\* The invariant that the two theorems below rest on.
LEMMA PollInvariant == Spec => []PollInv
  BY PollInit, PollNext, PTL DEF Spec

\* Whatever the load, a poll that is denied, refused, revoked or answered empty
\* has had nothing deleted or leased on its behalf (server.go, get and getLeased:
\* the handler that has messages only answers).
THEOREM TakenIsAnswered == Spec => []NothingTakenSilently
<1>1. PollInv => NothingTakenSilently
  BY DEF PollInv, TypeOK, GotIsAnswered, NothingTakenSilently
<1>2. QED
  BY <1>1, PollInvariant, PTL

\* Whatever the load, a parked poll misses no put: what is queued and it was not
\* woken for was there before it registered, came back from a lease, or has its
\* wake still to come (server.go, put and hold: queue, then wake; register, then select).
THEOREM NoWakeIsMissed == Spec => []WakeReachesAll
<1>1. PollInv => WakeReachesAll
  BY DEF PollInv, WakePending, Known, WakeReachesAll
<1>2. QED
  BY <1>1, PollInvariant, PTL

-----------------------------------------------------------------------------
(* The revocation watch.                                                   *)

\* Before the poll registers with Watch, and while it can still be parked.
Before == {"start", "collect", "watch", "register"}
Holding == {"hold", "select", "parked"}

\* A poll is on the server's list while it is held and until hold has returned;
\* the goroutine of Watch exists once the poll has registered, and whatever has
\* stopped it is in a channel of the poll, or the poll is past its select.
Watched(p) ==
  /\ p \in waiters => pc[p] \in {"select", "parked", "leave", "again", "revoked"}
  /\ pc[p] \in {"select", "parked", "leave"} => p \in waiters
  /\ pc[p] = "parked" => p \notin revch \cup ctxdone
  /\ p \in watchers => dog[p] # "off"
  /\ dog[p] # "off" => pc[p] \notin Before
  /\ dog[p] # "off" /\ pc[p] = "done" => p \in ctxdone
  /\ dog[p] = "armed" /\ pc[p] \in Holding => p \in watchers \cup ending \cup revch
  /\ dog[p] = "closing" /\ pc[p] \in Holding => p \in revch \cup ctxdone

WatchInv ==
  /\ pc \in [Polls -> Steps]
  /\ dog \in [Polls -> {"off", "armed", "closing"}]
  /\ waiters \subseteq Polls
  /\ \A p \in Polls : Watched(p)

LEMMA WatchInit == Init => WatchInv
BY DEF Init, WatchInv, Watched, Steps, Before, Holding

LEMMA WatchNext == WatchInv /\ [Next]_vars => WatchInv'
<1> SUFFICES ASSUME WatchInv, [Next]_vars PROVE WatchInv'
  OBVIOUS
<1> USE DEF WatchInv, Watched, Steps, Before, Holding, Go, store, asked, server, auth
<1>1. CASE UNCHANGED vars
  BY <1>1 DEF vars
<1>2. ASSUME NEW p \in Polls, Handler(p) PROVE WatchInv'
  <2>1. CASE Admit(p)
    BY <2>1 DEF Admit
  <2>2. CASE BadLease(p)
    BY <2>2 DEF BadLease
  <2>3. CASE Collect(p)
    BY <2>3 DEF Collect
  <2>4. CASE Watch(p)
    BY <2>4 DEF Watch
  <2>5. CASE Register(p)
    BY <2>5 DEF Register
  <2>6. CASE Hold(p)
    BY <2>6 DEF Hold
  <2>7. CASE Select(p)
    BY <2>7 DEF Select
  <2>8. CASE Leave(p)
    BY <2>8 DEF Leave
  <2>9. CASE Again(p)
    BY <2>9 DEF Again
  <2>10. CASE Answer(p)
    BY <2>10 DEF Answer
  <2>11. QED
    BY <1>2, <2>1, <2>2, <2>3, <2>4, <2>5, <2>6, <2>7, <2>8, <2>9, <2>10 DEF Handler
<1>3. ASSUME NEW p \in Polls, PollTimeout(p) \/ HangUp(p) \/ RunOut(p) PROVE WatchInv'
  BY <1>3 DEF PollTimeout, HangUp, RunOut
<1>4. ASSUME NEW p \in Polls, Ack(p) \/ Lapse(p) PROVE WatchInv'
  BY <1>4 DEF Ack, Lapse
<1>5. ASSUME NEW p \in Polls, Dog(p) \/ RevokeTell(p) PROVE WatchInv'
  <2>1. CASE DogExpire(p)
    BY <2>1 DEF DogExpire, Tell
  <2>2. CASE DogRelease(p)
    BY <2>2 DEF DogRelease
  <2>3. CASE DogClose(p)
    BY <2>3 DEF DogClose
  <2>4. CASE RevokeTell(p)
    BY <2>4 DEF RevokeTell, Tell
  <2>5. QED
    BY <1>5, <2>1, <2>2, <2>3, <2>4 DEF Dog
<1>6. ASSUME NEW w \in Puts, PutRefuse(w) \/ PutQueue(w) \/ Wake(w) PROVE WatchInv'
  BY <1>6 DEF PutRefuse, PutQueue, Wake
<1>7. ASSUME NEW e \in 1 .. MaxEpoch, Revoke(e) PROVE WatchInv'
  BY <1>7 DEF Revoke
<1>8. QED
  BY <1>1, <1>2, <1>3, <1>4, <1>5, <1>6, <1>7 DEF Next

LEMMA WatchInvariant == Spec => []WatchInv
  BY WatchInit, WatchNext, PTL DEF Spec

\* No notice is lost on the way to a parked poll: its channels are empty, and if
\* it registered with Watch then its goroutine still waits for the expiry, and
\* either Revoke will find it on the list or has taken it off and will tell it.
NoticeNotLost ==
  \A p \in Polls : pc[p] = "parked" =>
    /\ p \notin revch \cup ctxdone
    /\ dog[p] # "off" => dog[p] = "armed" /\ p \in watchers \cup ending

\* Whatever ends between the registration of a poll and its select, a lease that
\* runs out, a Revoke that has the list already, a client that hangs up, is seen
\* by the select (authlease.go, Watch and Revoke; server.go, hold): what
\* WithdrawnPollEnds starts from is never missed.
THEOREM WatchNeverLosesItsPoll == Spec => []NoticeNotLost
<1>1. WatchInv => NoticeNotLost
  BY DEF WatchInv, Watched, Holding, NoticeNotLost
<1>2. QED
  BY <1>1, WatchInvariant, PTL

\* An answered poll is off the server's list, and if its goroutine is not gone
\* then it has been told to go.
Leaving(p) ==
  /\ p \notin waiters
  /\ p \in watchers => dog[p] # "off"
  /\ dog[p] # "off" => p \in ctxdone

\* Nothing is left of it.
Clean(p) == pc[p] = "done" /\ p \notin waiters \cup watchers /\ dog[p] = "off"

AnsweredAreLeaving == \A p \in Polls : pc[p] = "done" => Leaving(p)
CleanStaysClean == [][\A p \in Polls : Clean(p) => Clean(p)']_vars

\* What NothingAccumulates says of safety (authlease.go, Watch; server.go, hold):
\* whichever way a request ended, the wake channel is off the list and nothing
\* but its own two steps keeps the goroutine and the revoke channel; once they
\* are gone they do not come back, whatever Revoke or a put still do.
THEOREM AnsweredPollsLeaveForGood == Spec => []AnsweredAreLeaving /\ CleanStaysClean
<1>1. WatchInv => AnsweredAreLeaving
  BY DEF WatchInv, Watched, AnsweredAreLeaving, Leaving
<1>2. ASSUME WatchInv, [Next]_vars, NEW p \in Polls, Clean(p) PROVE Clean(p)'
  <2> USE DEF WatchInv, Clean, Go
  <2>1. CASE UNCHANGED vars
    BY <1>2, <2>1 DEF vars, server, auth
  <2>2. ASSUME NEW x \in Polls, Handler(x) PROVE Clean(p)'
    BY <1>2, <2>2 DEF Handler, Admit, BadLease, Collect, Watch, Register, Hold, Select, Leave,
                      Again, Answer, server, auth
  <2>3. ASSUME NEW x \in Polls, PollTimeout(x) \/ HangUp(x) \/ RunOut(x) \/ Ack(x) \/ Lapse(x)
        PROVE  Clean(p)'
    BY <1>2, <2>3 DEF PollTimeout, HangUp, RunOut, Ack, Lapse, server, auth
  <2>4. ASSUME NEW x \in Polls, Dog(x) \/ RevokeTell(x) PROVE Clean(p)'
    BY <1>2, <2>4 DEF Dog, DogExpire, DogRelease, DogClose, RevokeTell, Tell, server
  <2>5. ASSUME NEW w \in Puts, PutRefuse(w) \/ PutQueue(w) \/ Wake(w) PROVE Clean(p)'
    BY <1>2, <2>5 DEF PutRefuse, PutQueue, Wake, server, auth
  <2>6. ASSUME NEW e \in 1 .. MaxEpoch, Revoke(e) PROVE Clean(p)'
    BY <1>2, <2>6 DEF Revoke, server
  <2>7. QED
    BY <1>2, <2>1, <2>2, <2>3, <2>4, <2>5, <2>6 DEF Next
<1>3. WatchInv /\ [Next]_vars => [\A p \in Polls : Clean(p) => Clean(p)']_vars
  BY <1>2
<1>4. QED
  BY <1>1, <1>3, WatchInvariant, PTL DEF Spec, CleanStaysClean
=============================================================================
