---------------------------- MODULE StoreProofs ----------------------------
(***************************************************************************)
(* Proofs about Store, for every value of its constants.                   *)
(***************************************************************************)
EXTENDS Store, FiniteSetTheorems, TLAPS

(* First facts: what a step takes out of the queue was in it.              *)

LEMMA QueueSubset == \A r : Queue(r) \subseteq q /\ Expired(r) \subseteq q /\ Available(r) \subseteq q
BY DEF Queue, Expired, Available

LEMMA FirstSubset == \A S, limit : First(S, limit) \subseteq S
BY DEF First

LEMMA ExitsType ==
  ASSUME TypeOK, NEW S \in SUBSET Message,
         NEW how \in {"taken", "acked", "expired"}, NEW by \in Nat \X Nat
  PROVE  Exits(S, how, by) \subseteq Exit
BY DEF TypeOK, Exits, Exit

LEMMA NoOneType == NoOne \in Nat \X Nat
BY DEF NoOne

LEMMA StampedType ==
  ASSUME TypeOK, NEW id \in Nat
  PROVE  Stamped(id) \in Message
BY DEF TypeOK, Stamped, Message

LEMMA HighestType ==
  ASSUME NEW S \in SUBSET Nat, NEW n \in HighestOf(S)
  PROVE  n \in Nat
BY DEF HighestOf

-----------------------------------------------------------------------------
(* The type invariant.                                                     *)

\* Every action that only expires, or takes messages out of the queue, keeps
\* the types: the common part of PutFull, PutAdmit, Take, TakeLeased, Ack and
\* Expire.
LEMMA LeaveType ==
  ASSUME TypeOK, NEW S \in SUBSET q, Leave(S)
  PROVE  q' \subseteq Message /\ doomed' \subseteq Message
BY DEF TypeOK, Leave

LEMMA TypeInit == Init => TypeOK
BY DEF Init, TypeOK, Message

LEMMA TypePut ==
  ASSUME TypeOK, NEW r \in Routes
  PROVE  /\ PutFull(r) => TypeOK'
         /\ PutAdmit(r) => TypeOK'
<1>1. Exits(Expired(r), "expired", NoOne) \subseteq Exit
  BY QueueSubset, ExitsType, NoOneType DEF TypeOK
<1>2. ASSUME PutFull(r) PROVE TypeOK'
  BY <1>1, <1>2, QueueSubset, LeaveType DEF PutFull, TypeOK, media
<1>3. ASSUME PutAdmit(r) PROVE TypeOK'
  <2>1. cur' \in Message
    BY <1>3 DEF PutAdmit, TypeOK, Message
  <2>2. QED
    BY <1>1, <1>3, <2>1, QueueSubset, LeaveType DEF PutAdmit, TypeOK, media
<1>4. QED
  BY <1>2, <1>3

LEMMA TypePutSteps ==
  ASSUME TypeOK
  PROVE  /\ PutMemory => TypeOK'
         /\ PutStamp => TypeOK'
         /\ PutFail => TypeOK'
         /\ PutRename => TypeOK'
         /\ PutSync => TypeOK'
         /\ PutSyncFail => TypeOK'
<1>1. Stamped(ids + 1) \in Message
  BY StampedType DEF TypeOK
<1>2. ASSUME PutMemory PROVE TypeOK'
  BY <1>1, <1>2 DEF PutMemory, TypeOK, media
<1>3. ASSUME PutStamp PROVE TypeOK'
  BY <1>1, <1>3 DEF PutStamp, TypeOK
<1>4. ASSUME PutFail PROVE TypeOK'
  BY <1>4 DEF PutFail, TypeOK, memory
<1>5. ASSUME PutRename PROVE TypeOK'
  BY <1>5 DEF PutRename, TypeOK, Over, past
<1>6. ASSUME PutSync PROVE TypeOK'
  BY <1>6 DEF PutSync, TypeOK
<1>7. ASSUME PutSyncFail PROVE TypeOK'
  BY <1>7 DEF PutSyncFail, TypeOK, memory
<1>8. QED
  BY <1>2, <1>3, <1>4, <1>5, <1>6, <1>7

LEMMA TypeCollect ==
  ASSUME TypeOK, NEW r \in Routes, NEW limit \in Limits
  PROVE  /\ Take(r, limit) => TypeOK'
         /\ \A d \in 1 .. MaxLease : TakeLeased(r, limit, d) => TypeOK'
<1>0. Exits(Expired(r), "expired", NoOne) \subseteq Exit
  BY QueueSubset, ExitsType, NoOneType DEF TypeOK
<1> DEFINE got == First(Available(r), limit)
<1>1. got \subseteq q
  BY QueueSubset, FirstSubset
<1>2. ASSUME Take(r, limit) PROVE TypeOK'
  <2>1. Exits(got, "taken", NoOne) \subseteq Exit
    BY <1>1, ExitsType, NoOneType DEF TypeOK
  <2>2. Leave(Expired(r) \cup got)
    BY <1>2 DEF Take
  <2>3. q' \subseteq Message /\ doomed' \subseteq Message
    BY <1>1, <2>2, QueueSubset, LeaveType
  <2>4. QED
    BY <1>0, <1>2, <2>1, <2>3 DEF Take, TypeOK, media
<1>3. ASSUME NEW d \in 1 .. MaxLease, TakeLeased(r, limit, d) PROVE TypeOK'
  <2>1. nextLease \in Nat \X Nat /\ now + d \in Nat
    BY TimeAssumption DEF nextLease, TypeOK
  <2>2. {[m |-> m, lease |-> nextLease, until |-> now + d] : m \in got} \subseteq Mark
    BY <1>1, <2>1 DEF Mark, TypeOK
  <2>3. \A S \in {got} \ {{}} :
          [run |-> epoch, k |-> leases + 1, lease |-> nextLease, route |-> r,
           at |-> now, until |-> now + d, msgs |-> S] \in Grant
    BY <1>1, <2>1 DEF Grant, TypeOK
  <2>4. q' \subseteq Message /\ doomed' \subseteq Message
    BY <1>3, QueueSubset, LeaveType DEF TakeLeased
  <2>5. marks' \subseteq Mark
    BY <1>3, <2>2 DEF TakeLeased, TypeOK
  <2>6. grants' \subseteq Grant
    BY <1>3, <2>3 DEF TakeLeased, TypeOK
  <2>7. QED
    BY <1>0, <1>3, <2>4, <2>5, <2>6 DEF TakeLeased, TypeOK, media
<1>4. QED
  BY <1>2, <1>3

LEMMA TypeAck ==
  ASSUME TypeOK, NEW r \in Routes, NEW g \in grants, Ack(r, g)
  PROVE  TypeOK'
<1> DEFINE kept == marks \ Lapsed(r)
           acked == {m \in Queue(r) \ Expired(r) :
                       \E k \in kept : k.m = m /\ k.lease = g.lease}
<1>1. acked \subseteq q
  BY QueueSubset
<1>2. <<g.run, g.k>> \in Nat \X Nat
  BY DEF TypeOK, Grant
<1>3. Exits(acked, "acked", <<g.run, g.k>>) \subseteq Exit
  BY <1>1, <1>2, ExitsType DEF TypeOK
<1>4. Exits(Expired(r), "expired", NoOne) \subseteq Exit
  BY QueueSubset, ExitsType, NoOneType DEF TypeOK
<1>5. Leave(Expired(r) \cup acked)
  BY DEF Ack
<1>6. q' \subseteq Message /\ doomed' \subseteq Message
  BY <1>1, <1>5, QueueSubset, LeaveType
<1>7. QED
  BY <1>3, <1>4, <1>6 DEF Ack, TypeOK, media

LEMMA TypeExpire ==
  ASSUME TypeOK, NEW R \in SUBSET Routes, Expire(R)
  PROVE  TypeOK'
<1> DEFINE out == UNION {Expired(r) : r \in R}
<1>1. out \subseteq q
  BY QueueSubset
<1>2. Exits(out, "expired", NoOne) \subseteq Exit
  BY <1>1, ExitsType, NoOneType DEF TypeOK
<1>3. Leave(out)
  BY DEF Expire
<1>4. q' \subseteq Message /\ doomed' \subseteq Message
  BY <1>1, <1>3, LeaveType
<1>5. QED
  BY <1>2, <1>4 DEF Expire, TypeOK, media

LEMMA TypeWorld ==
  ASSUME TypeOK
  PROVE  /\ \A m \in doomed : Unlink(m) => TypeOK'
         /\ Tick => TypeOK'
         /\ Crash => TypeOK'
         /\ PowerCut => TypeOK'
         /\ \A f \in disk : Corrupt(f) => TypeOK'
         /\ StepClockBack => TypeOK'
         /\ Start => TypeOK'
<1>1. ASSUME NEW m \in doomed, Unlink(m) PROVE TypeOK'
  BY <1>1 DEF Unlink, TypeOK, memory, past
<1>2. ASSUME Tick PROVE TypeOK'
  BY <1>2 DEF Tick, TypeOK, memory, call, media, past
<1>3. ASSUME Crash PROVE TypeOK'
  BY <1>3 DEF Crash, TypeOK, media, past
<1>4. ASSUME PowerCut PROVE TypeOK'
  <2>1. PICK D \in SUBSET loose : disk' = firm \cup D /\ firm' = firm \cup D
    BY <1>4 DEF PowerCut
  <2>2. disk' \subseteq Message /\ firm' \subseteq Message
    BY <2>1 DEF TypeOK
  <2>3. /\ cuts' = cuts + 1 /\ up' = FALSE
        /\ q' = {} /\ marks' = {} /\ doomed' = {} /\ busy' = "idle" /\ loose' = {}
        /\ UNCHANGED <<now, epoch, ids, leases, next, cur, tmp, aside, rotten, past>>
    BY <1>4 DEF PowerCut
  <2>4. up' \in BOOLEAN
    BY <2>3
  <2>5. cuts' \in Nat
    BY <2>3 DEF TypeOK
  <2>6. QED
    BY <2>2, <2>3, <2>4, <2>5 DEF TypeOK, past
<1>5. ASSUME NEW f \in disk, Corrupt(f) PROVE TypeOK'
  BY <1>5 DEF Corrupt, TypeOK, memory, call, past
<1>6. ASSUME StepClockBack PROVE TypeOK'
  BY <1>6, BoundAssumption DEF StepClockBack, TypeOK, memory, call, media, past
<1>7. ASSUME Start PROVE TypeOK'
  <2>1. CASE Durable /\ OpenSpool
    <3>1. ids' \in Nat
      <4>1. {f.id : f \in Loadable} \subseteq Nat
        BY DEF Loadable, TypeOK, Message
      <4>2. QED
        BY <2>1, <4>1, HighestType DEF OpenSpool, RecoveredIds
    <3>2. next' \in Nat
      <4>1. {f.num : f \in Loadable} \subseteq Nat
        BY DEF Loadable, TypeOK, Message
      <4>2. PICK n \in HighestOf({f.num : f \in Loadable}) : next' = n + 1
        BY <2>1 DEF OpenSpool, RecoveredNext
      <4>3. QED
        BY <4>1, <4>2, HighestType
    <3>3. /\ q' \subseteq Message /\ disk' \subseteq Message
          /\ firm' \subseteq Message /\ loose' \subseteq Message
          /\ aside' \subseteq Message /\ tmp' \subseteq Message
      BY <2>1 DEF OpenSpool, Loadable, Quarantined, TypeOK
    <3>4. QED
      BY <1>7, <3>1, <3>2, <3>3 DEF Start, TypeOK, call, past
  <2>2. CASE ~Durable /\ q' = {} /\ ids' = 0 /\ next' = 1
             /\ UNCHANGED <<disk, firm, loose, aside, tmp>>
    BY <1>7, <2>2 DEF Start, TypeOK, call, past
  <2>3. QED
    BY <1>7, <2>1, <2>2 DEF Start
<1>8. QED
  BY <1>1, <1>2, <1>3, <1>4, <1>5, <1>6, <1>7

LEMMA TypeNext == TypeOK /\ [Next]_vars => TypeOK'
<1> SUFFICES ASSUME TypeOK, [Next]_vars PROVE TypeOK'
  OBVIOUS
<1>1. CASE UNCHANGED vars
  BY <1>1 DEF vars, memory, call, media, past, TypeOK
<1>2. ASSUME NEW r \in Routes, Depth(r) PROVE TypeOK'
  <2>1. {r} \in SUBSET Routes /\ Expire({r})
    BY <1>2 DEF Depth
  <2>2. QED
    BY <2>1, TypeExpire
<1>3. CASE Sweep
  <2>1. Routes \in SUBSET Routes /\ Expire(Routes)
    BY <1>3 DEF Sweep
  <2>2. QED
    BY <2>1, TypeExpire
<1>4. ASSUME NEW r \in Routes, NEW g \in grants, Ack(r, g) PROVE TypeOK'
  BY <1>4, TypeAck
<1>5. ASSUME NEW r \in Routes, PutFull(r) \/ PutAdmit(r) PROVE TypeOK'
  BY <1>5, TypePut
<1>6. ASSUME NEW r \in Routes, NEW limit \in Limits,
             Take(r, limit) \/ \E d \in 1 .. MaxLease : TakeLeased(r, limit, d)
      PROVE  TypeOK'
  BY <1>6, TypeCollect
<1>7. CASE PutMemory \/ PutStamp \/ PutFail \/ PutRename \/ PutSync \/ PutSyncFail
  BY <1>7, TypePutSteps
<1>8. CASE \/ \E m \in doomed : Unlink(m)
           \/ Tick \/ Crash \/ PowerCut
           \/ \E f \in disk : Corrupt(f)
           \/ StepClockBack \/ Start
  BY <1>8, TypeWorld
<1>9. QED
  BY <1>1, <1>2, <1>3, <1>4, <1>5, <1>6, <1>7, <1>8 DEF Next

\* Type correctness of the store: whatever is put, collected, acknowledged,
\* lost and recovered, queue, directory and history hold messages.
THEOREM TypeCorrect == Spec => []TypeOK
BY TypeInit, TypeNext, PTL DEF Spec

-----------------------------------------------------------------------------
(* No accepted message is lost.                                            *)

LEMMA ExitsOf ==
  ASSUME NEW S, NEW how, NEW by
  PROVE  {x.m : x \in Exits(S, how, by)} = S
<1>1. ASSUME NEW m \in S
      PROVE  [m |-> m, how |-> how, at |-> now, run |-> epoch, by |-> by].m = m
  OBVIOUS
<1>2. QED
  BY <1>1 DEF Exits

LEMMA ExitsGone ==
  ASSUME NEW A, NEW B, NEW hA, NEW hB, NEW bA, NEW bB,
         gone' = gone \cup Exits(A, hA, bA) \cup Exits(B, hB, bB)
  PROVE  Gone' = Gone \cup A \cup B
<1>1. Gone' = Gone \cup {x.m : x \in Exits(A, hA, bA)} \cup {x.m : x \in Exits(B, hB, bB)}
  BY DEF Gone
<1>2. QED
  BY <1>1, ExitsOf

LEMMA ExitsGoneOne ==
  ASSUME NEW A, NEW hA, NEW bA, gone' = gone \cup Exits(A, hA, bA)
  PROVE  Gone' = Gone \cup A
<1>1. Gone' = Gone \cup {x.m : x \in Exits(A, hA, bA)}
  BY DEF Gone
<1>2. QED
  BY <1>1, ExitsOf

\* The common part of every operation that takes messages out of the queue and
\* records it.
LEMMA LeaveKeeps ==
  ASSUME SpoolInv, TypeOK', NEW S \in SUBSET q, Idle, Leave(S), Gone' = Gone \cup S,
         busy' \in {"idle", "stamp"},
         UNCHANGED <<up, epoch, next, disk, firm, accepted, rotten>>
  PROVE  SpoolInv'
<1> USE DEF SpoolInv
<1>1. q' = q \ S /\ doomed' \subseteq S
  BY DEF Leave
<1>2. Owed' = Owed \ S
  BY DEF Owed
<1>3. NoLoss'
  BY <1>1, <1>2 DEF NoLoss
<1>4. Stopped'
  BY DEF Stopped, Idle
<1>5. DoomedGone'
  BY <1>1 DEF DoomedGone
<1>6. Durable => NumbersAgree'
  BY <1>1 DEF NumbersAgree
<1>7. Durable => PutInFlight'
  BY DEF PutInFlight
<1>8. QED
  BY <1>3, <1>4, <1>5, <1>6, <1>7

LEMMA InvPut ==
  ASSUME SpoolInv, TypeOK', NEW r \in Routes, PutFull(r) \/ PutAdmit(r)
  PROVE  SpoolInv'
<1>1. Gone' = Gone \cup Expired(r)
  BY ExitsGoneOne DEF PutFull, PutAdmit
<1>2. /\ Idle /\ Leave(Expired(r)) /\ busy' \in {"idle", "stamp"}
      /\ UNCHANGED <<up, epoch, next, disk, firm, accepted, rotten>>
  BY DEF PutFull, PutAdmit, media, Idle
<1>3. QED
  BY <1>1, <1>2, QueueSubset, LeaveKeeps

LEMMA InvTake ==
  ASSUME SpoolInv, TypeOK', NEW r \in Routes, NEW limit \in Limits, Take(r, limit)
  PROVE  SpoolInv'
<1> DEFINE taken == First(Available(r), limit)
           out == Expired(r) \cup taken
<1>1. out \in SUBSET q
  BY QueueSubset, FirstSubset
<1>2. gone' = gone \cup Exits(Expired(r), "expired", NoOne) \cup Exits(taken, "taken", NoOne)
  BY DEF Take
<1>3. Gone' = Gone \cup out
  BY <1>2, ExitsGone
<1>4. /\ Idle /\ Leave(out) /\ busy' \in {"idle", "stamp"}
      /\ UNCHANGED <<up, epoch, next, disk, firm, accepted, rotten>>
  BY DEF Take, media, Idle
<1>5. QED
  BY <1>1, <1>3, <1>4, LeaveKeeps

LEMMA InvTakeLeased ==
  ASSUME SpoolInv, TypeOK', NEW r \in Routes, NEW limit \in Limits,
         NEW d \in 1 .. MaxLease, TakeLeased(r, limit, d)
  PROVE  SpoolInv'
<1>1. Gone' = Gone \cup Expired(r)
  BY ExitsGoneOne DEF TakeLeased
<1>2. /\ Idle /\ Leave(Expired(r)) /\ busy' \in {"idle", "stamp"}
      /\ UNCHANGED <<up, epoch, next, disk, firm, accepted, rotten>>
  BY DEF TakeLeased, media, Idle
<1>3. QED
  BY <1>1, <1>2, QueueSubset, LeaveKeeps

LEMMA InvAck ==
  ASSUME SpoolInv, TypeOK', NEW r \in Routes, NEW g \in grants, Ack(r, g)
  PROVE  SpoolInv'
<1> DEFINE kept == marks \ Lapsed(r)
           acked == {m \in Queue(r) \ Expired(r) :
                       \E k \in kept : k.m = m /\ k.lease = g.lease}
           out == Expired(r) \cup acked
<1>1. out \in SUBSET q
  BY QueueSubset
<1>2. gone' = gone \cup Exits(Expired(r), "expired", NoOne)
                   \cup Exits(acked, "acked", <<g.run, g.k>>)
  BY DEF Ack
<1> HIDE DEF acked
<1>3. Gone' = Gone \cup out
  BY <1>2, ExitsGone
<1> USE DEF acked
<1>4. /\ Idle /\ Leave(out) /\ busy' \in {"idle", "stamp"}
      /\ UNCHANGED <<up, epoch, next, disk, firm, accepted, rotten>>
  BY DEF Ack, media, Idle
<1>5. QED
  BY <1>1, <1>3, <1>4, LeaveKeeps

LEMMA InvExpire ==
  ASSUME SpoolInv, TypeOK', NEW R \in SUBSET Routes, Expire(R)
  PROVE  SpoolInv'
<1> DEFINE out == UNION {Expired(r) : r \in R}
<1>1. out \in SUBSET q
  BY QueueSubset
<1>2. gone' = gone \cup Exits(out, "expired", NoOne)
  BY DEF Expire
<1>3. Gone' = Gone \cup out
  BY <1>2, ExitsGoneOne
<1>4. /\ Idle /\ Leave(out) /\ busy' \in {"idle", "stamp"}
      /\ UNCHANGED <<up, epoch, next, disk, firm, accepted, rotten>>
  BY DEF Expire, media, Idle
<1>5. QED
  BY <1>1, <1>3, <1>4, LeaveKeeps

\* The steps of a Put that has been let in.
LEMMA InvPutSteps ==
  ASSUME SpoolInv, TypeOK'
  PROVE  /\ PutMemory => SpoolInv'
         /\ PutStamp => SpoolInv'
         /\ PutFail => SpoolInv'
         /\ PutRename => SpoolInv'
         /\ PutSync => SpoolInv'
         /\ PutSyncFail => SpoolInv'
<1> USE DEF SpoolInv
<1>1. ASSUME PutMemory PROVE SpoolInv'
  <2>1. Gone' = Gone /\ Owed' \subseteq Owed \cup {Stamped(ids + 1)}
    BY <1>1 DEF PutMemory, Gone, Owed, media
  <2>2. NoLoss'
    BY <1>1, <2>1 DEF PutMemory, NoLoss
  <2>3. QED
    BY <1>1, <2>1, <2>2 DEF PutMemory, Stopped, DoomedGone
<1>2. ASSUME PutStamp PROVE SpoolInv'
  <2>1. Gone' = Gone /\ Owed' = Owed
    BY <1>2 DEF PutStamp, Gone, Owed
  <2>2. NoLoss' /\ Stopped' /\ DoomedGone'
    BY <1>2, <2>1 DEF PutStamp, NoLoss, Stopped, DoomedGone
  <2>3. NumbersAgree'
    BY <1>2 DEF PutStamp, NumbersAgree
  <2>4. PutInFlight'
    BY <1>2 DEF PutStamp, PutInFlight, Stamped
  <2>5. QED
    BY <1>2, <2>2, <2>3, <2>4 DEF PutStamp
<1>3. ASSUME PutFail PROVE SpoolInv'
  <2>1. Gone' = Gone /\ Owed' = Owed
    BY <1>3 DEF PutFail, Gone, Owed
  <2>2. NoLoss' /\ Stopped' /\ DoomedGone'
    BY <1>3, <2>1 DEF PutFail, NoLoss, Stopped, DoomedGone, memory
  <2>3. Durable => NumbersAgree' /\ PutInFlight'
    BY <1>3 DEF PutFail, NumbersAgree, PutInFlight, memory
  <2>4. QED
    BY <1>3, <2>2, <2>3 DEF PutFail
<1>4. ASSUME PutRename PROVE SpoolInv'
  <2>1. Gone' = Gone /\ Owed' = Owed
    BY <1>4 DEF PutRename, Gone, Owed, past
  <2>2. CASE Durable
    <3>1. doomed = {} /\ cur.num = next
      BY <1>4, <2>2 DEF PutRename, PutInFlight
    <3>2. Owed \subseteq firm'
      BY <1>4, <2>2, <3>1 DEF PutRename, NoLoss, NumbersAgree, TypeOK, Message
    <3>3. NoLoss' /\ Stopped' /\ DoomedGone'
      BY <1>4, <2>1, <2>2, <3>2 DEF PutRename, NoLoss, Stopped, DoomedGone
    <3>4. NumbersAgree'
      BY <1>4, <2>2, <3>1 DEF PutRename, NumbersAgree, Over, TypeOK, Message
    <3>5. PutInFlight'
      BY <1>4, <2>2, <3>1 DEF PutRename, PutInFlight, Over, TypeOK, Message
    <3>6. QED
      BY <1>4, <3>3, <3>4, <3>5 DEF PutRename
  <2>3. CASE ~Durable
    <3>1. NoLoss' /\ Stopped' /\ DoomedGone'
      BY <1>4, <2>1, <2>3 DEF PutRename, NoLoss, Stopped, DoomedGone
    <3>2. QED
      BY <1>4, <2>3, <3>1 DEF PutRename
  <2>4. QED
    BY <2>2, <2>3
<1>5. ASSUME PutSync PROVE SpoolInv'
  <2>1. Gone' = Gone /\ Owed' \subseteq Owed \cup {cur}
    BY <1>5 DEF PutSync, Gone, Owed
  <2>2. Durable => NumbersAgree' /\ PutInFlight'
    BY <1>5 DEF PutSync, NumbersAgree, PutInFlight
  <2>3. NoLoss'
    BY <1>5, <2>1 DEF PutSync, NoLoss, PutInFlight
  <2>4. QED
    BY <1>5, <2>1, <2>2, <2>3 DEF PutSync, Stopped, DoomedGone
<1>6. ASSUME PutSyncFail PROVE SpoolInv'
  <2>1. Gone' = Gone /\ Owed' = Owed
    BY <1>6 DEF PutSyncFail, Gone, Owed
  <2>2. NoLoss' /\ Stopped' /\ DoomedGone'
    BY <1>6, <2>1 DEF PutSyncFail, NoLoss, Stopped, DoomedGone, memory
  <2>3. Durable => NumbersAgree' /\ PutInFlight'
    BY <1>6 DEF PutSyncFail, NumbersAgree, PutInFlight, memory
  <2>4. QED
    BY <1>6, <2>2, <2>3 DEF PutSyncFail
<1>7. QED
  BY <1>1, <1>2, <1>3, <1>4, <1>5, <1>6

\* Unlinking goes by number, and the number is the unlinked message's own.
LEMMA InvUnlink ==
  ASSUME SpoolInv, TypeOK', NEW m \in doomed, Unlink(m)
  PROVE  SpoolInv'
<1> USE DEF SpoolInv
<1>1. Gone' = Gone /\ Owed' = Owed
  BY DEF Unlink, Gone, Owed, past
<1>2. Durable => Owed \subseteq firm'
  BY DEF Unlink, NoLoss, DoomedGone, NumbersAgree, PutInFlight, Owed
<1>3. NoLoss' /\ Stopped' /\ DoomedGone'
  BY <1>1, <1>2 DEF Unlink, NoLoss, Stopped, DoomedGone, memory
<1>4. Durable => NumbersAgree'
  BY DEF Unlink, NumbersAgree, memory
<1>5. Durable => PutInFlight'
  BY DEF Unlink, PutInFlight, memory
<1>6. QED
  BY <1>3, <1>4, <1>5 DEF Unlink

LEMMA InvWorld ==
  ASSUME SpoolInv, TypeOK'
  PROVE  /\ Tick \/ StepClockBack => SpoolInv'
         /\ Crash => SpoolInv'
         /\ PowerCut => SpoolInv'
         /\ \A f \in disk : Corrupt(f) => SpoolInv'
<1> USE DEF SpoolInv
<1>1. ASSUME Tick \/ StepClockBack PROVE SpoolInv'
  <2>1. UNCHANGED <<up, epoch, memory, call, media, past>>
    BY <1>1 DEF Tick, StepClockBack
  <2>2. Gone' = Gone /\ Owed' = Owed
    BY <2>1 DEF Gone, Owed, media, past
  <2>3. QED
    BY <2>1, <2>2 DEF NoLoss, Stopped, DoomedGone, NumbersAgree, PutInFlight,
                      memory, call, media, past
<1>2. ASSUME Crash PROVE SpoolInv'
  <2>1. Gone' = Gone /\ Owed' = Owed
    BY <1>2 DEF Crash, Gone, Owed, media, past
  <2>2. QED
    BY <1>2, <2>1 DEF Crash, NoLoss, Stopped, DoomedGone, NumbersAgree, PutInFlight, media
<1>3. ASSUME PowerCut PROVE SpoolInv'
  <2>1. PICK D \in SUBSET loose :
          /\ \A x, y \in firm \cup D : x.num = y.num => x = y
          /\ disk' = firm \cup D /\ firm' = firm \cup D
    BY <1>3 DEF PowerCut
  <2>2. /\ ~up' /\ q' = {} /\ busy' = "idle" /\ doomed' = {}
        /\ UNCHANGED <<epoch, next, rotten, past>>
    BY <1>3 DEF PowerCut
  <2>3. Gone' = Gone /\ Owed' = Owed
    BY <2>2 DEF Gone, Owed, past
  <2>4. NoLoss' /\ Stopped' /\ DoomedGone'
    BY <2>1, <2>2, <2>3 DEF NoLoss, Stopped, DoomedGone
  <2>5. NumbersAgree' /\ PutInFlight'
    BY <2>1, <2>2 DEF NumbersAgree, PutInFlight
  <2>6. QED
    BY <2>2, <2>4, <2>5
<1>4. ASSUME NEW f \in disk, Corrupt(f) PROVE SpoolInv'
  <2>1. Gone' = Gone /\ Owed' \subseteq Owed
    BY <1>4 DEF Corrupt, Gone, Owed, past
  <2>2. QED
    BY <1>4, <2>1 DEF Corrupt, NoLoss, Stopped, DoomedGone, NumbersAgree, PutInFlight,
                      memory, call
<1>5. QED
  BY <1>1, <1>2, <1>3, <1>4

\* The loader queues every file it can read, and an owed message's file is one.
LEMMA InvStart ==
  ASSUME SpoolInv, TypeOK', Start
  PROVE  SpoolInv'
<1> USE DEF SpoolInv
<1>1. /\ ~up /\ up' /\ epoch' = epoch + 1
      /\ busy = "idle" /\ busy' = "idle" /\ doomed = {} /\ doomed' = {}
      /\ UNCHANGED <<rotten, past>>
  BY DEF Start, Stopped, call
<1>2. Gone' = Gone /\ Owed' = Owed
  BY <1>1 DEF Gone, Owed, past
<1>3. epoch' >= 1 /\ epoch' # 1
  BY <1>1 DEF TypeOK
<1>4. Stopped' /\ DoomedGone'
  BY <1>1 DEF Stopped, DoomedGone
<1>5. CASE ~Durable
  BY <1>1, <1>2, <1>3, <1>4, <1>5 DEF NoLoss
<1>6. CASE Durable
  <2>1. PICK stuck \in SUBSET (disk \ Loadable) :
          /\ q' = Loadable
          /\ next' \in RecoveredNext(Loadable)
          /\ disk' = Loadable \cup stuck
          /\ firm' = firm \ ((disk \ Loadable) \ stuck)
    BY <1>6, SwitchAssumption DEF Start, OpenSpool
  <2>2. Owed \subseteq Loadable /\ Owed \subseteq firm'
    BY <1>6, <2>1 DEF NoLoss, PutInFlight, Loadable, Owed
  <2>3. NoLoss'
    BY <1>2, <2>1, <2>2 DEF NoLoss
  <2>4. \A f \in Loadable : f.num < next'
    <3>1. PICK n \in HighestOf({f.num : f \in Loadable}) : next' = n + 1
      BY <2>1 DEF RecoveredNext
    <3>2. {f.num : f \in Loadable} \subseteq Nat
      BY DEF Loadable, TypeOK, Message
    <3>3. \A f \in Loadable : f.num \in Nat /\ f.num <= n
      BY <3>2 DEF HighestOf
    <3>4. n \in Nat
      BY <3>2, HighestType
    <3>5. QED
      BY <3>1, <3>3, <3>4
  <2>5. NumbersAgree'
    BY <1>1, <1>6, <2>1, <2>4 DEF NumbersAgree, Loadable
  <2>6. PutInFlight'
    BY <1>1, <1>6, <2>1 DEF PutInFlight, Loadable
  <2>7. QED
    BY <1>3, <1>4, <2>3, <2>5, <2>6
<1>7. QED
  BY <1>5, <1>6

LEMMA InvInit == Init => SpoolInv
<1> SUFFICES ASSUME Init PROVE SpoolInv
  OBVIOUS
<1>1. TypeOK
  BY TypeInit
<1>2. Gone = {} /\ Owed = {}
  BY DEF Init, Gone, Owed
<1>3. QED
  BY <1>1, <1>2 DEF Init, SpoolInv, Stopped, NumbersAgree, PutInFlight, DoomedGone, NoLoss

LEMMA InvNext == SpoolInv /\ [Next]_vars => SpoolInv'
<1> SUFFICES ASSUME SpoolInv, [Next]_vars PROVE SpoolInv'
  OBVIOUS
<1>0. TypeOK'
  BY TypeNext DEF SpoolInv
<1>1. CASE UNCHANGED vars
  <2>1. Gone' = Gone /\ Owed' = Owed
    BY <1>1 DEF vars, media, past, Gone, Owed
  <2>2. QED
    BY <1>0, <1>1, <2>1 DEF vars, memory, call, media, past, SpoolInv, Stopped,
                            NumbersAgree, PutInFlight, DoomedGone, NoLoss
<1>2. ASSUME NEW r \in Routes, Depth(r) PROVE SpoolInv'
  <2>1. {r} \in SUBSET Routes /\ Expire({r})
    BY <1>2 DEF Depth
  <2>2. QED
    BY <1>0, <2>1, InvExpire
<1>3. CASE Sweep
  <2>1. Routes \in SUBSET Routes /\ Expire(Routes)
    BY <1>3 DEF Sweep
  <2>2. QED
    BY <1>0, <2>1, InvExpire
<1>4. ASSUME NEW r \in Routes, NEW g \in grants, Ack(r, g) PROVE SpoolInv'
  BY <1>0, <1>4, InvAck
<1>5. ASSUME NEW r \in Routes, PutFull(r) \/ PutAdmit(r) PROVE SpoolInv'
  BY <1>0, <1>5, InvPut
<1>6. ASSUME NEW r \in Routes, NEW limit \in Limits,
             Take(r, limit) \/ \E d \in 1 .. MaxLease : TakeLeased(r, limit, d)
      PROVE  SpoolInv'
  BY <1>0, <1>6, InvTake, InvTakeLeased
<1>7. CASE PutMemory \/ PutStamp \/ PutFail \/ PutRename \/ PutSync \/ PutSyncFail
  BY <1>0, <1>7, InvPutSteps
<1>8. CASE \E m \in doomed : Unlink(m)
  BY <1>0, <1>8, InvUnlink
<1>9. CASE \/ Tick \/ Crash \/ PowerCut
           \/ \E f \in disk : Corrupt(f)
           \/ StepClockBack
  BY <1>0, <1>9, InvWorld
<1>10. CASE Start
  BY <1>0, <1>10, InvStart
<1>11. QED
  BY <1>1, <1>2, <1>3, <1>4, <1>5, <1>6, <1>7, <1>8, <1>9, <1>10 DEF Next

\* With a spool, an accepted message that has not been collected, acknowledged,
\* expired or damaged is on disk for good and, while the relay runs, queued:
\* for any routes, limits and clock, any number of crashes and power cuts at
\* any point of any operation, and whether or not removals fail.
THEOREM NothingLost == Spec => []NoLoss
<1>1. SpoolInv => NoLoss
  BY DEF SpoolInv
<1>2. QED
  BY <1>1, InvInit, InvNext, PTL DEF Spec

-----------------------------------------------------------------------------
(* The steps of the store, by what they do to queue and history.           *)

\* Messages leave the queue: every operation that starts with the mutex free.
\* The last conjunct but one tells the Put that found room from the others.
Leaves(S) ==
  /\ Idle /\ Leave(S) /\ Gone' = Gone \cup S
  /\ \/ busy' = "idle"
     \/ /\ busy' = "stamp"
        /\ \E r \in Routes : HasRoom(r) /\ S = Expired(r) /\ cur'.route = r
  /\ UNCHANGED <<now, up, epoch, ids, next, media, sent, accepted>>

LEMMA PutLeaves ==
  ASSUME TypeOK, NEW r \in Routes, PutFull(r) \/ PutAdmit(r)
  PROVE  \E S \in SUBSET q : Leaves(S)
<1>1. Gone' = Gone \cup Expired(r)
  BY ExitsGoneOne DEF PutFull, PutAdmit
<1>2. Expired(r) \in SUBSET q
  BY QueueSubset
<1>3. Leaves(Expired(r))
  <2>1. CASE PutFull(r)
    BY <1>1, <2>1 DEF PutFull, Leaves, Idle
  <2>2. CASE PutAdmit(r)
    <3>1. cur'.route = r
      BY <2>2 DEF PutAdmit, TypeOK, Message
    <3>2. QED
      BY <1>1, <2>2, <3>1 DEF PutAdmit, Leaves
  <2>3. QED
    BY <2>1, <2>2
<1>4. QED
  BY <1>2, <1>3

LEMMA TakeLeaves ==
  ASSUME NEW r \in Routes, NEW limit \in Limits, Take(r, limit)
  PROVE  \E S \in SUBSET q : Leaves(S)
<1> DEFINE taken == First(Available(r), limit)
           out == Expired(r) \cup taken
<1>1. out \in SUBSET q
  BY QueueSubset, FirstSubset
<1>2. gone' = gone \cup Exits(Expired(r), "expired", NoOne) \cup Exits(taken, "taken", NoOne)
  BY DEF Take
<1>3. Gone' = Gone \cup out
  BY <1>2, ExitsGone
<1>4. Leaves(out)
  BY <1>3 DEF Take, Leaves, Idle
<1>5. QED
  BY <1>1, <1>4

LEMMA TakeLeasedLeaves ==
  ASSUME NEW r \in Routes, NEW limit \in Limits, NEW d \in 1 .. MaxLease,
         TakeLeased(r, limit, d)
  PROVE  \E S \in SUBSET q : Leaves(S)
<1>1. Gone' = Gone \cup Expired(r)
  BY ExitsGoneOne DEF TakeLeased
<1>2. Leaves(Expired(r))
  BY <1>1 DEF TakeLeased, Leaves, Idle
<1>3. QED
  BY <1>2, QueueSubset

LEMMA AckLeaves ==
  ASSUME NEW r \in Routes, NEW g \in grants, Ack(r, g)
  PROVE  \E S \in SUBSET q : Leaves(S)
<1> DEFINE kept == marks \ Lapsed(r)
           acked == {m \in Queue(r) \ Expired(r) :
                       \E k \in kept : k.m = m /\ k.lease = g.lease}
           out == Expired(r) \cup acked
<1>1. out \in SUBSET q
  BY QueueSubset
<1>2. /\ gone' = gone \cup Exits(Expired(r), "expired", NoOne)
                      \cup Exits(acked, "acked", <<g.run, g.k>>)
      /\ Idle /\ Leave(out)
      /\ UNCHANGED <<now, up, epoch, ids, next, busy, cur, media, sent, accepted>>
  BY DEF Ack
<1> HIDE DEF acked
<1>3. Gone' = Gone \cup out
  BY <1>2, ExitsGone
<1>4. Leaves(out)
  BY <1>2, <1>3 DEF Leaves, Idle
<1>5. QED
  BY <1>1, <1>4

LEMMA ExpireLeaves ==
  ASSUME NEW R \in SUBSET Routes, Expire(R)
  PROVE  \E S \in SUBSET q : Leaves(S)
<1> DEFINE out == UNION {Expired(r) : r \in R}
<1>1. out \in SUBSET q
  BY QueueSubset
<1>2. /\ gone' = gone \cup Exits(out, "expired", NoOne)
      /\ Idle /\ Leave(out)
      /\ UNCHANGED <<now, up, epoch, ids, next, busy, cur, media, sent, accepted>>
  BY DEF Expire
<1> HIDE DEF out
<1>3. Gone' = Gone \cup out
  BY <1>2, ExitsGoneOne
<1>4. Leaves(out)
  BY <1>2, <1>3 DEF Leaves, Idle
<1>5. QED
  BY <1>1, <1>4

\* Steps that concern neither queue nor history of what was accepted and left.
Aloof == Tick \/ StepClockBack \/ (\E f \in disk : Corrupt(f)) \/ UNCHANGED vars

LEMMA StepCases ==
  ASSUME TypeOK, [Next]_vars
  PROVE  \/ \E S \in SUBSET q : Leaves(S)
         \/ PutMemory \/ PutStamp \/ PutFail \/ PutRename \/ PutSync \/ PutSyncFail
         \/ \E m \in doomed : Unlink(m)
         \/ Crash \/ PowerCut \/ Start \/ Aloof
<1>1. ASSUME NEW r \in Routes, Depth(r) PROVE \E S \in SUBSET q : Leaves(S)
  <2>1. {r} \in SUBSET Routes /\ Expire({r})
    BY <1>1 DEF Depth
  <2>2. QED
    BY <2>1, ExpireLeaves
<1>2. ASSUME Sweep PROVE \E S \in SUBSET q : Leaves(S)
  <2>1. Routes \in SUBSET Routes /\ Expire(Routes)
    BY <1>2 DEF Sweep
  <2>2. QED
    BY <2>1, ExpireLeaves
<1>3. QED
  BY <1>1, <1>2, PutLeaves, TakeLeaves, TakeLeasedLeaves, AckLeaves DEF Next, Aloof

-----------------------------------------------------------------------------
(* Order and ids of the messages that are owed.                            *)

\* While the store can still answer for what it accepted: with a spool, or as
\* long as the process has not been restarted.
Answerable == Durable \/ epoch = 1

\* A Put that is writing has the newest message and id there is.
CurNewest == busy \in {"write", "sync"} => Durable /\ cur.msg = sent /\ cur.id = ids

\* Whatever is owed was there before the counters' next values, and before the
\* message that is being put.
OwedBefore ==
  /\ \A m \in Owed : m.msg <= sent
  /\ up => \A m \in Owed : m.id <= ids /\ m.num < next
  /\ busy \in {"write", "sync"} =>
       \A m \in Owed : m.msg < cur.msg /\ m.num < cur.num /\ m.id < cur.id

OrderInv ==
  /\ CurNewest
  /\ Answerable => OwedBefore /\ OrderKept /\ OwedIdsDistinct

LEMMA OwedType == TypeOK => Owed \subseteq Message
BY DEF TypeOK, Owed

\* Nothing new is owed, no counter moves and no Put gets further.
LEMMA OrderLess ==
  ASSUME OrderInv, Owed' \subseteq Owed, UNCHANGED <<sent, ids, next, epoch>>, up' => up,
         busy' \in {"idle", "stamp"} \/ UNCHANGED <<busy, cur>>
  PROVE  OrderInv'
<1>1. CurNewest'
  BY DEF OrderInv, CurNewest
<1>2. ASSUME Answerable' PROVE OwedBefore'
  <2>1. OwedBefore
    BY <1>2 DEF OrderInv, Answerable
  <2>2. QED
    BY <2>1 DEF OwedBefore
<1>3. ASSUME Answerable' PROVE OrderKept' /\ OwedIdsDistinct'
  <2>1. OrderKept /\ OwedIdsDistinct
    BY <1>3 DEF OrderInv, Answerable
  <2>2. QED
    BY <2>1 DEF OrderKept, OwedIdsDistinct
<1>4. QED
  BY <1>1, <1>2, <1>3 DEF OrderInv

\* A message is accepted that is newer than everything owed, in all respects.
LEMMA OrderMore ==
  ASSUME TypeOK, TypeOK', OrderInv, Answerable => OwedBefore, NEW c \in Message,
         Owed' \subseteq Owed \cup {c},
         Answerable => \A m \in Owed : m.msg < c.msg /\ m.num < c.num /\ m.id < c.id,
         c.msg <= sent', c.id <= ids', c.num < next',
         sent <= sent', ids <= ids', next <= next',
         epoch' = epoch, up' = up, busy' = "idle", up
  PROVE  OrderInv'
<1>0. Owed \subseteq Message
  BY OwedType
<1>1. CurNewest'
  BY DEF CurNewest
<1>2. ASSUME Answerable' PROVE OwedBefore' /\ OrderKept' /\ OwedIdsDistinct'
  <2>0. Answerable
    BY <1>2 DEF Answerable
  <2>1. OwedBefore /\ OrderKept /\ OwedIdsDistinct
    BY <2>0 DEF OrderInv
  <2>2. /\ c.msg \in Nat /\ c.num \in Nat /\ c.id \in Nat
        /\ \A m \in Owed : m.msg \in Nat /\ m.num \in Nat /\ m.id \in Nat
    BY <1>0 DEF Message
  <2>3. sent \in Nat /\ sent' \in Nat /\ ids \in Nat /\ ids' \in Nat /\ next \in Nat /\ next' \in Nat
    BY DEF TypeOK
  <2>4. \A m \in Owed : m.msg < c.msg /\ m.num < c.num /\ m.id < c.id
    BY <2>0
  <2>5. OwedBefore'
    <3>1. \A m \in Owed : m.msg <= sent' /\ m.id <= ids' /\ m.num < next'
      BY <2>1, <2>2, <2>3 DEF OwedBefore
    <3>2. QED
      BY <3>1 DEF OwedBefore
  <2>6. OrderKept'
    BY <2>1, <2>2, <2>4 DEF OrderKept
  <2>7. OwedIdsDistinct'
    BY <2>1, <2>2, <2>4 DEF OwedIdsDistinct
  <2>8. QED
    BY <2>5, <2>6, <2>7
<1>3. QED
  BY <1>1, <1>2 DEF OrderInv

LEMMA OrderPut ==
  ASSUME SpoolInv, OrderInv, TypeOK'
  PROVE  /\ PutMemory => OrderInv'
         /\ PutStamp => OrderInv'
         /\ PutRename => OrderInv'
         /\ PutSync => OrderInv'
<1>0. TypeOK /\ Stopped /\ (Durable => NumbersAgree /\ PutInFlight) /\ NoLoss
  BY DEF SpoolInv
<1>a. Owed \subseteq Message
  BY <1>0, OwedType
<1>b. /\ sent \in Nat /\ ids \in Nat /\ next \in Nat
      /\ \A m \in Owed : m.msg \in Nat /\ m.num \in Nat /\ m.id \in Nat
  BY <1>0, <1>a DEF TypeOK, Message
<1>1. ASSUME PutMemory PROVE OrderInv'
  <2> DEFINE c == Stamped(ids + 1)
  <2>1. c \in Message
    BY <1>0, StampedType DEF TypeOK
  <2>2. c.msg = sent + 1 /\ c.id = ids + 1 /\ c.num = next
    BY DEF Stamped
  <2>3. Owed' \subseteq Owed \cup {c}
    BY <1>1 DEF PutMemory, Gone, Owed, media
  <2>4. /\ sent' = sent + 1 /\ ids' = ids + 1 /\ next' = next + 1 /\ busy' = "idle"
        /\ epoch' = epoch /\ up' = up /\ up
    BY <1>1 DEF PutMemory
  <2> HIDE DEF c
  <2>5. Answerable => OwedBefore
    BY DEF OrderInv
  <2>6. Answerable => \A m \in Owed : m.msg < c.msg /\ m.num < c.num /\ m.id < c.id
    BY <1>b, <2>2, <2>4, <2>5 DEF OwedBefore
  <2>7. /\ c.msg <= sent' /\ c.id <= ids' /\ c.num < next'
        /\ sent <= sent' /\ ids <= ids' /\ next <= next'
    BY <1>b, <2>2, <2>4
  <2>8. QED
    BY <1>0, <2>1, <2>3, <2>4, <2>5, <2>6, <2>7, OrderMore
<1>2. ASSUME PutStamp PROVE OrderInv'
  <2>1. Owed' = Owed
    BY <1>2 DEF PutStamp, Gone, Owed
  <2>2. /\ sent' = sent + 1 /\ ids' = ids + 1 /\ next' = next
        /\ cur' = Stamped(ids + 1) /\ busy' = "write"
        /\ epoch' = epoch /\ up' = up /\ up /\ Durable
    BY <1>2 DEF PutStamp
  <2>3. cur'.msg = sent' /\ cur'.id = ids' /\ cur'.num = next
    BY <2>2 DEF Stamped
  <2>4. CurNewest'
    BY <2>2, <2>3 DEF CurNewest
  <2>5. OwedBefore /\ OrderKept /\ OwedIdsDistinct
    BY <2>2 DEF OrderInv, Answerable
  <2>6. OwedBefore'
    BY <1>b, <2>1, <2>2, <2>3, <2>5 DEF OwedBefore
  <2>7. OrderKept' /\ OwedIdsDistinct'
    BY <2>1, <2>5 DEF OrderKept, OwedIdsDistinct
  <2>8. QED
    BY <2>4, <2>6, <2>7 DEF OrderInv
<1>3. ASSUME PutRename PROVE OrderInv'
  <2>1. Owed' = Owed
    BY <1>3 DEF PutRename, Gone, Owed, past
  <2>2. /\ sent' = sent /\ ids' = ids /\ next' = next + 1
        /\ cur' = cur /\ busy = "write" /\ busy' = "sync"
        /\ epoch' = epoch /\ up' = up /\ up
    BY <1>3 DEF PutRename, past
  <2>3. CurNewest /\ Durable
    BY <2>2 DEF OrderInv, CurNewest
  <2>4. CurNewest'
    BY <2>2, <2>3 DEF CurNewest
  <2>5. OwedBefore /\ OrderKept /\ OwedIdsDistinct
    BY <2>3 DEF OrderInv, Answerable
  <2>6. OwedBefore'
    BY <1>b, <2>1, <2>2, <2>5 DEF OwedBefore
  <2>7. OrderKept' /\ OwedIdsDistinct'
    BY <2>1, <2>5 DEF OrderKept, OwedIdsDistinct
  <2>8. QED
    BY <2>4, <2>6, <2>7 DEF OrderInv
<1>4. ASSUME PutSync PROVE OrderInv'
  <2>1. Owed' \subseteq Owed \cup {cur}
    BY <1>4 DEF PutSync, Gone, Owed
  <2>2. /\ UNCHANGED <<sent, ids, next, epoch, up>>
        /\ busy = "sync" /\ busy' = "idle" /\ up
    BY <1>4 DEF PutSync
  <2>3. CurNewest /\ Durable
    BY <2>2 DEF OrderInv, CurNewest
  <2>4. cur.num < next /\ cur.msg = sent /\ cur.id = ids /\ cur \in Message
    BY <1>0, <2>2, <2>3 DEF PutInFlight, CurNewest, TypeOK
  <2>5. OwedBefore
    BY <2>3 DEF OrderInv, Answerable
  <2>6. \A m \in Owed : m.msg < cur.msg /\ m.num < cur.num /\ m.id < cur.id
    BY <2>2, <2>5 DEF OwedBefore
  <2>7. /\ cur.msg <= sent' /\ cur.id <= ids' /\ cur.num < next'
        /\ sent <= sent' /\ ids <= ids' /\ next <= next'
    BY <1>b, <2>2, <2>4
  <2>8. QED
    BY <1>0, <2>1, <2>2, <2>4, <2>5, <2>6, <2>7, OrderMore
<1>5. QED
  BY <1>1, <1>2, <1>3, <1>4

LEMMA HighestAbove ==
  ASSUME NEW S \in SUBSET Nat, NEW n \in HighestOf(S)
  PROVE  \A x \in S : x <= n
BY DEF HighestOf

\* The counters are recovered above everything that is loaded, and what is owed
\* is loaded.
LEMMA OrderStart ==
  ASSUME SpoolInv, OrderInv, Start, TypeOK'
  PROVE  OrderInv'
<1>0. TypeOK /\ Stopped /\ (Durable => NumbersAgree /\ PutInFlight) /\ NoLoss /\ epoch >= 1
  BY DEF SpoolInv
<1>1. /\ epoch' = epoch + 1 /\ sent' = sent /\ busy' = "idle"
      /\ UNCHANGED <<rotten, past>> /\ ~up
  BY <1>0 DEF Start, Stopped, call, past
<1>2. Owed' = Owed
  BY <1>1 DEF Owed, Gone, past
<1>3. CurNewest'
  BY <1>1 DEF CurNewest
<1>4. ASSUME Answerable' PROVE OwedBefore' /\ OrderKept' /\ OwedIdsDistinct'
  <2>1. Durable
    <3>1. epoch' # 1
      BY <1>0, <1>1 DEF TypeOK
    <3>2. QED
      BY <1>4, <3>1 DEF Answerable
  <2>2. OwedBefore /\ OrderKept /\ OwedIdsDistinct
    BY <2>1 DEF OrderInv, Answerable
  <2>3. Owed \subseteq Loadable
    BY <1>0, <2>1 DEF NoLoss, PutInFlight, Loadable, Owed
  <2> DEFINE I == {f.id : f \in Loadable}
             N == {f.num : f \in Loadable}
  <2>4. ids' \in HighestOf(I) /\ \E n \in HighestOf(N) : next' = n + 1
    BY <2>1 DEF Start, OpenSpool, RecoveredIds, RecoveredNext
  <2>5. I \in SUBSET Nat /\ N \in SUBSET Nat
    BY <1>0 DEF Loadable, TypeOK, Message
  <2>6. \A f \in Loadable : f.id \in I /\ f.num \in N
    OBVIOUS
  <2> HIDE DEF I, N
  <2>7. PICK n \in HighestOf(N) : next' = n + 1
    BY <2>4
  <2>8. \A f \in Loadable : f.id <= ids' /\ f.num <= n /\ f.num \in Nat
    BY <2>4, <2>5, <2>6, HighestAbove
  <2>9. n \in Nat
    BY <2>5, HighestType
  <2>10. \A m \in Owed : m.id <= ids' /\ m.num < next'
    BY <2>3, <2>7, <2>8, <2>9
  <2>11. OwedBefore'
    BY <1>1, <1>2, <2>2, <2>10 DEF OwedBefore
  <2>12. QED
    BY <1>2, <2>2, <2>11 DEF OrderKept, OwedIdsDistinct
<1>5. QED
  BY <1>3, <1>4 DEF OrderInv

LEMMA OrderInit == Init => OrderInv
<1> SUFFICES ASSUME Init PROVE OrderInv
  OBVIOUS
<1>1. Owed = {} /\ busy = "idle"
  BY DEF Init, Owed, Gone
<1>2. QED
  BY <1>1 DEF OrderInv, CurNewest, OwedBefore, OrderKept, OwedIdsDistinct

\* Steps after which nothing more is owed than before, and no Put is further.
LEMMA OwedLess ==
  ASSUME SpoolInv,
         \/ \E S \in SUBSET q : Leaves(S)
         \/ PutFail \/ PutSyncFail \/ Crash \/ PowerCut \/ Aloof
         \/ \E m \in doomed : Unlink(m)
  PROVE  /\ Owed' \subseteq Owed /\ UNCHANGED <<sent, ids, next, epoch, accepted>> /\ (up' => up)
         /\ busy' \in {"idle", "stamp"} \/ UNCHANGED <<busy, cur>>
<1>1. CASE \E S \in SUBSET q : Leaves(S)
  BY <1>1 DEF Leaves, Owed, media
<1>2. CASE PutFail \/ PutSyncFail
  BY <1>2 DEF PutFail, PutSyncFail, Owed, Gone, memory
<1>3. CASE Crash
  BY <1>3 DEF Crash, Owed, Gone, media, past
<1>4. CASE PowerCut
  BY <1>4 DEF PowerCut, Owed, Gone, past
<1>5. CASE \E m \in doomed : Unlink(m)
  BY <1>5 DEF Unlink, Owed, Gone, past, memory
<1>6. CASE Aloof
  <2>1. CASE Tick \/ StepClockBack
    BY <2>1 DEF Tick, StepClockBack, Owed, Gone, memory, call, media, past
  <2>2. CASE \E f \in disk : Corrupt(f)
    BY <2>2 DEF Corrupt, Owed, Gone, memory, call, past
  <2>3. CASE UNCHANGED vars
    BY <2>3 DEF vars, Owed, Gone, memory, call, media, past
  <2>4. QED
    BY <1>6, <2>1, <2>2, <2>3 DEF Aloof
<1>7. QED
  BY <1>1, <1>2, <1>3, <1>4, <1>5, <1>6

LEMMA OrderNext == SpoolInv /\ OrderInv /\ [Next]_vars => OrderInv'
<1> SUFFICES ASSUME SpoolInv, OrderInv, [Next]_vars PROVE OrderInv'
  OBVIOUS
<1>0. TypeOK /\ TypeOK'
  BY TypeNext DEF SpoolInv
<1>1. CASE \/ \E S \in SUBSET q : Leaves(S)
           \/ PutFail \/ PutSyncFail \/ Crash \/ PowerCut \/ Aloof
           \/ \E m \in doomed : Unlink(m)
  BY <1>1, OwedLess, OrderLess
<1>2. CASE PutMemory \/ PutStamp \/ PutRename \/ PutSync
  BY <1>0, <1>2, OrderPut
<1>3. CASE Start
  BY <1>0, <1>3, OrderStart
<1>4. QED
  BY <1>0, <1>1, <1>2, <1>3, StepCases

\* Owed messages keep the order of their acceptance: over restarts if there is a
\* spool, and otherwise for as long as the process lives; for any number of
\* crashes and power cuts, and whether or not removals fail.
THEOREM OrderIsKept == Spec => [](Answerable => OrderKept)
<1>1. OrderInv => (Answerable => OrderKept)
  BY DEF OrderInv
<1>2. QED
  BY <1>1, InvInit, InvNext, OrderInit, OrderNext, PTL DEF Spec

\* No two owed messages have the same id, under the same conditions: what is
\* recovered has ids below the next one (spool.go, OpenSpool).
THEOREM IdsStayDistinct == Spec => [](Answerable => OwedIdsDistinct)
<1>1. OrderInv => (Answerable => OwedIdsDistinct)
  BY DEF OrderInv
<1>2. QED
  BY <1>1, InvInit, InvNext, OrderInit, OrderNext, PTL DEF Spec

-----------------------------------------------------------------------------
(* The limit of a queue.                                                   *)

\* The messages there are, queued or on disk.
Around == q \cup disk \cup firm \cup loose

\* There are finitely many: without this a cardinality says nothing.
Finite == IsFiniteSet(Around) /\ IsFiniteSet(accepted)

OnRoute(S, r) == {m \in S : m.route = r}

\* No route owes more than the limit, and the route of a Put that found room
\* owes less: what it adds still fits when it gets there.
BoundInv ==
  /\ Finite
  /\ Answerable =>
       /\ \A r \in Routes : Cardinality(OnRoute(Owed, r)) <= MaxQueue
       /\ busy # "idle" => Cardinality(OnRoute(Owed, cur.route)) < MaxQueue

\* A step adds at most one message to what is around.
LEMMA AroundGrows ==
  ASSUME TypeOK, [Next]_vars
  PROVE  \E x : Around' \subseteq Around \cup {x}
<1> USE DEF Around
<1>1. CASE \E S \in SUBSET q : Leaves(S)
  BY <1>1 DEF Leaves, Leave, media
<1>2. CASE PutMemory
  BY <1>2 DEF PutMemory, media
<1>3. CASE PutStamp \/ PutFail
  BY <1>3 DEF PutStamp, PutFail, memory
<1>4. CASE PutRename
  BY <1>4 DEF PutRename, Over
<1>5. CASE PutSync
  BY <1>5 DEF PutSync
<1>6. CASE PutSyncFail
  BY <1>6 DEF PutSyncFail, memory
<1>7. CASE \E m \in doomed : Unlink(m)
  BY <1>7 DEF Unlink, memory
<1>8. CASE Crash
  BY <1>8 DEF Crash, media
<1>9. CASE PowerCut
  BY <1>9 DEF PowerCut
<1>10. CASE Start
  BY <1>10, SwitchAssumption DEF Start, OpenSpool, Loadable
<1>11. CASE Aloof
  <2>1. UNCHANGED <<q, disk, firm, loose>>
    BY <1>11 DEF Aloof, Tick, StepClockBack, Corrupt, vars, memory, media
  <2>2. QED
    BY <2>1
<1>12. QED
  BY <1>1, <1>2, <1>3, <1>4, <1>5, <1>6, <1>7, <1>8, <1>9, <1>10, <1>11, StepCases

LEMMA AcceptedGrows ==
  ASSUME TypeOK, [Next]_vars
  PROVE  \E x : accepted' \subseteq accepted \cup {x}
<1>1. CASE PutMemory \/ PutSync
  BY <1>1 DEF PutMemory, PutSync
<1>2. CASE ~(PutMemory \/ PutSync)
  <2>1. accepted' = accepted
    BY <1>2, StepCases DEF Leaves, PutStamp, PutFail, PutRename, PutSyncFail, Unlink, Crash,
       PowerCut, Start, Aloof, Tick, StepClockBack, Corrupt, vars, past
  <2>2. QED
    BY <2>1
<1>3. QED
  BY <1>1, <1>2

LEMMA FiniteGrows ==
  ASSUME NEW S, IsFiniteSet(S), NEW T, \E x : T \subseteq S \cup {x}
  PROVE  IsFiniteSet(T)
<1>1. PICK x : T \subseteq S \cup {x}
  OBVIOUS
<1>2. IsFiniteSet(S \cup {x})
  BY FS_AddElement
<1>3. QED
  BY <1>1, <1>2, FS_Subset

LEMMA FiniteNext ==
  ASSUME TypeOK, Finite, [Next]_vars
  PROVE  Finite'
BY AroundGrows, AcceptedGrows, FiniteGrows DEF Finite

\* Fewer messages, or one more, on one route of finitely many.
LEMMA FewerOnRoute ==
  ASSUME NEW S, IsFiniteSet(S), NEW T \in SUBSET S, NEW r
  PROVE  /\ IsFiniteSet(OnRoute(T, r))
         /\ Cardinality(OnRoute(T, r)) \in Nat /\ Cardinality(OnRoute(S, r)) \in Nat
         /\ Cardinality(OnRoute(T, r)) <= Cardinality(OnRoute(S, r))
<1>1. OnRoute(S, r) \in SUBSET S /\ OnRoute(T, r) \in SUBSET OnRoute(S, r)
  BY DEF OnRoute
<1>2. IsFiniteSet(OnRoute(S, r))
  BY <1>1, FS_Subset
<1>3. /\ IsFiniteSet(OnRoute(T, r))
      /\ Cardinality(OnRoute(T, r)) <= Cardinality(OnRoute(S, r))
  BY <1>1, <1>2, FS_Subset
<1>4. QED
  BY <1>2, <1>3, FS_CardinalityType

LEMMA OneMoreOnRoute ==
  ASSUME NEW S, IsFiniteSet(S), NEW c, NEW T \in SUBSET (S \cup {c}), NEW r
  PROVE  /\ Cardinality(OnRoute(T, r)) \in Nat /\ Cardinality(OnRoute(S, r)) \in Nat
         /\ Cardinality(OnRoute(T, r)) <= Cardinality(OnRoute(S, r)) + 1
         /\ c.route # r => Cardinality(OnRoute(T, r)) <= Cardinality(OnRoute(S, r))
<1>1. IsFiniteSet(OnRoute(S, r)) /\ Cardinality(OnRoute(S, r)) \in Nat
  BY FewerOnRoute
<1>2. /\ OnRoute(T, r) \in SUBSET (OnRoute(S, r) \cup {c})
      /\ c.route # r => OnRoute(T, r) \in SUBSET OnRoute(S, r)
  BY DEF OnRoute
<1>3. /\ IsFiniteSet(OnRoute(S, r) \cup {c})
      /\ Cardinality(OnRoute(S, r) \cup {c}) \in Nat
      /\ Cardinality(OnRoute(S, r) \cup {c}) <= Cardinality(OnRoute(S, r)) + 1
  <2> DEFINE U == OnRoute(S, r)
  <2>1. /\ IsFiniteSet(U \cup {c})
        /\ Cardinality(U \cup {c}) = IF c \in U THEN Cardinality(U) ELSE Cardinality(U) + 1
    BY <1>1, FS_AddElement
  <2> HIDE DEF U
  <2>2. Cardinality(U) \in Nat
    BY <1>1 DEF U
  <2>3. IsFiniteSet(U \cup {c}) /\ Cardinality(U \cup {c}) \in Nat
        /\ Cardinality(U \cup {c}) <= Cardinality(U) + 1
    BY <2>1, <2>2
  <2>4. QED
    BY <2>3 DEF U
<1>4. /\ IsFiniteSet(OnRoute(T, r))
      /\ Cardinality(OnRoute(T, r)) <= Cardinality(OnRoute(S, r) \cup {c})
  BY <1>2, <1>3, FS_Subset
<1>5. c.route # r => Cardinality(OnRoute(T, r)) <= Cardinality(OnRoute(S, r))
  BY <1>1, <1>2, FS_Subset
<1>6. QED
  BY <1>1, <1>3, <1>4, <1>5, FS_CardinalityType

LEMMA OwedFinite == Finite => IsFiniteSet(Owed)
<1>1. Owed \in SUBSET accepted
  BY DEF Owed
<1>2. QED
  BY <1>1, FS_Subset DEF Finite

\* Fewer messages are owed, and the Put in progress is the same or none.
LEMMA BoundLess ==
  ASSUME BoundInv, Finite', Owed' \subseteq Owed, epoch' = epoch,
         busy' = "idle" \/ (busy # "idle" /\ cur'.route = cur.route)
  PROVE  BoundInv'
<1>1. /\ Owed' \in SUBSET Owed
      /\ IsFiniteSet(Owed)
  BY OwedFinite DEF BoundInv
<1>2. \A r : /\ Cardinality(OnRoute(Owed', r)) \in Nat /\ Cardinality(OnRoute(Owed, r)) \in Nat
            /\ Cardinality(OnRoute(Owed', r)) <= Cardinality(OnRoute(Owed, r))
  BY <1>1, FewerOnRoute
<1>3. SUFFICES ASSUME Answerable'
      PROVE  /\ \A r \in Routes : Cardinality(OnRoute(Owed', r)) <= MaxQueue
             /\ busy' # "idle" => Cardinality(OnRoute(Owed', cur'.route)) < MaxQueue
  BY DEF BoundInv
<1>4. Answerable
  BY <1>3 DEF Answerable
<1>5. /\ \A r \in Routes : Cardinality(OnRoute(Owed, r)) <= MaxQueue
      /\ busy # "idle" => Cardinality(OnRoute(Owed, cur.route)) < MaxQueue
  BY <1>4 DEF BoundInv
<1>6. \A r \in Routes : Cardinality(OnRoute(Owed', r)) <= MaxQueue
  BY <1>2, <1>5, SizeAssumption
<1>7. busy' # "idle" => Cardinality(OnRoute(Owed', cur.route)) < MaxQueue
  BY <1>2, <1>5, SizeAssumption
<1>8. QED
  BY <1>6, <1>7

\* A Put that found room: what is owed on its route is queued and not too old.
LEMMA BoundLeaves ==
  ASSUME SpoolInv, BoundInv, Finite', NEW S \in SUBSET q, Leaves(S)
  PROVE  BoundInv'
<1>0. Owed' = Owed \ S /\ epoch' = epoch /\ up
  BY DEF Leaves, Owed, media, Idle
<1>1. CASE busy' = "idle"
  BY <1>0, <1>1, BoundLess
<1>2. ASSUME NEW r \in Routes, HasRoom(r), S = Expired(r), cur'.route = r
      PROVE  BoundInv'
  <2> DEFINE R == Queue(r) \ Expired(r)
  <2>1. SUFFICES ASSUME Answerable'
        PROVE  /\ \A s \in Routes : Cardinality(OnRoute(Owed', s)) <= MaxQueue
               /\ Cardinality(OnRoute(Owed', r)) < MaxQueue
    BY <1>2 DEF BoundInv
  <2>2. Answerable /\ Owed \subseteq q
    BY <1>0, <2>1 DEF Answerable, SpoolInv, NoLoss
  <2>3. OnRoute(Owed', r) \in SUBSET R
    BY <1>0, <1>2, <2>2 DEF OnRoute, Queue
  <2>4. IsFiniteSet(R)
    <3>1. R \in SUBSET Around
      BY DEF Queue, Around
    <3>2. QED
      BY <3>1, FS_Subset DEF BoundInv, Finite
  <2>5. Cardinality(R) < MaxQueue
    BY <1>2 DEF HasRoom
  <2> HIDE DEF R
  <2>6. Cardinality(OnRoute(Owed', r)) < MaxQueue
    BY <2>3, <2>4, <2>5, FS_Subset, FS_CardinalityType, SizeAssumption
  <2>7. IsFiniteSet(Owed) /\ Owed' \in SUBSET Owed
    BY <1>0, OwedFinite DEF BoundInv
  <2>8. \A s : /\ Cardinality(OnRoute(Owed', s)) \in Nat /\ Cardinality(OnRoute(Owed, s)) \in Nat
              /\ Cardinality(OnRoute(Owed', s)) <= Cardinality(OnRoute(Owed, s))
    BY <2>7, FewerOnRoute
  <2>9. \A s \in Routes : Cardinality(OnRoute(Owed, s)) <= MaxQueue
    BY <2>2 DEF BoundInv
  <2>10. \A s \in Routes : Cardinality(OnRoute(Owed', s)) <= MaxQueue
    BY <2>8, <2>9, SizeAssumption
  <2>11. QED
    BY <2>6, <2>10
<1>3. QED
  BY <1>1, <1>2 DEF Leaves

\* The message that is accepted is the one there was room for.
LEMMA BoundMore ==
  ASSUME BoundInv, Finite', NEW c, Owed' \subseteq Owed \cup {c}, c.route = cur.route,
         epoch' = epoch, busy # "idle", busy' = "idle"
  PROVE  BoundInv'
<1>1. Owed' \in SUBSET (Owed \cup {c}) /\ IsFiniteSet(Owed)
  BY OwedFinite DEF BoundInv
<1>2. SUFFICES ASSUME Answerable', NEW r \in Routes
      PROVE  Cardinality(OnRoute(Owed', r)) <= MaxQueue
  BY DEF BoundInv
<1>3. /\ Cardinality(OnRoute(Owed', r)) \in Nat /\ Cardinality(OnRoute(Owed, r)) \in Nat
      /\ Cardinality(OnRoute(Owed', r)) <= Cardinality(OnRoute(Owed, r)) + 1
      /\ c.route # r => Cardinality(OnRoute(Owed', r)) <= Cardinality(OnRoute(Owed, r))
  BY <1>1, OneMoreOnRoute
<1>4. /\ Cardinality(OnRoute(Owed, r)) <= MaxQueue
      /\ Cardinality(OnRoute(Owed, cur.route)) < MaxQueue
  BY <1>2 DEF BoundInv, Answerable
<1>5. CASE c.route = r
  BY <1>3, <1>4, <1>5, SizeAssumption
<1>6. CASE c.route # r
  BY <1>3, <1>4, <1>6, SizeAssumption
<1>7. QED
  BY <1>5, <1>6

LEMMA BoundNext == SpoolInv /\ BoundInv /\ [Next]_vars => BoundInv'
<1> SUFFICES ASSUME SpoolInv, BoundInv, [Next]_vars PROVE BoundInv'
  OBVIOUS
<1>0. TypeOK /\ Finite'
  BY FiniteNext DEF SpoolInv, BoundInv
<1>1. CASE \E S \in SUBSET q : Leaves(S)
  BY <1>0, <1>1, BoundLeaves
<1>2. CASE PutMemory
  <2>1. /\ Owed' \subseteq Owed \cup {Stamped(ids + 1)}
        /\ epoch' = epoch /\ busy # "idle" /\ busy' = "idle"
    BY <1>2 DEF PutMemory, Gone, Owed, media
  <2>2. Stamped(ids + 1).route = cur.route
    BY DEF Stamped
  <2>3. QED
    BY <1>0, <2>1, <2>2, BoundMore
<1>3. CASE PutSync
  <2>1. /\ Owed' \subseteq Owed \cup {cur}
        /\ epoch' = epoch /\ busy # "idle" /\ busy' = "idle"
    BY <1>3 DEF PutSync, Gone, Owed
  <2>2. QED
    BY <1>0, <2>1, BoundMore
<1>4. CASE PutStamp \/ PutRename
  <2>1. CASE PutStamp
    <3>1. Owed' = Owed /\ epoch' = epoch /\ busy # "idle"
      BY <2>1 DEF PutStamp, Gone, Owed
    <3>2. cur'.route = cur.route
      BY <2>1 DEF PutStamp, Stamped
    <3>3. QED
      BY <1>0, <3>1, <3>2, BoundLess
  <2>2. CASE PutRename
    <3>1. Owed' = Owed /\ epoch' = epoch /\ busy # "idle" /\ cur' = cur
      BY <2>2 DEF PutRename, Gone, Owed, past
    <3>2. QED
      BY <1>0, <3>1, BoundLess
  <2>3. QED
    BY <1>4, <2>1, <2>2
<1>5. CASE PutFail \/ PutSyncFail \/ Crash \/ PowerCut \/ Aloof \/ \E m \in doomed : Unlink(m)
  <2>1. Owed' \subseteq Owed /\ epoch' = epoch
    BY <1>5, OwedLess
  <2>2. busy' = "idle" \/ (busy' = busy /\ cur' = cur)
    BY <1>5 DEF PutFail, PutSyncFail, Crash, PowerCut, Aloof, Unlink, Tick, StepClockBack, Corrupt,
                vars, call
  <2>3. QED
    BY <1>0, <2>1, <2>2, BoundLess
<1>6. CASE Start
  <2>1. epoch' = epoch + 1 /\ busy = "idle" /\ busy' = "idle" /\ epoch >= 1
    BY <1>6 DEF Start, SpoolInv, Stopped, call
  <2>2. Owed' = Owed
    BY <1>6 DEF Start, Owed, Gone, past
  <2>3. Answerable' => Answerable
    BY <1>0, <2>1 DEF Answerable, TypeOK
  <2>4. QED
    BY <1>0, <2>1, <2>2, <2>3 DEF BoundInv
<1>7. QED
  BY <1>0, <1>1, <1>2, <1>3, <1>4, <1>5, <1>6, StepCases

LEMMA BoundInit == Init => BoundInv
<1> SUFFICES ASSUME Init PROVE BoundInv
  OBVIOUS
<1>1. Around = {} /\ accepted = {} /\ Owed = {} /\ busy = "idle"
  BY DEF Init, Around, Owed, Gone
<1>2. \A r : OnRoute({}, r) = {}
  BY DEF OnRoute
<1>3. \A r : Cardinality(OnRoute(Owed, r)) <= MaxQueue
  BY <1>1, <1>2, FS_EmptySet, SizeAssumption
<1>4. QED
  BY <1>1, <1>3, FS_EmptySet DEF BoundInv, Finite

\* No queue ever owes more than its limit: room that was found when a Put began
\* is still there when its file is safe, and a restart brings back no more than
\* was owed before.
THEOREM QueuesStayBounded == Spec => [](Answerable => OwedBounded)
<1>1. BoundInv => (Answerable => OwedBounded)
  BY DEF BoundInv, OwedBounded, OnRoute
<1>2. QED
  BY <1>1, InvInit, InvNext, BoundInit, BoundNext, PTL DEF Spec

-----------------------------------------------------------------------------
(* Disk and queue agree, as long as removals do not fail.                  *)

\* While the process runs, the directory is the queue, what is still to be
\* unlinked and the file of a Put waiting for the sync, which are different
\* messages; and there is a fragment exactly while one is being written.
Mirrored ==
  /\ disk = q \cup doomed \cup (IF busy = "sync" THEN {cur} ELSE {})
  /\ tmp = IF busy = "write" THEN {cur} ELSE {}
  /\ q \cap doomed = {}
  /\ busy = "sync" => cur \notin q

MirrorInv == Durable /\ ~FSMayFail /\ up => Mirrored

LEMMA MirrorNext == SpoolInv /\ MirrorInv /\ [Next]_vars => MirrorInv'
<1> SUFFICES ASSUME SpoolInv, MirrorInv, [Next]_vars, Durable, ~FSMayFail, up'
             PROVE  Mirrored'
  BY DEF MirrorInv
<1>0. TypeOK /\ Stopped /\ NumbersAgree /\ PutInFlight
  BY DEF SpoolInv
<1>1. ASSUME NEW S \in SUBSET q, Leaves(S) PROVE Mirrored'
  <2>1. /\ Mirrored /\ busy = "idle" /\ doomed = {} /\ busy' \in {"idle", "stamp"}
        /\ q' = q \ S /\ doomed' = S /\ disk' = disk /\ tmp' = tmp
    BY <1>1 DEF Leaves, Idle, Leave, MirrorInv, media
  <2>2. QED
    BY <2>1 DEF Mirrored
<1>2. CASE PutMemory
  BY <1>2 DEF PutMemory
<1>3. CASE PutStamp
  <2>1. /\ Mirrored /\ busy = "stamp" /\ busy' = "write" /\ tmp' = tmp \cup {cur'}
        /\ UNCHANGED <<q, doomed, disk>>
    BY <1>3 DEF PutStamp, MirrorInv
  <2>2. QED
    BY <2>1 DEF Mirrored
<1>4. CASE PutFail
  <2>1. /\ Mirrored /\ busy = "write" /\ busy' = "idle" /\ tmp' = tmp \ {cur}
        /\ UNCHANGED <<q, doomed, disk>>
    BY <1>4 DEF PutFail, MirrorInv, memory
  <2>2. QED
    BY <2>1 DEF Mirrored
<1>5. CASE PutRename
  <2>1. /\ Mirrored /\ busy = "write" /\ busy' = "sync" /\ tmp' = tmp \ {cur}
        /\ disk' = Over(disk, cur) /\ UNCHANGED <<q, doomed, cur>>
    BY <1>5 DEF PutRename, MirrorInv
  <2>2. doomed = {} /\ cur.num = next /\ disk = q
    BY <1>0, <2>1 DEF PutInFlight, Mirrored
  <2>3. \A x \in q : x.num # cur.num
    BY <1>0, <2>2 DEF NumbersAgree, TypeOK, Message
  <2>4. disk' = q \cup {cur}
    BY <2>1, <2>2, <2>3 DEF Over
  <2>5. cur \notin q
    BY <2>3
  <2>6. QED
    BY <2>1, <2>2, <2>4, <2>5 DEF Mirrored
<1>6. CASE PutSync
  <2>1. /\ Mirrored /\ busy = "sync" /\ busy' = "idle" /\ q' = q \cup {cur}
        /\ UNCHANGED <<doomed, disk, tmp>>
    BY <1>6 DEF PutSync, MirrorInv
  <2>2. doomed = {}
    BY <1>0, <2>1 DEF PutInFlight
  <2>3. QED
    BY <2>1, <2>2 DEF Mirrored
<1>7. CASE PutSyncFail
  <2>1. /\ Mirrored /\ busy = "sync" /\ busy' = "idle" /\ disk' = disk \ {cur}
        /\ UNCHANGED <<q, doomed, tmp>>
    BY <1>7 DEF PutSyncFail, MirrorInv, memory
  <2>2. doomed = {}
    BY <1>0, <2>1 DEF PutInFlight
  <2>3. QED
    BY <2>1, <2>2 DEF Mirrored
<1>8. ASSUME NEW m \in doomed, Unlink(m) PROVE Mirrored'
  <2>1. /\ Mirrored /\ doomed' = doomed \ {m}
        /\ disk' = {x \in disk : x.num # m.num}
        /\ UNCHANGED <<q, tmp, busy, cur>>
    BY <1>8 DEF Unlink, MirrorInv, memory
  <2>2. busy \notin {"write", "sync"}
    BY <1>0, <1>8 DEF PutInFlight
  <2>3. m \in disk /\ disk = q \cup doomed
    BY <1>8, <2>1, <2>2 DEF Mirrored
  <2>4. disk' = disk \ {m}
    BY <1>0, <2>1, <2>3 DEF NumbersAgree
  <2>5. QED
    BY <2>1, <2>2, <2>3, <2>4 DEF Mirrored
<1>9. CASE Crash \/ PowerCut
  BY <1>9 DEF Crash, PowerCut
<1>10. CASE Start
  <2>1. /\ busy' = "idle" /\ doomed' = {} /\ q' = Loadable /\ disk' = Loadable /\ tmp' = {}
    BY <1>0, <1>10 DEF Start, OpenSpool, Stopped, call
  <2>2. QED
    BY <2>1 DEF Mirrored
<1>11. CASE Aloof
  <2>1. UNCHANGED <<up, q, disk, tmp, doomed, busy, cur>>
    BY <1>11 DEF Aloof, Tick, StepClockBack, Corrupt, vars, memory, call, media
  <2>2. QED
    BY <2>1 DEF MirrorInv, Mirrored
<1>12. QED
  BY <1>0, <1>1, <1>2, <1>3, <1>4, <1>5, <1>6, <1>7, <1>8, <1>9, <1>10, <1>11, StepCases

LEMMA MirrorInit == Init => MirrorInv
BY DEF Init, MirrorInv, Mirrored

\* Whenever the mutex is free, the spool holds the queued messages and nothing
\* else, as long as the operating system carries out the removals it is asked
\* for: over every failed Put, crash and power cut before.
THEOREM DiskIsQueue == Spec => [](~FSMayFail => DiskAgrees)
<1>1. MirrorInv => (~FSMayFail => DiskAgrees)
  BY DEF MirrorInv, Mirrored, DiskAgrees, Idle
<1>2. QED
  BY <1>1, InvInit, InvNext, MirrorInit, MirrorNext, PTL DEF Spec

-----------------------------------------------------------------------------
(* Damage to one file does not lose it.                                    *)

\* What was accepted and nobody has had is safe on disk or in a .corrupt file.
\* With one damaged file, ever, no .corrupt file is replaced by another.
SafeInv ==
  Durable /\ ~FSMayFail /\ MaxFaults <= 1 =>
    /\ accepted \ Gone \subseteq firm \cup aside
    /\ aside \subseteq rotten
    /\ rotten = {} \/ \E f : rotten = {f}

LEMMA SafeNext == SpoolInv /\ MirrorInv /\ SafeInv /\ [Next]_vars => SafeInv'
<1> SUFFICES ASSUME SpoolInv, MirrorInv, SafeInv, [Next]_vars,
                    Durable, ~FSMayFail, MaxFaults <= 1
             PROVE  /\ accepted' \ Gone' \subseteq firm' \cup aside'
                    /\ aside' \subseteq rotten'
                    /\ rotten' = {} \/ \E f : rotten' = {f}
  BY DEF SafeInv
<1>0. TypeOK /\ Stopped /\ NumbersAgree /\ PutInFlight /\ DoomedGone
  BY DEF SpoolInv
<1>a. /\ accepted \ Gone \subseteq firm \cup aside
      /\ aside \subseteq rotten
      /\ rotten = {} \/ \E f : rotten = {f}
  BY DEF SafeInv
<1>1. ASSUME NEW S \in SUBSET q, Leaves(S)
      PROVE  accepted' \ Gone' \subseteq firm' \cup aside' /\ UNCHANGED <<aside, rotten>>
  BY <1>a, <1>1 DEF Leaves, media
<1>2. ASSUME PutStamp \/ PutFail \/ PutSyncFail \/ Tick \/ StepClockBack \/ UNCHANGED vars
      PROVE  accepted' \ Gone' \subseteq firm' \cup aside' /\ UNCHANGED <<aside, rotten>>
  <2>1. UNCHANGED <<accepted, gone, firm, aside, rotten>>
    BY <1>2 DEF PutStamp, PutFail, PutSyncFail, Tick, StepClockBack, vars, media, past
  <2>2. QED
    BY <1>a, <2>1 DEF Gone
<1>3. ASSUME PutRename
      PROVE  accepted' \ Gone' \subseteq firm' \cup aside' /\ UNCHANGED <<aside, rotten>>
  <2>1. /\ busy = "write" /\ firm' = {x \in firm : x.num # cur.num} /\ up
        /\ UNCHANGED <<accepted, gone, aside, rotten>>
    BY <1>3 DEF PutRename, past
  <2>2. firm \subseteq q /\ cur.num = next
    BY <1>0, <2>1 DEF PutInFlight, MirrorInv, Mirrored
  <2>3. firm' = firm
    BY <1>0, <2>1, <2>2 DEF NumbersAgree, TypeOK, Message
  <2>4. QED
    BY <1>a, <2>1, <2>3 DEF Gone
<1>4. ASSUME PutSync
      PROVE  accepted' \ Gone' \subseteq firm' \cup aside' /\ UNCHANGED <<aside, rotten>>
  <2>1. /\ busy = "sync" /\ firm' = disk /\ accepted' = accepted \cup {cur}
        /\ UNCHANGED <<gone, aside, rotten>>
    BY <1>4 DEF PutSync
  <2>2. QED
    BY <1>0, <1>a, <2>1 DEF PutInFlight, Gone
<1>5. ASSUME NEW m \in doomed, Unlink(m)
      PROVE  accepted' \ Gone' \subseteq firm' \cup aside' /\ UNCHANGED <<aside, rotten>>
  <2>1. /\ firm' = {x \in firm : x.num # m.num}
        /\ UNCHANGED <<accepted, gone, aside, rotten>>
    BY <1>5 DEF Unlink, past
  <2>2. \A x \in firm : x.num = m.num => x \in Gone
    BY <1>0, <1>5 DEF NumbersAgree, PutInFlight, DoomedGone
  <2>3. QED
    BY <1>a, <2>1, <2>2 DEF Gone
<1>6. ASSUME Crash \/ PowerCut
      PROVE  accepted' \ Gone' \subseteq firm' \cup aside' /\ UNCHANGED <<aside, rotten>>
  <2>1. firm \subseteq firm' /\ UNCHANGED <<accepted, gone, aside, rotten>>
    BY <1>6 DEF Crash, PowerCut, media, past
  <2>2. QED
    BY <1>a, <2>1 DEF Gone
<1>7. ASSUME NEW f \in disk, Corrupt(f)
      PROVE  /\ accepted' \ Gone' \subseteq firm' \cup aside'
             /\ aside' \subseteq rotten' /\ rotten' = {f}
  <2>1. /\ Cardinality(rotten) < MaxFaults /\ rotten' = rotten \cup {f}
        /\ UNCHANGED <<accepted, gone, firm, aside>>
    BY <1>7 DEF Corrupt, past
  <2>2. rotten = {}
    BY <1>a, <2>1, FS_Singleton, BoundAssumption
  <2>3. QED
    BY <1>a, <2>1, <2>2 DEF Gone
<1>8. ASSUME Start
      PROVE  /\ accepted' \ Gone' \subseteq firm' \cup aside'
             /\ aside' \subseteq rotten' /\ rotten' = rotten
  <2> DEFINE bad == disk \ Loadable
  <2>1. /\ firm' = firm \ bad /\ aside' = Quarantined(bad)
        /\ UNCHANGED <<accepted, gone, rotten>>
    BY <1>8 DEF Start, OpenSpool, past
  <2>2. bad \subseteq rotten
    BY DEF Loadable
  <2> HIDE DEF bad
  <2>3. \A a \in aside : a \in Quarantined(bad)
    BY <1>a, <2>2 DEF Quarantined
  <2>4. Quarantined(bad) \subseteq aside \cup bad /\ bad \subseteq Quarantined(bad)
    BY DEF Quarantined
  <2>5. QED
    BY <1>a, <2>1, <2>2, <2>3, <2>4 DEF Gone
<1>9. ASSUME PutMemory PROVE FALSE
  BY <1>9 DEF PutMemory
<1>10. CASE \E f \in disk : Corrupt(f)
  BY <1>7, <1>10
<1>11. CASE Start
  BY <1>8, <1>11, <1>a
<1>12. CASE ~(\E f \in disk : Corrupt(f)) /\ ~Start
  BY <1>0, <1>1, <1>2, <1>3, <1>4, <1>5, <1>6, <1>9, <1>12, <1>a, StepCases DEF Aloof
<1>13. QED
  BY <1>10, <1>11, <1>12

LEMMA SafeInit == Init => SafeInv
BY DEF Init, SafeInv

\* A damaged message that nobody has had stays in the directory, as it was or
\* under the .corrupt name, as long as removals succeed and one file at most is
\* ever damaged: a second one of the same number would replace the first.
THEOREM DamageIsKept == Spec => [](~FSMayFail /\ MaxFaults <= 1 => DamageKept)
<1>1. SpoolInv /\ SafeInv => (~FSMayFail /\ MaxFaults <= 1 => DamageKept)
  BY DEF SpoolInv, SafeInv, DamageKept, PutInFlight
<1>2. QED
  BY <1>1, InvInit, InvNext, MirrorInit, MirrorNext,
     SafeInit, SafeNext, PTL DEF Spec
=============================================================================
