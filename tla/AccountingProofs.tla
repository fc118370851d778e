-------------------------- MODULE AccountingProofs --------------------------
(***************************************************************************)
(* Proofs about Accounting, for every value of its constants: however many *)
(* requests, whatever each is for, and whatever is around the authoriser.  *)
(***************************************************************************)
EXTENDS Accounting, FiniteSetTheorems, FunctionTheorems, WellFoundedInduction, TLAPS

-----------------------------------------------------------------------------
(* What makes SettledOnce inductive: at each step of its handler, what a   *)
(* request has found out, been settled for and been answered with.         *)

Steps == {"start", "put", "get", "lease", "ack", "held", "settle", "answer", "end"}

\* The three answers the property tells apart.
Unanswered(n) == n = 0
Turned(n) == n = 401
Taken(n) == n = 202

\* What a request has found out: nothing yet, or its outcome; an accepted put
\* is one message of its size.
Known(r) ==
  /\ done[r].outcome # "none"
  /\ done[r].outcome = "accepted" =>
       done[r] = [outcome |-> "accepted", bytes |-> size[r], messages |-> 1]

\* The authoriser was asked, and said yes, wherever settlements reach it.
Metered(r) == stack = "leases" \/ r \in admitted

\* What it has been told once the handler has settled.
Told(r) ==
  /\ Metered(r)
  /\ ledger[r] = IF stack = "leases" THEN <<>> ELSE <<done[r]>>

Starting(r) ==
  /\ r \notin admitted
  /\ done[r] = Nothing /\ ledger[r] = <<>> /\ Unanswered(status[r])

Working(r) ==
  /\ Metered(r)
  /\ done[r] = Nothing /\ ledger[r] = <<>> /\ Unanswered(status[r])

Settling(r) == Metered(r) /\ Known(r) /\ ledger[r] = <<>> /\ Unanswered(status[r])

Answering(r) == Told(r) /\ Known(r) /\ Unanswered(status[r])

Ended(r) ==
  \/ r \notin admitted /\ done[r] = Nothing /\ ledger[r] = <<>> /\ Turned(status[r])
  \/ /\ stack = "hosted" /\ r \in admitted
     /\ done[r] = Nothing /\ ledger[r] = <<>> /\ Turned(status[r])
  \/ /\ Told(r) /\ Known(r) /\ ~Unanswered(status[r])
     /\ Taken(status[r]) => done[r].outcome = "accepted"

Fits(r) ==
  /\ pc[r] = "start" => Starting(r)
  /\ pc[r] \in {"put", "get", "lease", "ack"} => Working(r)
  /\ pc[r] \in {"held", "settle"} => Settling(r)
  /\ pc[r] = "answer" => Answering(r)
  /\ pc[r] = "end" => Ended(r)

\* The variables that hold something for every request, and nothing else.
Shapes ==
  /\ op \in [Requests -> {"put", "get", "lease", "ack"}]
  /\ pc \in [Requests -> Steps]
  /\ done = [r \in Requests |-> done[r]]
  /\ ledger = [r \in Requests |-> ledger[r]]
  /\ status = [r \in Requests |-> status[r]]

SettleInv ==
  /\ Shapes
  /\ \A r \in Requests : Fits(r)

-----------------------------------------------------------------------------
(* The invariant gives the property.                                       *)

LEMMA OneEntry ==
  /\ Len(<<>>) = 0
  /\ \A x : Len(<<x>>) = 1 /\ <<x>> # <<>> /\ Append(<<>>, x) = <<x>>
OBVIOUS

LEMMA AnswersDiffer ==
  \A n : /\ Turned(n) => ~Unanswered(n) /\ ~Taken(n)
         /\ Taken(n) => ~Unanswered(n)
BY DEF Turned, Unanswered, Taken

LEMMA NothingIsUnknown == Nothing.outcome = "none"
BY DEF Nothing

\* The property of one request, with the answers abbreviated.
Once(r) ==
  /\ Len(ledger[r]) <= 1
  /\ r \notin admitted => ledger[r] = <<>>
  /\ stack = "leases" \/ Overruled(r) => ledger[r] = <<>>
  /\ stack # "leases" /\ ~Unanswered(status[r]) /\ r \in admitted /\ ~Overruled(r)
       => Len(ledger[r]) = 1
  /\ stack # "leases" /\ Taken(status[r]) =>
       ledger[r] = <<[outcome |-> "accepted", bytes |-> size[r], messages |-> 1]>>

LEMMA SettledOnceByRequest == (\A r \in Requests : Once(r)) => SettledOnce
BY DEF SettledOnce, Once, Unanswered, Taken

LEMMA FitsIsOnce ==
  ASSUME NEW r \in Requests, Fits(r), pc[r] \in Steps
  PROVE  Once(r)
<1>0. Overruled(r) <=> stack = "hosted" /\ r \in admitted /\ done[r] = Nothing /\ Turned(status[r])
  BY DEF Overruled, Turned
<1>1. CASE ledger[r] = <<>> /\ Unanswered(status[r])
  BY <1>1, OneEntry, AnswersDiffer DEF Once
<1>2. CASE pc[r] = "answer"
  <2>1. Told(r) /\ Known(r) /\ Unanswered(status[r])
    BY <1>2 DEF Fits, Answering
  <2>2. ~Overruled(r)
    BY <1>0, <2>1, NothingIsUnknown DEF Known
  <2>3. QED
    BY <2>1, <2>2, OneEntry, AnswersDiffer DEF Once, Told, Metered
<1>3. CASE pc[r] = "end"
  <2>0. Ended(r)
    BY <1>3 DEF Fits
  <2>1. CASE r \notin admitted /\ done[r] = Nothing /\ ledger[r] = <<>> /\ Turned(status[r])
    BY <1>0, <2>1, OneEntry, AnswersDiffer DEF Once
  <2>2. CASE /\ stack = "hosted" /\ r \in admitted
             /\ done[r] = Nothing /\ ledger[r] = <<>> /\ Turned(status[r])
    BY <1>0, <2>2, OneEntry, AnswersDiffer DEF Once
  <2>3. CASE /\ Told(r) /\ Known(r) /\ ~Unanswered(status[r])
             /\ Taken(status[r]) => done[r].outcome = "accepted"
    <3>1. ~Overruled(r)
      BY <1>0, <2>3, NothingIsUnknown DEF Known
    <3>2. QED
      BY <2>3, <3>1, OneEntry DEF Once, Told, Metered, Known
  <2>4. QED
    BY <2>0, <2>1, <2>2, <2>3 DEF Ended
<1>4. QED
  BY <1>1, <1>2, <1>3 DEF Fits, Steps, Starting, Working, Settling

LEMMA InvIsSettledOnce == SettleInv => SettledOnce
BY FitsIsOnce, SettledOnceByRequest DEF SettleInv, Shapes

-----------------------------------------------------------------------------
(* The invariant is kept.                                                  *)

\* A handler leaves the other requests alone.
Others(r) ==
  /\ UNCHANGED <<stack, size, op, chunked>>
  /\ \A s \in Requests \ {r} :
       /\ pc'[s] = pc[s] /\ done'[s] = done[s]
       /\ ledger'[s] = ledger[s] /\ status'[s] = status[s]
       /\ s \in admitted' <=> s \in admitted

LEMMA OthersFit ==
  ASSUME SettleInv, NEW r \in Requests, Others(r), Shapes', Fits(r)'
  PROVE  SettleInv'
<1>1. ASSUME NEW s \in Requests \ {r} PROVE Fits(s)'
  <2>1. Fits(s)
    BY DEF SettleInv
  <2>2. /\ pc'[s] = pc[s] /\ done'[s] = done[s] /\ stack' = stack /\ size' = size
        /\ ledger'[s] = ledger[s] /\ status'[s] = status[s]
        /\ s \in admitted' <=> s \in admitted
    BY DEF Others
  <2>3. /\ Known(s)' <=> Known(s)
        /\ Metered(s)' <=> Metered(s)
    BY <2>2 DEF Known, Metered
  <2>4. Told(s)' <=> Told(s)
    BY <2>2, <2>3 DEF Told
  <2>5. QED
    BY <2>1, <2>2, <2>3, <2>4 DEF Fits, Starting, Working, Settling, Answering, Ended
<1>2. QED
  BY <1>1 DEF SettleInv

\* Moving one request along, with what it found, was settled for or answered.
LEMMA GoShape ==
  ASSUME Shapes, NEW r \in Requests, NEW step \in Steps, Go(r, step)
  PROVE  /\ pc' \in [Requests -> Steps]
         /\ pc'[r] = step
         /\ \A s \in Requests \ {r} : pc'[s] = pc[s]
BY DEF Shapes, Go

LEMMA FoundShape ==
  ASSUME Shapes, NEW r \in Requests, NEW o, NEW b, NEW m, Found(r, o, b, m)
  PROVE  /\ done' = [s \in Requests |-> done'[s]]
         /\ done'[r] = [outcome |-> o, bytes |-> b, messages |-> m]
         /\ \A s \in Requests \ {r} : done'[s] = done[s]
BY DEF Shapes, Found

LEMMA StatusShape ==
  ASSUME Shapes, NEW r \in Requests, NEW n, status' = [status EXCEPT ![r] = n]
  PROVE  /\ status' = [s \in Requests |-> status'[s]]
         /\ status'[r] = n
         /\ \A s \in Requests \ {r} : status'[s] = status[s]
BY DEF Shapes

LEMMA TurnedAway ==
  ASSUME Shapes, NEW r \in Requests, status' = [status EXCEPT ![r] = 401]
  PROVE  Turned(status'[r])
<1>1. PICK n : n = 401
  OBVIOUS
<1>2. status'[r] = n
  BY <1>1 DEF Shapes
<1>3. QED
  BY <1>1, <1>2 DEF Turned

LEMMA LedgerShape ==
  ASSUME Shapes, NEW r \in Requests, NEW x, ledger' = [ledger EXCEPT ![r] = Append(@, x)]
  PROVE  /\ ledger' = [s \in Requests |-> ledger'[s]]
         /\ ledger'[r] = Append(ledger[r], x)
         /\ \A s \in Requests \ {r} : ledger'[s] = ledger[s]
BY DEF Shapes

\* Every action that finds something out and goes on to settle it, or is held
\* with it.
LEMMA InvFound ==
  ASSUME SettleInv, NEW r \in Requests,
         pc[r] \in {"put", "get", "lease", "ack", "held"},
         NEW step \in {"held", "settle"}, Go(r, step),
         NEW o, NEW b, NEW m, Found(r, o, b, m),
         o # "none", o = "accepted" => b = size[r] /\ m = 1,
         UNCHANGED <<stack, op, size, chunked, admitted, ledger, status>>
  PROVE  SettleInv'
<1>0. Shapes
  BY DEF SettleInv
<1>1. /\ pc' \in [Requests -> Steps] /\ pc'[r] = step
      /\ \A s \in Requests \ {r} : pc'[s] = pc[s]
  BY <1>0, GoShape DEF Steps
<1>2. /\ done' = [s \in Requests |-> done'[s]]
      /\ done'[r] = [outcome |-> o, bytes |-> b, messages |-> m]
      /\ \A s \in Requests \ {r} : done'[s] = done[s]
  BY <1>0, FoundShape
<1>3. Shapes'
  BY <1>0, <1>1, <1>2 DEF Shapes
<1>4. Others(r)
  BY <1>1, <1>2 DEF Others
<1>5. Metered(r) /\ ledger[r] = <<>> /\ Unanswered(status[r])
  BY DEF SettleInv, Fits, Working, Settling
<1>6. Known(r)'
  BY <1>2 DEF Known
<1>7. Settling(r)'
  BY <1>5, <1>6 DEF Settling, Metered
<1>8. Fits(r)'
  BY <1>1, <1>7 DEF Fits
<1>9. QED
  BY <1>3, <1>4, <1>8, OthersFit

LEMMA InvCollect ==
  ASSUME SettleInv, NEW r \in Requests, pc[r] \in {"get", "lease", "held"},
         NEW step \in {"held", "settle"}, Go(r, step), Collected(r),
         UNCHANGED <<stack, op, size, chunked, admitted, ledger, status>>
  PROVE  SettleInv'
<1>1. CASE queue = {}
  <2>1. Found(r, "empty", 0, 0)
    BY <1>1 DEF Collected
  <2>2. QED
    BY <2>1, InvFound
<1>2. CASE queue # {}
  <2> DEFINE b == Total(queue)
             m == Cardinality(queue)
  <2>1. Found(r, "delivered", b, m)
    BY <1>2 DEF Collected
  <2> HIDE DEF b, m
  <2>2. QED
    BY <2>1, InvFound
<1>3. QED
  BY <1>1, <1>2

LEMMA InvHandlers ==
  ASSUME SettleInv, NEW r \in Requests
  PROVE  /\ Reject(r) \/ PutFull(r) \/ Put(r) \/ Revoked(r) => SettleInv'
         /\ Get(r) \/ Woken(r) => SettleInv'
         /\ \A g \in Requests : Ack(r, g) => SettleInv'
<1>1. ASSUME Reject(r) \/ PutFull(r) PROVE SettleInv'
  <2>1. /\ pc[r] \in {"put", "get", "lease", "ack", "held"}
        /\ Go(r, "settle") /\ Found(r, "refused", 0, 0)
        /\ UNCHANGED <<stack, op, size, chunked, admitted, ledger, status>>
    BY <1>1 DEF Reject, PutFull, request, meter
  <2>2. QED
    BY <2>1, InvFound
<1>2. ASSUME Put(r) PROVE SettleInv'
  <2>1. /\ pc[r] \in {"put", "get", "lease", "ack", "held"}
        /\ Go(r, "settle") /\ Found(r, "accepted", size[r], 1)
        /\ UNCHANGED <<stack, op, size, chunked, admitted, ledger, status>>
    BY <1>2 DEF Put, request, meter
  <2>2. QED
    BY <2>1, InvFound
<1>3. ASSUME Revoked(r) PROVE SettleInv'
  <2>1. /\ pc[r] \in {"put", "get", "lease", "ack", "held"}
        /\ Go(r, "settle") /\ Found(r, "revoked", 0, 0)
        /\ UNCHANGED <<stack, op, size, chunked, admitted, ledger, status>>
    BY <1>3 DEF Revoked, request, meter
  <2>2. QED
    BY <2>1, InvFound
<1>4. ASSUME Get(r) \/ Woken(r) PROVE SettleInv'
  <2>1. /\ pc[r] \in {"get", "lease", "held"} /\ Collected(r)
        /\ Go(r, "settle") \/ Go(r, "held")
        /\ UNCHANGED <<stack, op, size, chunked, admitted, ledger, status>>
    BY <1>4 DEF Get, Woken, Collect, request, meter
  <2>2. QED
    BY <2>1, InvCollect
<1>5. ASSUME NEW g \in Requests, Ack(r, g) PROVE SettleInv'
  <2> DEFINE held == {x \in lent : x[2] = g}
             m == Cardinality(held)
  <2>1. /\ pc[r] \in {"put", "get", "lease", "ack", "held"}
        /\ Go(r, "settle")
        /\ Found(r, "refused", 0, 0) \/ Found(r, "acknowledged", 0, m)
        /\ UNCHANGED <<stack, op, size, chunked, admitted, ledger, status>>
    BY <1>5 DEF Ack, request, meter
  <2> HIDE DEF m
  <2>2. QED
    BY <2>1, InvFound
<1>6. QED
  BY <1>1, <1>2, <1>3, <1>4, <1>5

\* A poll whose timer runs out is answered with what it found before.
LEMMA InvReleased ==
  ASSUME SettleInv, NEW r \in Requests, Released(r)
  PROVE  SettleInv'
<1>0. Shapes
  BY DEF SettleInv
<1>1. /\ pc' \in [Requests -> Steps] /\ pc'[r] = "settle"
      /\ \A s \in Requests \ {r} : pc'[s] = pc[s]
  BY <1>0, GoShape DEF Steps, Released
<1>2. UNCHANGED <<stack, op, size, chunked, admitted, ledger, status, done>>
  BY DEF Released, request, meter
<1>3. Shapes' /\ Others(r)
  BY <1>0, <1>1, <1>2 DEF Shapes, Others
<1>4. Settling(r)
  BY DEF SettleInv, Fits, Released
<1>5. Settling(r)'
  BY <1>2, <1>4 DEF Settling, Metered, Known
<1>6. Fits(r)'
  BY <1>1, <1>5 DEF Fits
<1>7. QED
  BY <1>3, <1>6, OthersFit

LEMMA InvRefuse ==
  ASSUME SettleInv, NEW r \in Requests, Refuse(r)
  PROVE  SettleInv'
<1>0. Shapes
  BY DEF SettleInv
<1>1. /\ pc' \in [Requests -> Steps] /\ pc'[r] = "end"
      /\ \A s \in Requests \ {r} : pc'[s] = pc[s]
  BY <1>0, GoShape DEF Steps, Refuse
<1>2. UNCHANGED <<stack, op, size, chunked, admitted, ledger, done>>
  BY DEF Refuse, request, meter
<1>3. /\ status' = [s \in Requests |-> status'[s]]
      /\ Turned(status'[r])
      /\ \A s \in Requests \ {r} : status'[s] = status[s]
  BY <1>0, StatusShape DEF Refuse, Turned
<1>4. Shapes' /\ Others(r)
  BY <1>0, <1>1, <1>2, <1>3 DEF Shapes, Others
<1>5. Starting(r)
  BY DEF SettleInv, Fits, Refuse
<1>6. Ended(r)'
  BY <1>2, <1>3, <1>5 DEF Starting, Ended
<1>7. Fits(r)'
  BY <1>1, <1>6 DEF Fits
<1>8. QED
  BY <1>4, <1>7, OthersFit

LEMMA InvAdmit ==
  ASSUME SettleInv, NEW r \in Requests, Admit(r)
  PROVE  SettleInv'
<1>0. Shapes /\ Starting(r)
  BY DEF SettleInv, Fits, Admit
<1>1. /\ UNCHANGED <<stack, op, size, chunked, ledger, done>>
      /\ admitted' = admitted \cup {r}
  BY DEF Admit, request
<1>2. CASE stack = "hosted" /\ Go(r, "end") /\ status' = [status EXCEPT ![r] = 401]
  <2>1. /\ pc' \in [Requests -> Steps] /\ pc'[r] = "end"
        /\ \A s \in Requests \ {r} : pc'[s] = pc[s]
    BY <1>0, <1>2, GoShape DEF Steps
  <2>2. /\ status' = [s \in Requests |-> status'[s]]
        /\ Turned(status'[r])
        /\ \A s \in Requests \ {r} : status'[s] = status[s]
    BY <1>0, <1>2, StatusShape DEF Turned
  <2>3. stack = "hosted"
    BY <1>2
  <2>4. Shapes' /\ Others(r)
    BY <1>0, <1>1, <2>1, <2>2 DEF Shapes, Others
  <2>5. Ended(r)'
    BY <1>0, <1>1, <2>2, <2>3 DEF Starting, Ended
  <2>6. Fits(r)'
    BY <2>1, <2>5 DEF Fits
  <2>7. QED
    BY <2>4, <2>6, OthersFit
<1>3. CASE Go(r, op[r]) /\ UNCHANGED status
  <2>0. op[r] \in {"put", "get", "lease", "ack"}
    BY <1>0 DEF Shapes
  <2>1. /\ pc' \in [Requests -> Steps] /\ pc'[r] = op[r]
        /\ \A s \in Requests \ {r} : pc'[s] = pc[s]
    BY <1>0, <1>3, <2>0, GoShape DEF Steps
  <2>2. Shapes' /\ Others(r)
    BY <1>0, <1>1, <1>3, <2>1 DEF Shapes, Others
  <2>3. Working(r)'
    BY <1>0, <1>1, <1>3 DEF Starting, Working, Metered
  <2>4. Fits(r)'
    BY <2>0, <2>1, <2>3 DEF Fits
  <2>5. QED
    BY <2>2, <2>4, OthersFit
<1>4. QED
  BY <1>2, <1>3 DEF Admit

LEMMA InvAdmitLease ==
  ASSUME SettleInv, NEW r \in Requests, AdmitLease(r)
  PROVE  SettleInv'
<1>0. Shapes /\ Starting(r)
  BY DEF SettleInv, Fits, AdmitLease
<1>1. /\ stack = "leases" /\ Go(r, op[r])
      /\ UNCHANGED <<stack, op, size, chunked, admitted, ledger, status, done>>
  BY DEF AdmitLease, request, meter
<1>2. op[r] \in {"put", "get", "lease", "ack"}
  BY <1>0 DEF Shapes
<1>3. /\ pc' \in [Requests -> Steps] /\ pc'[r] = op[r]
      /\ \A s \in Requests \ {r} : pc'[s] = pc[s]
  BY <1>0, <1>1, <1>2, GoShape DEF Steps
<1>4. Shapes' /\ Others(r)
  BY <1>0, <1>1, <1>3 DEF Shapes, Others
<1>5. Working(r)'
  BY <1>0, <1>1 DEF Starting, Working, Metered
<1>6. Fits(r)'
  BY <1>2, <1>3, <1>5 DEF Fits
<1>7. QED
  BY <1>4, <1>6, OthersFit

LEMMA InvSettle ==
  ASSUME SettleInv, NEW r \in Requests, Settle(r)
  PROVE  SettleInv'
<1>0. Shapes /\ Settling(r)
  BY DEF SettleInv, Fits, Settle
<1>1. /\ Go(r, "answer")
      /\ UNCHANGED <<stack, op, size, chunked, admitted, status, done>>
  BY DEF Settle, request
<1>2. /\ pc' \in [Requests -> Steps] /\ pc'[r] = "answer"
      /\ \A s \in Requests \ {r} : pc'[s] = pc[s]
  BY <1>0, <1>1, GoShape DEF Steps
<1>3. /\ ledger' = [s \in Requests |-> ledger'[s]]
      /\ ledger'[r] = IF stack = "leases" THEN <<>> ELSE <<done[r]>>
      /\ \A s \in Requests \ {r} : ledger'[s] = ledger[s]
  <2>1. CASE Heard
    BY <1>0, <2>1, LedgerShape, OneEntry DEF Settle, Heard, Settling
  <2>2. CASE ~Heard
    BY <1>0, <2>2 DEF Settle, Heard, Settling, Shapes
  <2>3. QED
    BY <2>1, <2>2
<1>4. Shapes' /\ Others(r)
  BY <1>0, <1>1, <1>2, <1>3 DEF Shapes, Others
<1>5. Answering(r)'
  BY <1>0, <1>1, <1>3 DEF Settling, Answering, Told, Metered, Known
<1>6. Fits(r)'
  BY <1>2, <1>5 DEF Fits
<1>7. QED
  BY <1>4, <1>6, OthersFit

\* What the handler answers with, when it is not the sender's 202.
Otherwise(n) == ~Unanswered(n) /\ ~Taken(n)

LEMMA OtherAnswers == Otherwise(200) /\ Otherwise(400) /\ Otherwise(401) /\ Taken(202)
BY DEF Otherwise, Unanswered, Taken

LEMMA InvAnswer ==
  ASSUME SettleInv, NEW r \in Requests, Answer(r)
  PROVE  SettleInv'
<1> DEFINE o == done[r].outcome
           n == CASE o = "accepted" -> 202
                  [] o \in {"delivered", "empty", "acknowledged"} -> 200
                  [] o = "revoked" -> 401
                  [] OTHER -> 400
<1>0. Shapes /\ Answering(r)
  BY DEF SettleInv, Fits, Answer
<1>1. /\ Go(r, "end") /\ status' = [status EXCEPT ![r] = n]
      /\ UNCHANGED <<stack, op, size, chunked, admitted, ledger, done>>
  BY DEF Answer, request, meter
<1>2. (o = "accepted" /\ Taken(n)) \/ Otherwise(n)
  BY OtherAnswers
<1> HIDE DEF n
<1>3. /\ pc' \in [Requests -> Steps] /\ pc'[r] = "end"
      /\ \A s \in Requests \ {r} : pc'[s] = pc[s]
  BY <1>0, <1>1, GoShape DEF Steps
<1>4. /\ status' = [s \in Requests |-> status'[s]]
      /\ status'[r] = n
      /\ \A s \in Requests \ {r} : status'[s] = status[s]
  BY <1>0, <1>1, StatusShape
<1>5. Shapes' /\ Others(r)
  BY <1>0, <1>1, <1>3, <1>4 DEF Shapes, Others
<1>6. ~Unanswered(n) /\ (Taken(n) => o = "accepted")
  BY <1>2, AnswersDiffer DEF Otherwise
<1>7. Told(r)' /\ Known(r)'
  BY <1>0, <1>1 DEF Answering, Told, Metered, Known
<1>8. Ended(r)'
  BY <1>1, <1>4, <1>6, <1>7 DEF Ended
<1>9. Fits(r)'
  BY <1>3, <1>8 DEF Fits
<1>10. QED
  BY <1>5, <1>9, OthersFit

\* Nobody's request moves when a collection lease lapses, or nothing happens.
LEMMA InvIdle ==
  ASSUME SettleInv, UNCHANGED <<stack, pc, op, size, chunked, admitted, ledger, done, status>>
  PROVE  SettleInv'
BY DEF SettleInv, Shapes, Fits, Starting, Working, Settling, Answering, Ended, Told, Known, Metered

LEMMA InvInit == Init => SettleInv
<1> SUFFICES ASSUME Init PROVE SettleInv
  OBVIOUS
<1>1. op \in [Requests -> {"put", "get", "lease", "ack"}]
  BY LoadAssumption DEF Init
<1>2. Shapes
  BY <1>1 DEF Init, Shapes, Steps
<1>3. ASSUME NEW r \in Requests PROVE Fits(r)
  <2>1. Starting(r)
    BY DEF Init, Starting, Unanswered
  <2>2. QED
    BY <2>1 DEF Init, Fits
<1>4. QED
  BY <1>2, <1>3 DEF SettleInv

LEMMA InvNext == SettleInv /\ [Next]_vars => SettleInv'
<1> SUFFICES ASSUME SettleInv, [Next]_vars PROVE SettleInv'
  OBVIOUS
<1>1. CASE UNCHANGED vars
  BY <1>1, InvIdle DEF vars
<1>2. ASSUME NEW r \in Requests, Handler(r) PROVE SettleInv'
  BY <1>2, InvRefuse, InvAdmit, InvAdmitLease, InvHandlers, InvReleased, InvSettle, InvAnswer
     DEF Handler
<1>3. ASSUME NEW r \in Requests, Lapse(r) PROVE SettleInv'
  BY <1>3, InvIdle DEF Lapse, request, meter
<1>4. QED
  BY <1>1, <1>2, <1>3 DEF Next

\* Accounting is told once of every request the authoriser admitted, never of
\* one it did not, and of a 202 as one message of its size: on every path through
\* put, get, getLeased and ack, for any number of requests in any order, and
\* whatever the queue, the quota and the stack around the authoriser are.
THEOREM EveryRequestSettledOnce == Spec => []SettledOnce
BY InvInit, InvNext, InvIsSettledOnce, PTL DEF Spec

-----------------------------------------------------------------------------
(* Sums.  What SumFunctionOnSet adds up is the number of units there are,  *)
(* which the library's theorems on cardinality are about.                  *)

\* Bytes one by one, and their number.
Units(f, S) == UNION {{r} \X (1 .. f[r]) : r \in S}
Count(f, S) == Cardinality(Units(f, S))

Naturally(f, S) == IsFiniteSet(S) /\ \A r \in S : f[r] \in Nat

\* A finite set of numbers has finitely many units.
LEMMA UnitsFinite ==
  ASSUME NEW f, NEW S, Naturally(f, S)
  PROVE  IsFiniteSet(Units(f, S)) /\ Count(f, S) \in Nat
<1> DEFINE h == [r \in S |-> {r} \X (1 .. f[r])]
           T == {{r} \X (1 .. f[r]) : r \in S}
<1>1. h \in Surjection(S, T)
  BY DEF Surjection
<1>2. IsFiniteSet(T)
  <2> HIDE DEF h, T
  <2> QED
    BY <1>1, FS_Surjection DEF Naturally
<1>3. ASSUME NEW t \in T PROVE IsFiniteSet(t)
  <2>1. PICK r \in S : t = {r} \X (1 .. f[r])
    OBVIOUS
  <2>2. IsFiniteSet({r})
    BY FS_Singleton
  <2>3. IsFiniteSet(1 .. f[r])
    BY FS_Interval DEF Naturally
  <2>4. QED
    BY <2>1, <2>2, <2>3, FS_Product
<1>4. IsFiniteSet(UNION T)
  <2> HIDE DEF T
  <2> QED
    BY <1>2, <1>3, FS_UNION
<1>5. QED
  BY <1>4, FS_CardinalityType DEF Units, Count

\* Disjoint sets count separately.
LEMMA CountSplit ==
  ASSUME NEW f, NEW S, NEW T, Naturally(f, S \cup T), S \cap T = {}
  PROVE  Count(f, S \cup T) = Count(f, S) + Count(f, T)
<1>0. Naturally(f, S) /\ Naturally(f, T)
  BY FS_Subset DEF Naturally
<1>1. Units(f, S \cup T) = Units(f, S) \cup Units(f, T)
  BY DEF Units
<1>2. Units(f, S) \cap Units(f, T) = {}
  BY DEF Units
<1>3. IsFiniteSet(Units(f, S)) /\ IsFiniteSet(Units(f, T))
  BY <1>0, UnitsFinite
<1>4. Count(f, S) \in Nat /\ Count(f, T) \in Nat
  BY <1>0, UnitsFinite
<1>5. PICK A, B : A = Units(f, S) /\ B = Units(f, T)
  OBVIOUS
<1>6. Cardinality(A \cap B) = 0
  BY <1>2, <1>5, FS_EmptySet
<1>7. Cardinality(A \cup B) = Cardinality(A) + Cardinality(B) - Cardinality(A \cap B)
  BY <1>3, <1>5, FS_Union
<1>8. Cardinality(A \cup B) = Cardinality(A) + Cardinality(B)
  BY <1>4, <1>5, <1>6, <1>7 DEF Count
<1>9. QED
  BY <1>1, <1>5, <1>8 DEF Count

LEMMA CountOne ==
  ASSUME NEW f, NEW x, f[x] \in Nat
  PROVE  Count(f, {x}) = f[x]
<1>1. Units(f, {x}) = {x} \X (1 .. f[x])
  BY DEF Units
<1>2. IsFiniteSet({x}) /\ Cardinality({x}) = 1
  BY FS_Singleton
<1>3. IsFiniteSet(1 .. f[x]) /\ Cardinality(1 .. f[x]) = f[x]
  <2>1. PICK n \in Nat : n = f[x]
    OBVIOUS
  <2>2. IsFiniteSet(1 .. n) /\ Cardinality(1 .. n) = IF 1 > n THEN 0 ELSE n - 1 + 1
    BY FS_Interval
  <2>3. Cardinality(1 .. n) = n
    BY <2>2
  <2>4. QED
    BY <2>1, <2>2, <2>3
<1>4. Cardinality({x} \X (1 .. f[x])) = Cardinality({x}) * Cardinality(1 .. f[x])
  BY <1>2, <1>3, FS_Product
<1>5. 1 * f[x] = f[x]
  OBVIOUS
<1>6. QED
  BY <1>1, <1>2, <1>3, <1>4, <1>5 DEF Count

LEMMA CountNone == \A f : Count(f, {}) = 0
  BY FS_EmptySet DEF Count, Units

\* More terms, or larger ones, count for more.
LEMMA CountLess ==
  ASSUME NEW f, NEW g, NEW S, NEW T, Naturally(f, S), Naturally(g, T), S \subseteq T,
         \A r \in S : f[r] <= g[r]
  PROVE  Count(f, S) <= Count(g, T)
<1>1. Units(f, S) \subseteq Units(g, T)
  <2> SUFFICES ASSUME NEW u \in Units(f, S) PROVE u \in Units(g, T)
    OBVIOUS
  <2>1. PICK r \in S : u \in {r} \X (1 .. f[r])
    BY DEF Units
  <2>2. 1 .. f[r] \subseteq 1 .. g[r]
    BY DEF Naturally
  <2>3. QED
    BY <2>1, <2>2 DEF Units
<1>2. QED
  BY <1>1, UnitsFinite, FS_Subset DEF Count

Some(s) == CHOOSE x \in s : TRUE
Unrolls(f, g, S) == g = [s \in SUBSET S |-> IF s = {} THEN 0 ELSE f[Some(s)] + g[s \ {Some(s)}]]

\* Counting satisfies the recursion that a sum is defined by ...
LEMMA CountUnrolls ==
  ASSUME NEW f, NEW S, Naturally(f, S)
  PROVE  Unrolls(f, [s \in SUBSET S |-> Count(f, s)], S)
<1> DEFINE g == [s \in SUBSET S |-> Count(f, s)]
<1>1. ASSUME NEW s \in SUBSET S, s # {} PROVE g[s] = f[Some(s)] + g[s \ {Some(s)}]
  <2>1. PICK x : x = Some(s)
    OBVIOUS
  <2>2. x \in s
    BY <1>1, <2>1 DEF Some
  <2>3. Naturally(f, s) /\ f[x] \in Nat
    BY <2>2, FS_Subset DEF Naturally
  <2>4. s = {x} \cup (s \ {x}) /\ {x} \cap (s \ {x}) = {}
    BY <2>2
  <2>5. Count(f, s) = Count(f, {x}) + Count(f, s \ {x})
    BY <2>3, <2>4, CountSplit
  <2>6. Count(f, {x}) = f[x]
    BY <2>3, CountOne
  <2>7. QED
    BY <2>1, <2>5, <2>6
<1>2. g[{}] = 0
  BY CountNone
<1>3. QED
  BY <1>1, <1>2 DEF Unrolls

\* ... and nothing else does: a smallest set on which another function differed
\* from the count would have a smaller one.
LEMMA UnrollsCount ==
  ASSUME NEW f, NEW S, Naturally(f, S), NEW g, Unrolls(f, g, S)
  PROVE  \A s \in SUBSET S : g[s] = Count(f, s)
<1> DEFINE Bad == {s \in SUBSET S : g[s] # Count(f, s)}
           N == {Cardinality(s) : s \in Bad}
           R == OpToRel(<, Nat)
<1> SUFFICES ASSUME Bad # {} PROVE FALSE
  OBVIOUS
<1>1. \A s \in SUBSET S : IsFiniteSet(s) /\ Cardinality(s) \in Nat
  BY FS_Subset, FS_CardinalityType DEF Naturally
<1>2. N \subseteq Nat /\ N # {}
  BY <1>1
<1>3. PICK n \in N : \A m \in N : ~(<<m, n>> \in R)
  <2> HIDE DEF R, N
  <2> QED
    BY <1>2, NatLessThanWellFounded, WFMin DEF R
<1>4. \A m \in N : ~(m < n)
  BY <1>2, <1>3 DEF OpToRel
<1>5. PICK s \in Bad : n = Cardinality(s)
  OBVIOUS
<1>6. s # {}
  BY <1>5, CountNone DEF Unrolls
<1>7. PICK x : x = Some(s)
  OBVIOUS
<1>8. x \in s
  BY <1>6, <1>7 DEF Some
<1>9. g[s] = f[x] + g[s \ {x}]
  BY <1>6, <1>7 DEF Unrolls
<1>10. Cardinality(s \ {x}) < n
  BY <1>1, <1>5, <1>8, FS_RemoveElement
<1>11. g[s \ {x}] = Count(f, s \ {x})
  BY <1>4, <1>10
<1>12. Naturally(f, s) /\ f[x] \in Nat /\ s = {x} \cup (s \ {x}) /\ {x} \cap (s \ {x}) = {}
  BY <1>1, <1>8 DEF Naturally
<1>13. Count(f, s) = Count(f, {x}) + Count(f, s \ {x})
  BY <1>12, CountSplit
<1>14. Count(f, {x}) = f[x]
  BY <1>12, CountOne
<1>15. QED
  BY <1>9, <1>11, <1>13, <1>14

LEMMA SumUnfolds ==
  ASSUME NEW f, NEW S
  PROVE  SumFunctionOnSet(f, S) = (CHOOSE g : Unrolls(f, g, S))[S]
BY DEF SumFunctionOnSet, FoldFunctionOnSet, MapThenFoldSet, Unrolls, Some

\* So a sum of natural numbers over a finite set is the number of their units.
LEMMA SumIsCount ==
  ASSUME NEW f, NEW S, Naturally(f, S)
  PROVE  SumFunctionOnSet(f, S) = Count(f, S)
<1>1. PICK g : g = CHOOSE h : Unrolls(f, h, S)
  OBVIOUS
<1>2. Unrolls(f, g, S)
  <2>1. \E h : Unrolls(f, h, S)
    BY CountUnrolls
  <2>2. QED
    BY <1>1, <2>1
<1>3. g[S] = Count(f, S)
  BY <1>2, UnrollsCount
<1>4. QED
  BY <1>1, <1>3, SumUnfolds

-----------------------------------------------------------------------------
(* What is used of a sum below: its type, how it splits, that it grows     *)
(* with its terms, and what it becomes when one of them changes.           *)

LEMMA SumType ==
  ASSUME NEW f, NEW S, Naturally(f, S)
  PROVE  SumFunctionOnSet(f, S) \in Nat
BY SumIsCount, UnitsFinite

LEMMA SumSplit ==
  ASSUME NEW f, NEW S, NEW T, Naturally(f, S \cup T), S \cap T = {}
  PROVE  SumFunctionOnSet(f, S \cup T) = SumFunctionOnSet(f, S) + SumFunctionOnSet(f, T)
<1>1. Naturally(f, S) /\ Naturally(f, T)
  BY FS_Subset DEF Naturally
<1>2. QED
  BY <1>1, SumIsCount, CountSplit

LEMMA SumWithout ==
  ASSUME NEW f, NEW S, NEW x \in S, Naturally(f, S)
  PROVE  SumFunctionOnSet(f, S) = f[x] + SumFunctionOnSet(f, S \ {x})
<1>1. S = {x} \cup (S \ {x}) /\ {x} \cap (S \ {x}) = {}
  OBVIOUS
<1>2. Naturally(f, {x}) /\ f[x] \in Nat
  BY FS_Singleton DEF Naturally
<1>3. SumFunctionOnSet(f, {x}) = f[x]
  BY <1>2, SumIsCount, CountOne
<1>4. SumFunctionOnSet(f, S) = SumFunctionOnSet(f, {x}) + SumFunctionOnSet(f, S \ {x})
  BY <1>1, SumSplit
<1>5. QED
  BY <1>3, <1>4

LEMMA SumLess ==
  ASSUME NEW f, NEW g, NEW S, NEW T, Naturally(f, S), Naturally(g, T), S \subseteq T,
         \A r \in S : f[r] <= g[r]
  PROVE  SumFunctionOnSet(f, S) <= SumFunctionOnSet(g, T)
BY SumIsCount, CountLess

LEMMA SumSame ==
  ASSUME NEW f, NEW g, NEW S, Naturally(f, S), \A r \in S : f[r] = g[r]
  PROVE  SumFunctionOnSet(f, S) = SumFunctionOnSet(g, S)
<1>1. Naturally(g, S)
  BY DEF Naturally
<1>2. Units(f, S) = Units(g, S)
  BY DEF Units
<1>3. QED
  BY <1>1, <1>2, SumIsCount DEF Count

\* One term changes, and the rest of the sum stays.
LEMMA SumExcept ==
  ASSUME NEW f, NEW g, NEW S, NEW x \in S, Naturally(f, S), Naturally(g, S),
         \A r \in S \ {x} : g[r] = f[r]
  PROVE  \E h \in Nat : /\ SumFunctionOnSet(f, S) = f[x] + h
                        /\ SumFunctionOnSet(g, S) = g[x] + h
<1>1. PICK T : T = S \ {x}
  OBVIOUS
<1>2. Naturally(f, T)
  BY <1>1, FS_Subset DEF Naturally
<1>3. SumFunctionOnSet(f, T) \in Nat
  BY <1>2, SumType
<1>4. SumFunctionOnSet(f, T) = SumFunctionOnSet(g, T)
  BY <1>1, <1>2, SumSame
<1>5. SumFunctionOnSet(f, S) = f[x] + SumFunctionOnSet(f, T)
  BY <1>1, SumWithout
<1>6. SumFunctionOnSet(g, S) = g[x] + SumFunctionOnSet(g, T)
  BY <1>1, SumWithout
<1>7. QED
  BY <1>3, <1>4, <1>5, <1>6

LEMMA SumZero ==
  ASSUME NEW f, NEW S, IsFiniteSet(S), \A r \in S : f[r] = 0
  PROVE  SumFunctionOnSet(f, S) = 0
<1>1. Naturally(f, S)
  BY DEF Naturally
<1>2. Units(f, S) = {}
  <2> SUFFICES ASSUME NEW u \in Units(f, S) PROVE FALSE
    OBVIOUS
  <2>1. PICK r \in S : u \in {r} \X (1 .. f[r])
    BY DEF Units
  <2>2. 1 .. f[r] = {}
    OBVIOUS
  <2>3. QED
    BY <2>1, <2>2
<1>3. QED
  BY <1>1, <1>2, SumIsCount, FS_EmptySet DEF Count

LEMMA SumAll == \A f : SumFunction(f) = SumFunctionOnSet(f, DOMAIN f)
BY DEF SumFunction

-----------------------------------------------------------------------------
(* What makes the two sums inductive: what the meter holds back for a      *)
(* request at each step of its handler, and that charging it costs no more *)
(* than was held back.                                                     *)

MeterShape ==
  /\ size \in [Requests -> Nat]
  /\ chunked \subseteq Requests
  /\ reserved \in [Requests -> Nat]
  /\ queue \subseteq Requests
  /\ lent \subseteq Requests \X Requests
  /\ \A r \in Requests : done[r].bytes \in Nat

\* The bytes the handlers of one outcome have found.
BytesOf(outcome) == SumFunction([r \in With(outcome) |-> done[r].bytes])

\* From its admission to its settlement a request has reserved what it declared,
\* if it declared anything.
Meters(r) ==
  /\ pc[r] = "start" => reserved[r] = 0
  /\ stack # "leases" /\ pc[r] \in {"put", "get", "lease", "ack", "held", "settle"}
       => reserved[r] = Reserve(r)
  /\ stack # "leases" /\ pc[r] = "answer" => reserved[r] = 0
  /\ stack # "leases" /\ pc[r] = "end" => reserved[r] = 0 \/ Overruled(r)
  /\ pc[r] = "put" => op[r] = "put"
  /\ pc[r] = "held" => done[r].outcome = "empty"
  /\ done[r].outcome = "accepted" => op[r] = "put"
  /\ done[r].outcome = "acknowledged" => done[r].bytes = 0

\* The bytes charged for that nothing had been reserved for.
Overrun == Total(chunked \cap Charged)

Covered == stack # "leases" => Used + Held <= Quota + Overrun
Moved == Total(Stored \ queue) <= BytesOf("delivered")

MeterInv ==
  /\ MeterShape
  /\ \A r \in Requests : Meters(r)
  /\ Covered
  /\ Moved

-----------------------------------------------------------------------------
(* The invariant gives the properties.                                     *)

\* What the authoriser has been told of a request, if anything.
LEMMA ToldOrNot ==
  ASSUME SettleInv, NEW r \in Requests
  PROVE  \/ ledger[r] = <<>>
         \/ stack # "leases" /\ ledger[r] = <<done[r]>> /\ Known(r)
BY DEF SettleInv, Shapes, Fits, Steps, Starting, Working, Settling, Answering, Ended, Told

\* What has been settled is what the handler had found.
LEMMA SettledAre ==
  ASSUME SettleInv, NEW o, NEW r \in Settled(o)
  PROVE  /\ r \in With(o) /\ Known(r)
         /\ ledger[r] = <<done[r]>> /\ ledger[r][1] = done[r]
<1>0. r \in Requests
  BY DEF Settled
<1>1. ledger[r] # <<>>
  BY DEF Settled
<1>2. ledger[r] = <<done[r]>> /\ Known(r)
  BY <1>0, <1>1, ToldOrNot
<1>3. DOMAIN ledger[r] = {1} /\ ledger[r][1] = done[r]
  BY <1>2
<1>4. done[r].outcome = o
  BY <1>3 DEF Settled
<1>5. QED
  BY <1>0, <1>2, <1>3, <1>4 DEF With

LEMMA ChargedAre ==
  ASSUME SettleInv
  PROVE  /\ Charged \subseteq Stored
         /\ \A r \in Charged : ledger[r][1].bytes = size[r]
         /\ \A r \in Requests : ledger[r] = <<>> => r \notin Charged
<1>1. ASSUME NEW r \in Requests, ledger[r] = <<>> PROVE r \notin Charged
  <2>1. DOMAIN ledger[r] = {}
    BY <1>1
  <2>2. QED
    BY <2>1 DEF Charged, Settled
<1>2. ASSUME NEW r \in Charged PROVE r \in Stored /\ ledger[r][1].bytes = size[r]
  <2>1. r \in With("accepted") /\ Known(r) /\ ledger[r][1] = done[r]
    BY SettledAre DEF Charged
  <2>2. done[r].bytes = size[r]
    BY <2>1 DEF Known, With
  <2>3. QED
    BY <2>1, <2>2 DEF Stored
<1>3. QED
  BY <1>1, <1>2

\* A message that is stored and not charged for is on its way to be settled, and
\* what it declared is held back.
LEMMA UnchargedAre ==
  ASSUME SettleInv, MeterInv, stack # "leases", NEW r \in Stored \ (Charged \cup chunked)
  PROVE  size[r] <= reserved[r]
<1>0. r \in Requests /\ done[r].outcome = "accepted"
  BY DEF Stored, With
<1>1. pc[r] \in {"held", "settle"}
  <2>1. done[r] # Nothing
    BY <1>0, NothingIsUnknown
  <2>2. ASSUME Told(r) PROVE FALSE
    <3>1. ledger[r] = <<done[r]>>
      BY <2>2 DEF Told
    <3>2. 1 \in DOMAIN ledger[r] /\ ledger[r][1] = done[r]
      BY <3>1
    <3>3. QED
      BY <1>0, <3>2 DEF Charged, Settled
  <2>3. Fits(r) /\ pc[r] \in Steps
    BY <1>0 DEF SettleInv, Shapes
  <2>4. QED
    BY <2>1, <2>2, <2>3 DEF Fits, Steps, Starting, Working, Answering, Ended
<1>2. reserved[r] = size[r] + 1 /\ size[r] \in Nat
  BY <1>0, <1>1 DEF MeterInv, Meters, Reserve, Declared, MeterShape
<1>3. QED
  BY <1>2

LEMMA SizesAdd ==
  ASSUME MeterShape
  PROVE  \A S \in SUBSET Requests : Naturally(size, S) /\ Naturally(reserved, S)
BY FS_Subset, RequestAssumption DEF MeterShape, Naturally

LEMMA HeldIs == MeterShape => Held = SumFunctionOnSet(reserved, Requests)
BY SumAll DEF MeterShape, Held

LEMMA UsedIsTotal == SettleInv /\ MeterShape => Used = Total(Charged) /\ Used \in Nat
<1> SUFFICES ASSUME SettleInv, MeterShape PROVE Used = Total(Charged) /\ Used \in Nat
  OBVIOUS
<1> DEFINE f == [r \in Charged |-> ledger[r][1].bytes]
<1>1. Charged \subseteq Requests
  BY DEF Charged, Settled
<1>2. Naturally(size, Charged)
  BY <1>1, SizesAdd
<1>3. DOMAIN f = Charged /\ \A r \in Charged : size[r] = f[r]
  BY ChargedAre
<1>4. Used = SumFunction(f)
  BY DEF Used, SettledBytes, Charged
<1> HIDE DEF f
<1>5. Used = SumFunctionOnSet(f, Charged)
  BY <1>3, <1>4, SumAll
<1>6. SumFunctionOnSet(size, Charged) = SumFunctionOnSet(f, Charged)
  BY <1>2, <1>3, SumSame
<1>7. QED
  BY <1>2, <1>5, <1>6, SumType DEF Total

LEMMA OverrunIs ==
  SettleInv /\ MeterShape =>
    /\ Overrun \in Nat
    /\ Stored \cap chunked \cap Charged = chunked \cap Charged
<1> SUFFICES ASSUME SettleInv, MeterShape
             PROVE  /\ Overrun \in Nat
                    /\ Stored \cap chunked \cap Charged = chunked \cap Charged
  OBVIOUS
<1>1. Naturally(size, chunked \cap Charged)
  BY SizesAdd DEF MeterShape
<1>2. Overrun \in Nat
  BY <1>1, SumType DEF Overrun, Total
<1>3. QED
  BY <1>2, ChargedAre

\* The messages stored are those charged for, those declared and held back for,
\* and those undeclared and not charged for yet.
LEMMA InvIsCovered == SettleInv /\ MeterInv => StoredIsCovered
<1> SUFFICES ASSUME SettleInv, MeterInv, stack # "leases"
             PROVE  /\ Total(Stored \ (Stored \cap chunked)) + Total(Stored \cap chunked \cap Charged)
                         <= Used + Held
                    /\ Used + Held <= Quota + Total(Stored \cap chunked \cap Charged)
  BY DEF StoredIsCovered
<1>0. MeterShape
  BY DEF MeterInv
<1>1. PICK A, B, C, D :
        /\ A = Stored \ (Stored \cap chunked) /\ D = chunked \cap Charged
        /\ B = A \cap Charged /\ C = A \ Charged
  OBVIOUS
<1>2. Overrun \in Nat /\ Stored \cap chunked \cap Charged = D
  BY <1>0, <1>1, OverrunIs
<1>3. /\ A = B \cup C /\ B \cap C = {} /\ Charged = B \cup D /\ B \cap D = {}
      /\ A \subseteq Requests /\ Charged \subseteq Requests
  BY <1>1, ChargedAre DEF Stored, With
<1>4. /\ Naturally(size, A) /\ Naturally(size, Charged)
      /\ Naturally(size, B) /\ Naturally(size, C) /\ Naturally(size, D)
      /\ Naturally(reserved, Requests)
  BY <1>0, <1>3, SizesAdd
<1>5. SumFunctionOnSet(size, A) = SumFunctionOnSet(size, B) + SumFunctionOnSet(size, C)
  BY <1>3, <1>4, SumSplit
<1>6. SumFunctionOnSet(size, Charged) = SumFunctionOnSet(size, B) + SumFunctionOnSet(size, D)
  BY <1>3, <1>4, SumSplit
<1>7. SumFunctionOnSet(size, C) <= SumFunctionOnSet(reserved, Requests)
  <2>1. \A r \in C : size[r] <= reserved[r]
    BY <1>1, UnchargedAre
  <2>2. QED
    BY <1>3, <1>4, <2>1, SumLess
<1>8. Used = SumFunctionOnSet(size, Charged)
  BY <1>0, UsedIsTotal DEF Total
<1>9. Held = SumFunctionOnSet(reserved, Requests)
  BY <1>0, HeldIs
<1>10. /\ SumFunctionOnSet(size, B) \in Nat /\ SumFunctionOnSet(size, C) \in Nat
       /\ SumFunctionOnSet(size, D) \in Nat /\ SumFunctionOnSet(reserved, Requests) \in Nat
  BY <1>4, SumType
<1>11. Total(A) + Total(D) <= Used + Held
  BY <1>5, <1>6, <1>7, <1>8, <1>9, <1>10 DEF Total
<1>12. Used + Held <= Quota + Total(D)
  BY <1>1 DEF MeterInv, Covered, Overrun
<1>13. QED
  BY <1>1, <1>2, <1>11, <1>12

\* The bytes of one outcome, as a sum over the requests that had it.
LEMMA BytesAre ==
  ASSUME NEW o
  PROVE  BytesOf(o) = SumFunctionOnSet([r \in With(o) |-> done[r].bytes], With(o))
BY SumAll DEF BytesOf

LEMMA SettledBytesAre ==
  ASSUME SettleInv, NEW o
  PROVE  SettledBytes(o) = SumFunctionOnSet([r \in Settled(o) |-> done[r].bytes], Settled(o))
<1> DEFINE f == [r \in Settled(o) |-> ledger[r][1].bytes]
           g == [r \in Settled(o) |-> done[r].bytes]
<1>1. f = g
  BY SettledAre
<1>2. SettledBytes(o) = SumFunction(f)
  BY DEF SettledBytes
<1>3. DOMAIN g = Settled(o)
  OBVIOUS
<1> HIDE DEF f, g
<1>4. SettledBytes(o) = SumFunctionOnSet(g, Settled(o))
  BY <1>1, <1>2, <1>3, SumAll
<1>5. QED
  BY <1>4 DEF g

\* What has been delivered has been settled, or a handler has it in hand.
LEMMA DeliveredIs ==
  ASSUME SettleInv, MeterShape
  PROVE  BytesOf("delivered") = SettledBytes("delivered") + InHand
<1> DEFINE W == With("delivered")
           S == Settled("delivered")
           f == [r \in W |-> done[r].bytes]
           g == [r \in S |-> done[r].bytes]
           h == [r \in W \ S |-> done[r].bytes]
<1>1. S \subseteq W /\ W \subseteq Requests
  BY SettledAre DEF With
<1>2. W = S \cup (W \ S) /\ S \cap (W \ S) = {}
  BY <1>1
<1>3. Naturally(f, W)
  BY <1>1, FS_Subset, RequestAssumption DEF MeterShape, Naturally
<1>4. BytesOf("delivered") = SumFunctionOnSet(f, W)
  BY BytesAre
<1>5. SettledBytes("delivered") = SumFunctionOnSet(g, S)
  BY SettledBytesAre
<1>6. InHand = SumFunctionOnSet(h, W \ S)
  <2>1. InHand = SumFunction(h) /\ DOMAIN h = W \ S
    BY DEF InHand
  <2> HIDE DEF h, W, S
  <2>2. QED
    BY <2>1, SumAll
<1>7. (\A r \in S : f[r] = g[r]) /\ (\A r \in W \ S : f[r] = h[r])
  BY <1>1
<1>8. Naturally(f, S) /\ Naturally(f, W \ S)
  BY <1>1, <1>3, FS_Subset DEF Naturally
<1> HIDE DEF f, g, h, W, S
<1>9. SumFunctionOnSet(f, W) = SumFunctionOnSet(f, S) + SumFunctionOnSet(f, W \ S)
  <2>1. PICK T : T = W \ S
    OBVIOUS
  <2>2. Naturally(f, S \cup T) /\ S \cap T = {} /\ W = S \cup T
    BY <1>2, <1>3, <2>1
  <2>3. QED
    BY <2>1, <2>2, SumSplit
<1>10. SumFunctionOnSet(f, S) = SumFunctionOnSet(g, S)
  BY <1>7, <1>8, SumSame
<1>11. SumFunctionOnSet(f, W \ S) = SumFunctionOnSet(h, W \ S)
  BY <1>7, <1>8, SumSame
<1>12. QED
  BY <1>4, <1>5, <1>6, <1>9, <1>10, <1>11

LEMMA InvIsMoved == SettleInv /\ MeterInv => BytesWhereTheyMove
<1> SUFFICES ASSUME SettleInv, MeterInv
             PROVE  /\ Used + Total(Stored \ Charged) = Total(Stored)
                    /\ Total(Stored \ queue) <= SettledBytes("delivered") + InHand
                    /\ SettledBytes("acknowledged") = 0
  BY DEF BytesWhereTheyMove
<1>0. MeterShape /\ Moved
  BY DEF MeterInv
<1>1. Used + Total(Stored \ Charged) = Total(Stored)
  <2>1. PICK B : B = Stored \ Charged
    OBVIOUS
  <2>2. Stored = Charged \cup B /\ Charged \cap B = {} /\ Stored \subseteq Requests
    BY <2>1, ChargedAre DEF Stored, With
  <2>3. Naturally(size, Charged \cup B)
    BY <1>0, <2>2, SizesAdd
  <2>4. SumFunctionOnSet(size, Charged \cup B)
          = SumFunctionOnSet(size, Charged) + SumFunctionOnSet(size, B)
    BY <2>2, <2>3, SumSplit
  <2>5. Used = SumFunctionOnSet(size, Charged)
    BY <1>0, UsedIsTotal DEF Total
  <2>6. QED
    BY <2>1, <2>2, <2>4, <2>5 DEF Total
<1>2. Total(Stored \ queue) <= SettledBytes("delivered") + InHand
  BY <1>0, DeliveredIs DEF Moved
<1>3. SettledBytes("acknowledged") = 0
  <2> DEFINE S == Settled("acknowledged")
             f == [r \in S |-> done[r].bytes]
  <2>1. IsFiniteSet(S)
    BY FS_Subset, RequestAssumption DEF Settled
  <2>2. \A r \in S : f[r] = 0
    BY SettledAre DEF MeterInv, Meters, With
  <2>3. SettledBytes("acknowledged") = SumFunctionOnSet(f, S)
    BY SettledBytesAre
  <2> HIDE DEF f, S
  <2>4. QED
    BY <2>1, <2>2, <2>3, SumZero
<1>4. QED
  BY <1>1, <1>2, <1>3

-----------------------------------------------------------------------------
(* The invariant is kept.                                                  *)

LEMMA UsedIsTotalNext == SettleInv' /\ MeterShape' => (Used = Total(Charged) /\ Used \in Nat)'
BY UsedIsTotal, PTL

LEMMA OthersMeter ==
  ASSUME MeterInv, NEW r \in Requests, Others(r), Meters(r)',
         \A s \in Requests \ {r} : reserved'[s] = reserved[s]
  PROVE  \A s \in Requests : Meters(s)'
<1>1. ASSUME NEW s \in Requests \ {r} PROVE Meters(s)'
  <2>1. Meters(s)
    BY DEF MeterInv
  <2>2. /\ pc'[s] = pc[s] /\ done'[s] = done[s] /\ reserved'[s] = reserved[s]
        /\ stack' = stack /\ op' = op /\ size' = size /\ chunked' = chunked
        /\ status'[s] = status[s] /\ (s \in admitted' <=> s \in admitted)
    BY DEF Others
  <2>3. Overruled(s)' <=> Overruled(s)
    BY <2>2 DEF Overruled
  <2>4. QED
    BY <2>1, <2>2, <2>3 DEF Meters, Reserve, Declared
<1>2. QED
  BY <1>1

\* What one outcome has moved, when nobody has it anew and when a request does.
LEMMA BytesStay ==
  ASSUME NEW o, With(o)' = With(o), \A s \in With(o) : done'[s] = done[s]
  PROVE  BytesOf(o)' = BytesOf(o)
<1>1. [s \in With(o) |-> done[s].bytes]' = [s \in With(o) |-> done[s].bytes]
  OBVIOUS
<1>2. QED
  BY <1>1 DEF BytesOf

LEMMA BytesGain ==
  ASSUME MeterShape, NEW o, NEW r \in Requests, r \notin With(o), With(o)' = With(o) \cup {r},
         \A s \in With(o) : done'[s] = done[s], done'[r].bytes \in Nat
  PROVE  /\ BytesOf(o)' = done'[r].bytes + BytesOf(o)
         /\ BytesOf(o) \in Nat
<1>0. PICK W : W = With(o)
  OBVIOUS
<1>1. PICK f : f = [s \in W |-> done[s].bytes]
  OBVIOUS
<1>2. PICK g : g = [s \in W \cup {r} |-> done'[s].bytes]
  OBVIOUS
<1>3. BytesOf(o) = SumFunction(f) /\ BytesOf(o)' = SumFunction(g)
  BY <1>0, <1>1, <1>2 DEF BytesOf
<1>4. DOMAIN f = W /\ DOMAIN g = W \cup {r} /\ g[r] = done'[r].bytes /\ \A s \in W : g[s] = f[s]
  BY <1>0, <1>1, <1>2
<1>5. W \cup {r} \subseteq Requests /\ r \notin W
  BY <1>0 DEF With
<1>6. Naturally(f, W) /\ Naturally(g, W \cup {r})
  <2>1. IsFiniteSet(W) /\ IsFiniteSet(W \cup {r})
    BY <1>5, FS_Subset, RequestAssumption
  <2>2. \A s \in W : f[s] \in Nat /\ g[s] \in Nat
    BY <1>1, <1>4, <1>5 DEF MeterShape
  <2>3. QED
    BY <1>4, <2>1, <2>2 DEF Naturally
<1>7. (W \cup {r}) \ {r} = W
  BY <1>5
<1>8. SumFunctionOnSet(g, W \cup {r}) = g[r] + SumFunctionOnSet(g, W)
  BY <1>6, <1>7, SumWithout
<1>9. SumFunctionOnSet(f, W) = SumFunctionOnSet(g, W)
  BY <1>4, <1>6, SumSame
<1>10. SumFunctionOnSet(f, W) \in Nat
  BY <1>6, SumType
<1>11. QED
  BY <1>3, <1>4, <1>8, <1>9, <1>10, SumAll

LEMMA DeliveredType == MeterShape => BytesOf("delivered") \in Nat
<1> DEFINE W == With("delivered")
           f == [r \in W |-> done[r].bytes]
<1> SUFFICES ASSUME MeterShape PROVE BytesOf("delivered") \in Nat
  OBVIOUS
<1>1. W \subseteq Requests
  BY DEF With
<1>2. Naturally(f, W)
  BY <1>1, FS_Subset, RequestAssumption DEF MeterShape, Naturally
<1>3. BytesOf("delivered") = SumFunctionOnSet(f, W)
  BY BytesAre
<1> HIDE DEF f, W
<1>4. QED
  BY <1>2, <1>3, SumType

\* A request that goes on with what it had found.
LEMMA MeterGo ==
  ASSUME SettleInv, MeterInv, SettleInv', NEW r \in Requests, Others(r), Meters(r)',
         \A s \in Requests \ {r} : reserved'[s] = reserved[s],
         reserved' \in [Requests -> Nat], UNCHANGED <<done, queue, lent>>, Covered'
  PROVE  MeterInv'
<1>1. UNCHANGED <<stack, size, op, chunked, done, queue, lent>>
  BY DEF Others
<1>2. MeterShape'
  BY <1>1 DEF MeterInv, MeterShape
<1>3. \A s \in Requests : Meters(s)'
  BY OthersMeter
<1>4. Stored' = Stored /\ With("delivered")' = With("delivered")
  BY <1>1 DEF Stored, With
<1>5. BytesOf("delivered")' = BytesOf("delivered")
  BY <1>1, <1>4, BytesStay
<1>6. Total(Stored \ queue)' = Total(Stored \ queue)
  BY <1>1, <1>4 DEF Total
<1>7. Moved'
  BY <1>5, <1>6 DEF MeterInv, Moved
<1>8. QED
  BY <1>2, <1>3, <1>7 DEF MeterInv

LEMMA CoveredStays ==
  Covered /\ UNCHANGED <<stack, size, chunked, ledger, reserved>> => Covered'
BY DEF Covered, Used, Overrun, Total, Charged, Settled, SettledBytes, Held

\* The requests that only move on: refused, admitted by an authorisation lease,
\* released, answered.
LEMMA MeterMoves ==
  ASSUME SettleInv, MeterInv, SettleInv', NEW r \in Requests,
         Refuse(r) \/ AdmitLease(r) \/ Released(r) \/ Answer(r)
  PROVE  MeterInv'
<1>0. Shapes /\ Meters(r) /\ Covered /\ MeterShape
  BY DEF SettleInv, MeterInv
<1>1. UNCHANGED <<stack, op, size, chunked, admitted, reserved, ledger, done, queue, lent>>
  BY DEF Refuse, AdmitLease, Released, Answer, request, meter, store
<1>2. Covered' /\ reserved' \in [Requests -> Nat]
  BY <1>0, <1>1, CoveredStays DEF MeterShape
<1>3. PICK step \in Steps :
        /\ Go(r, step)
        /\ \/ step = "end" /\ pc[r] \in {"start", "answer"}
           \/ step = "settle" /\ pc[r] = "held"
           \/ step = op[r] /\ stack = "leases"
  BY <1>0 DEF Refuse, AdmitLease, Released, Answer, Shapes, Steps
<1>4. pc'[r] = step /\ \A s \in Requests \ {r} : pc'[s] = pc[s]
  BY <1>0, <1>3, GoShape
<1>5. \A s \in Requests \ {r} : status'[s] = status[s]
  <2>1. UNCHANGED status \/ \E n : status' = [status EXCEPT ![r] = n]
    BY DEF Refuse, AdmitLease, Released, Answer
  <2>2. QED
    BY <1>0, <2>1, StatusShape
<1>6. Others(r)
  BY <1>1, <1>4, <1>5 DEF Others
<1>7. op[r] \in {"put", "get", "lease", "ack"}
  BY <1>0 DEF Shapes
<1>8. Meters(r)'
  BY <1>0, <1>1, <1>3, <1>4, <1>7 DEF Meters, Reserve, Declared
<1>9. QED
  BY <1>1, <1>2, <1>6, <1>8, MeterGo

\* What is held back, but for one request.
LEMMA HeldWithout ==
  ASSUME MeterShape, NEW r \in Requests, NEW n \in Nat,
         reserved' = [reserved EXCEPT ![r] = n]
  PROVE  /\ reserved' \in [Requests -> Nat] /\ reserved'[r] = n
         /\ \A s \in Requests \ {r} : reserved'[s] = reserved[s]
         /\ \E h \in Nat : Held = reserved[r] + h /\ Held' = n + h
<1>0. PICK f : f = reserved'
  OBVIOUS
<1>1. f \in [Requests -> Nat] /\ f[r] = n /\ \A s \in Requests \ {r} : f[s] = reserved[s]
  BY <1>0 DEF MeterShape
<1>2. Naturally(f, Requests) /\ Naturally(reserved, Requests)
  BY <1>1, RequestAssumption DEF MeterShape, Naturally
<1>3. PICK h \in Nat : /\ SumFunctionOnSet(reserved, Requests) = reserved[r] + h
                       /\ SumFunctionOnSet(f, Requests) = f[r] + h
  BY <1>1, <1>2, SumExcept
<1>4. Held = SumFunctionOnSet(reserved, Requests)
  BY HeldIs
<1>5. Held' = SumFunctionOnSet(f, Requests)
  BY <1>0, <1>1, SumAll DEF Held
<1>6. QED
  BY <1>0, <1>1, <1>3, <1>4, <1>5

\* A reservation is made only where it fits.
LEMMA MeterAdmit ==
  ASSUME SettleInv, MeterInv, SettleInv', NEW r \in Requests, Admit(r)
  PROVE  MeterInv'
<1>0. Shapes /\ Meters(r) /\ MeterShape
  BY DEF SettleInv, MeterInv
<1>1. /\ UNCHANGED <<stack, op, size, chunked, ledger, done, queue, lent>>
      /\ admitted' = admitted \cup {r} /\ pc[r] = "start"
      /\ reserved' = [reserved EXCEPT ![r] = Reserve(r)]
      /\ Reserve(r) = 0 \/ Used + Held + Reserve(r) <= Quota
  BY DEF Admit, request, store, Affordable
<1>2. Reserve(r) \in Nat
  BY <1>0 DEF MeterShape, Reserve, Declared
<1>3. PICK h \in Nat : Held = reserved[r] + h /\ Held' = Reserve(r) + h
  BY <1>0, <1>1, <1>2, HeldWithout
<1>4. /\ reserved' \in [Requests -> Nat] /\ reserved'[r] = Reserve(r)
      /\ \A s \in Requests \ {r} : reserved'[s] = reserved[s]
  BY <1>0, <1>1, <1>2, HeldWithout
<1>5. Used' = Used /\ Used \in Nat
  <2>1. Used' = Used
    BY <1>1 DEF Used, SettledBytes, Settled
  <2>2. QED
    BY <1>0, <2>1, UsedIsTotal
<1>6. reserved[r] = 0
  BY <1>0, <1>1 DEF Meters
<1>7. Covered'
  <2>1. Quota \in Nat /\ Overrun \in Nat
    BY <1>0, BoundAssumption, OverrunIs
  <2>2. Overrun' = Overrun
    BY <1>1 DEF Overrun, Total, Charged, Settled
  <2>3. stack # "leases" => Used + Held <= Quota + Overrun
    BY DEF MeterInv, Covered
  <2>4. stack # "leases" => Used' + Held' <= Quota + Overrun
    BY <1>1, <1>2, <1>3, <1>5, <1>6, <2>1, <2>3
  <2>5. QED
    BY <1>1, <2>2, <2>4 DEF Covered
<1>8. PICK step \in Steps :
        /\ Go(r, step)
        /\ \/ step = "end" /\ stack = "hosted" /\ status' = [status EXCEPT ![r] = 401]
           \/ step = op[r]
  BY <1>0 DEF Admit, Shapes, Steps
<1>9. pc'[r] = step /\ \A s \in Requests \ {r} : pc'[s] = pc[s]
  BY <1>0, <1>8, GoShape
<1>10. \A s \in Requests \ {r} : status'[s] = status[s]
  <2>1. UNCHANGED status \/ \E n : status' = [status EXCEPT ![r] = n]
    BY DEF Admit
  <2>2. QED
    BY <1>0, <2>1, StatusShape
<1>11. Others(r)
  BY <1>1, <1>9, <1>10 DEF Others
<1>12. op[r] \in {"put", "get", "lease", "ack"}
  BY <1>0 DEF Shapes
<1>13. Meters(r)'
  <2>1. ASSUME step = "end" PROVE Overruled(r)'
    <3>1. stack = "hosted" /\ status' = [status EXCEPT ![r] = 401]
      BY <1>8, <1>12, <2>1
    <3>2. Turned(status'[r])
      BY <1>0, <3>1, TurnedAway
    <3>3. done[r] = Nothing
      BY <1>1 DEF SettleInv, Fits, Starting
    <3>4. stack' = "hosted" /\ r \in admitted' /\ done'[r] = Nothing
      BY <1>1, <3>1, <3>3
    <3>5. QED
      BY <3>2, <3>4 DEF Overruled, Turned
  <2>2. QED
    BY <1>0, <1>1, <1>4, <1>8, <1>9, <1>12, <2>1 DEF Meters, Reserve, Declared
<1>14. QED
  BY <1>1, <1>4, <1>7, <1>11, <1>13, MeterGo

\* A settlement charges no more than it gives back and overruns the quota by.
LEMMA MeterSettle ==
  ASSUME SettleInv, MeterInv, SettleInv', NEW r \in Requests, Settle(r)
  PROVE  MeterInv'
<1>0. Shapes /\ Meters(r) /\ MeterShape /\ Covered /\ Settling(r) /\ pc[r] = "settle"
  BY DEF SettleInv, MeterInv, Settle, Fits
<1>1. UNCHANGED <<stack, op, size, chunked, admitted, status, done, queue, lent>> /\ Go(r, "answer")
  BY DEF Settle, request, store
<1>2. pc'[r] = "answer" /\ \A s \in Requests \ {r} : pc'[s] = pc[s]
  BY <1>0, <1>1, GoShape DEF Steps
<1>3. CASE stack = "leases"
  <2>1. UNCHANGED <<ledger, reserved>>
    BY <1>3 DEF Settle, Heard
  <2>2. Covered' /\ reserved' \in [Requests -> Nat]
    BY <1>0, <1>1, <2>1, CoveredStays DEF MeterShape
  <2>3. Others(r)
    BY <1>1, <1>2, <2>1 DEF Others
  <2>4. Meters(r)'
    BY <1>0, <1>1, <1>2, <1>3 DEF Meters
  <2>5. QED
    BY <1>1, <2>1, <2>2, <2>3, <2>4, MeterGo
<1>4. CASE stack # "leases"
  <2>1. /\ ledger' = [ledger EXCEPT ![r] = Append(@, done[r])]
        /\ reserved' = [reserved EXCEPT ![r] = 0]
    BY <1>4 DEF Settle, Heard
  <2>2. /\ ledger'[r] = <<done[r]>> /\ ledger[r] = <<>>
        /\ \A s \in Requests \ {r} : ledger'[s] = ledger[s]
    BY <1>0, <2>1, LedgerShape, OneEntry DEF Settling
  <2>3. PICK h \in Nat : Held = reserved[r] + h /\ Held' = 0 + h
    BY <1>0, <2>1, HeldWithout
  <2>4. /\ reserved' \in [Requests -> Nat] /\ reserved'[r] = 0
        /\ \A s \in Requests \ {r} : reserved'[s] = reserved[s]
    BY <1>0, <2>1, HeldWithout
  <2>5. reserved[r] = Reserve(r) /\ Reserve(r) \in Nat
    BY <1>0, <1>4 DEF Meters, MeterShape, Reserve, Declared
  <2>6. Used \in Nat /\ Used = SumFunctionOnSet(size, Charged)
    BY <1>0, UsedIsTotal DEF Total
  <2>7. /\ Used' \in Nat /\ Used' = SumFunctionOnSet(size, Charged')
        /\ Overrun \in Nat /\ Overrun' = SumFunctionOnSet(size, chunked \cap Charged')
    <3>1. MeterShape'
      BY <1>0, <1>1, <2>4 DEF MeterShape
    <3>2. QED
      BY <1>0, <1>1, <3>1, UsedIsTotalNext, OverrunIs DEF Total, Overrun
  <2>8. Overrun' \in Nat /\ Used' + Overrun <= Used + Reserve(r) + Overrun'
    <3>1. DOMAIN ledger'[r] = {1} /\ ledger'[r][1] = done[r] /\ r \notin Charged
      BY <2>2, ChargedAre
    <3>2. CASE done[r].outcome = "accepted"
      <4>1. Charged' = Charged \cup {r}
        BY <2>2, <3>1, <3>2 DEF Charged, Settled
      <4>2. PICK C, D : C = Charged' /\ D = chunked \cap Charged'
        OBVIOUS
      <4>3. /\ r \in C /\ C \ {r} = Charged
            /\ C \subseteq Requests /\ D \subseteq Requests
        BY <3>1, <4>1, <4>2 DEF Charged, Settled
      <4>4. Naturally(size, C) /\ Naturally(size, D) /\ size[r] \in Nat
        BY <1>0, <4>3, SizesAdd DEF MeterShape
      <4>5. SumFunctionOnSet(size, C) = size[r] + SumFunctionOnSet(size, C \ {r})
        BY <4>3, <4>4, SumWithout
      <4>6. Used' = size[r] + Used
        BY <2>6, <2>7, <4>2, <4>3, <4>5
      <4>7. op[r] = "put"
        BY <1>0, <3>2 DEF Meters
      <4>8. CASE r \in chunked
        <5>1. r \in D /\ D \ {r} = chunked \cap Charged
          BY <3>1, <4>1, <4>2, <4>8
        <5>2. SumFunctionOnSet(size, D) = size[r] + SumFunctionOnSet(size, D \ {r})
          BY <4>4, <5>1, SumWithout
        <5>3. Overrun' = size[r] + Overrun
          BY <2>7, <4>2, <5>1, <5>2 DEF Overrun, Total
        <5>4. QED
          BY <2>5, <2>6, <2>7, <4>4, <4>6, <5>3
      <4>9. CASE r \notin chunked
        <5>1. D = chunked \cap Charged
          BY <4>1, <4>2, <4>9
        <5>2. Overrun' = Overrun
          BY <2>7, <4>2, <5>1 DEF Overrun, Total
        <5>3. Reserve(r) = size[r] + 1
          BY <4>4, <4>7, <4>9 DEF Reserve, Declared
        <5>4. QED
          BY <2>6, <2>7, <4>4, <4>6, <5>2, <5>3
      <4>10. QED
        BY <4>8, <4>9
    <3>3. CASE done[r].outcome # "accepted"
      <4>1. r \notin Charged'
        BY <3>1, <3>3 DEF Charged, Settled
      <4>2. Charged' = Charged
        BY <2>2, <3>1, <4>1 DEF Charged, Settled
      <4>3. Overrun' = Overrun
        BY <2>7, <4>2 DEF Overrun, Total
      <4>4. QED
        BY <2>5, <2>6, <2>7, <4>2, <4>3
    <3>4. QED
      BY <3>2, <3>3
  <2>9. Covered'
    <3>1. Quota \in Nat /\ Used + Held <= Quota + Overrun
      BY <1>0, <1>4, BoundAssumption DEF Covered
    <3>2. Used' + Held' <= Quota + Overrun'
      BY <2>3, <2>5, <2>6, <2>7, <2>8, <3>1
    <3>3. QED
      BY <3>2 DEF Covered
  <2>10. Others(r)
    BY <1>1, <1>2, <2>2 DEF Others
  <2>11. Meters(r)'
    BY <1>0, <1>1, <1>2, <2>4 DEF Meters
  <2>12. QED
    BY <1>1, <2>4, <2>9, <2>10, <2>11, MeterGo
<1>5. QED
  BY <1>3, <1>4

LEMMA FoundFields ==
  ASSUME SettleInv, NEW r \in Requests, NEW o, NEW b, NEW m, Found(r, o, b, m)
  PROVE  /\ done'[r].outcome = o /\ done'[r].bytes = b
         /\ \A s \in Requests \ {r} : done'[s] = done[s]
<1>1. /\ done'[r] = [outcome |-> o, bytes |-> b, messages |-> m]
      /\ \A s \in Requests \ {r} : done'[s] = done[s]
  BY FoundShape DEF SettleInv
<1>2. QED
  BY <1>1

\* Who has which outcome, when a request that had none or was held finds one.
LEMMA FoundWith ==
  ASSUME SettleInv, MeterInv, NEW r \in Requests,
         pc[r] \in {"put", "get", "lease", "ack", "held"},
         NEW o, NEW b, NEW m, Found(r, o, b, m),
         NEW out \in {"accepted", "delivered"}
  PROVE  /\ r \notin With(out)
         /\ \A s \in With(out) : done'[s] = done[s]
         /\ o = out => With(out)' = With(out) \cup {r}
         /\ o # out => With(out)' = With(out)
<1>1. done[r].outcome \in {"none", "empty"}
  BY NothingIsUnknown DEF SettleInv, Fits, Working, MeterInv, Meters
<1>2. done'[r].outcome = o /\ \A s \in Requests \ {r} : done'[s] = done[s]
  BY FoundFields
<1>3. r \notin With(out) /\ \A s \in With(out) : done'[s] = done[s]
  BY <1>1, <1>2 DEF With
<1>4. QED
  BY <1>2, <1>3 DEF With

\* A message that is stored is in the queue, and nothing has left it.
LEMMA FoundNothingMoved ==
  ASSUME SettleInv, MeterInv, NEW r \in Requests,
         pc[r] \in {"put", "get", "lease", "ack", "held"},
         NEW o, NEW b, NEW m, Found(r, o, b, m), o # "delivered",
         UNCHANGED size,
         IF o = "accepted" THEN queue' = queue \cup {r} ELSE queue' = queue
  PROVE  Moved'
<1>0. MeterShape /\ Moved
  BY DEF MeterInv
<1>1. BytesOf("delivered")' = BytesOf("delivered")
  <2>1. With("delivered")' = With("delivered") /\ \A s \in With("delivered") : done'[s] = done[s]
    BY FoundWith
  <2>2. QED
    BY <2>1, BytesStay
<1>2. Stored' \ queue' = Stored \ queue \/ Stored' \ queue' = (Stored \ queue) \ {r}
  <2>1. /\ o = "accepted" => Stored' = Stored \cup {r}
        /\ o # "accepted" => Stored' = Stored
    BY FoundWith DEF Stored
  <2>2. QED
    BY <2>1
<1>3. PICK A, B : A = Stored' \ queue' /\ B = Stored \ queue
  OBVIOUS
<1>4. A \subseteq B /\ B \subseteq Requests
  BY <1>2, <1>3 DEF Stored, With
<1>5. Naturally(size, A) /\ Naturally(size, B)
  BY <1>0, <1>4, SizesAdd
<1>6. SumFunctionOnSet(size, A) <= SumFunctionOnSet(size, B)
  BY <1>4, <1>5, SumLess DEF Naturally
<1>7. SumFunctionOnSet(size, A) \in Nat /\ SumFunctionOnSet(size, B) \in Nat
  BY <1>5, SumType
<1>8. SumFunctionOnSet(size, B) <= BytesOf("delivered")
  BY <1>0, <1>3 DEF Moved, Total
<1>9. BytesOf("delivered") \in Nat
  BY <1>0, DeliveredType
<1>10. SumFunctionOnSet(size, A) <= BytesOf("delivered")'
  BY <1>1, <1>6, <1>7, <1>8, <1>9
<1>11. QED
  BY <1>3, <1>10 DEF Moved, Total

\* What a collection takes from the queue it settles as delivered.
LEMMA CollectMoved ==
  ASSUME SettleInv, MeterInv, NEW r \in Requests, pc[r] \in {"get", "lease", "held"},
         NEW b, b = Total(queue), NEW m, Found(r, "delivered", b, m), UNCHANGED size, queue' = {}
  PROVE  Moved'
<1>0. MeterShape /\ Moved
  BY DEF MeterInv
<1>1. Stored' = Stored
  BY FoundWith DEF Stored
<1>2. done'[r].bytes = b
  BY FoundFields
<1>3. queue \subseteq Requests /\ Stored \subseteq Requests
  BY <1>0 DEF MeterShape, Stored, With
<1>4. PICK A, B : A = Stored \ queue /\ B = Stored \cap queue
  OBVIOUS
<1>5. A \cup B = Stored /\ A \cap B = {} /\ B \subseteq queue
  BY <1>4
<1>6. Naturally(size, Stored) /\ Naturally(size, A) /\ Naturally(size, B) /\ Naturally(size, queue)
  BY <1>0, <1>3, <1>5, SizesAdd
<1>7. SumFunctionOnSet(size, Stored) = SumFunctionOnSet(size, A) + SumFunctionOnSet(size, B)
  BY <1>5, <1>6, SumSplit
<1>8. SumFunctionOnSet(size, B) <= b
  BY <1>5, <1>6, SumLess DEF Naturally, Total
<1>9. SumFunctionOnSet(size, A) \in Nat /\ SumFunctionOnSet(size, B) \in Nat /\ b \in Nat
  BY <1>6, SumType DEF Total
<1>10. BytesOf("delivered")' = b + BytesOf("delivered") /\ BytesOf("delivered") \in Nat
  <2>1. /\ r \notin With("delivered") /\ With("delivered")' = With("delivered") \cup {r}
        /\ \A s \in With("delivered") : done'[s] = done[s]
    BY FoundWith
  <2>2. QED
    BY <1>0, <1>2, <1>9, <2>1, BytesGain
<1>11. SumFunctionOnSet(size, A) <= BytesOf("delivered")
  BY <1>0, <1>4 DEF Moved, Total
<1>12. SumFunctionOnSet(size, Stored) <= BytesOf("delivered")'
  BY <1>7, <1>8, <1>9, <1>10, <1>11
<1>13. Stored' \ queue' = Stored
  BY <1>1
<1>14. QED
  BY <1>12, <1>13 DEF Moved, Total

\* Every action that finds something out.
LEMMA MeterFound ==
  ASSUME SettleInv, MeterInv, NEW r \in Requests,
         pc[r] \in {"put", "get", "lease", "ack", "held"},
         NEW step \in {"held", "settle"}, Go(r, step),
         NEW o, NEW b \in Nat, NEW m, Found(r, o, b, m),
         step = "held" => o = "empty",
         o = "accepted" => op[r] = "put", o = "acknowledged" => b = 0,
         UNCHANGED <<stack, op, size, chunked, admitted, reserved, ledger, status>>,
         queue' \subseteq Requests, lent' \subseteq Requests \X Requests, Moved'
  PROVE  MeterInv'
<1>0. Shapes /\ Meters(r) /\ MeterShape /\ Covered
  BY DEF SettleInv, MeterInv
<1>1. pc'[r] = step /\ \A s \in Requests \ {r} : pc'[s] = pc[s]
  BY <1>0, GoShape DEF Steps
<1>2. /\ done'[r].outcome = o /\ done'[r].bytes = b
      /\ \A s \in Requests \ {r} : done'[s] = done[s]
  BY FoundFields
<1>3. MeterShape'
  BY <1>0, <1>2 DEF MeterShape
<1>4. Others(r)
  BY <1>1, <1>2 DEF Others
<1>5. Meters(r)'
  BY <1>0, <1>1, <1>2 DEF Meters, Reserve, Declared
<1>6. \A s \in Requests : Meters(s)'
  BY <1>4, <1>5, OthersMeter
<1>7. Covered'
  BY <1>0, CoveredStays
<1>8. QED
  BY <1>3, <1>6, <1>7 DEF MeterInv

LEMMA MeterHandlers ==
  ASSUME SettleInv, MeterInv, NEW r \in Requests
  PROVE  /\ Reject(r) \/ PutFull(r) \/ Put(r) \/ Revoked(r) => MeterInv'
         /\ Get(r) \/ Woken(r) => MeterInv'
         /\ \A g \in Requests : Ack(r, g) => MeterInv'
<1>0. MeterShape /\ Meters(r)
  BY DEF MeterInv
<1>1. ASSUME Reject(r) \/ PutFull(r) PROVE MeterInv'
  <2>1. /\ pc[r] \in {"put", "get", "lease", "ack", "held"}
        /\ Go(r, "settle") /\ Found(r, "refused", 0, 0)
        /\ UNCHANGED <<stack, op, size, chunked, admitted, reserved, ledger, status, queue, lent>>
    BY <1>1 DEF Reject, PutFull, request, meter, store
  <2>2. Moved'
    BY <2>1, FoundNothingMoved
  <2>3. QED
    BY <1>0, <2>1, <2>2, MeterFound DEF MeterShape
<1>2. ASSUME Revoked(r) PROVE MeterInv'
  <2>1. /\ pc[r] \in {"put", "get", "lease", "ack", "held"}
        /\ Go(r, "settle") /\ Found(r, "revoked", 0, 0)
        /\ UNCHANGED <<stack, op, size, chunked, admitted, reserved, ledger, status, queue, lent>>
    BY <1>2 DEF Revoked, request, meter, store
  <2>2. Moved'
    BY <2>1, FoundNothingMoved
  <2>3. QED
    BY <1>0, <2>1, <2>2, MeterFound DEF MeterShape
<1>3. ASSUME Put(r) PROVE MeterInv'
  <2>1. /\ pc[r] = "put" /\ queue' = queue \cup {r}
        /\ Go(r, "settle") /\ Found(r, "accepted", size[r], 1)
        /\ UNCHANGED <<stack, op, size, chunked, admitted, reserved, ledger, status, lent>>
    BY <1>3 DEF Put, request, meter
  <2>2. Moved'
    BY <2>1, FoundNothingMoved
  <2>3. op[r] = "put" /\ size[r] \in Nat
    BY <1>0, <2>1 DEF Meters, MeterShape
  <2>4. QED
    BY <1>0, <2>1, <2>2, <2>3, MeterFound DEF MeterShape
<1>4. ASSUME Get(r) \/ Woken(r) PROVE MeterInv'
  <2>1. /\ pc[r] \in {"get", "lease", "held"} /\ Collected(r) /\ queue' = {}
        /\ Go(r, "settle") \/ (queue = {} /\ Go(r, "held"))
        /\ UNCHANGED <<stack, op, size, chunked, admitted, reserved, ledger, status>>
    BY <1>4 DEF Get, Woken, Collect, request, meter
  <2>2. lent' \subseteq Requests \X Requests
    BY <1>0, <1>4 DEF Get, Woken, Collect, MeterShape
  <2>3. CASE queue = {}
    <3>1. Found(r, "empty", 0, 0)
      BY <2>1, <2>3 DEF Collected
    <3>2. Moved'
      BY <2>1, <2>3, <3>1, FoundNothingMoved
    <3>3. QED
      BY <2>1, <2>2, <3>1, <3>2, MeterFound
  <2>4. CASE queue # {}
    <3> DEFINE b == Total(queue)
               m == Cardinality(queue)
    <3>1. Found(r, "delivered", b, m)
      BY <2>1, <2>4 DEF Collected
    <3>2. b \in Nat
      BY <1>0, SizesAdd, SumType DEF Total, MeterShape
    <3>3. Moved'
      <4> HIDE DEF m
      <4> QED
        BY <2>1, <3>1, CollectMoved
    <3> HIDE DEF b, m
    <3>4. QED
      BY <2>1, <2>2, <2>4, <3>1, <3>2, <3>3, MeterFound
  <2>5. QED
    BY <2>3, <2>4
<1>5. ASSUME NEW g \in Requests, Ack(r, g) PROVE MeterInv'
  <2> DEFINE held == {x \in lent : x[2] = g}
             m == Cardinality(held)
  <2>1. /\ pc[r] \in {"put", "get", "lease", "ack", "held"}
        /\ Go(r, "settle") /\ lent' \subseteq lent
        /\ Found(r, "refused", 0, 0) \/ Found(r, "acknowledged", 0, m)
        /\ UNCHANGED <<stack, op, size, chunked, admitted, reserved, ledger, status, queue>>
    BY <1>5 DEF Ack, request, meter
  <2> HIDE DEF m
  <2>2. Moved'
    BY <2>1, FoundNothingMoved
  <2>3. queue' \subseteq Requests /\ lent' \subseteq Requests \X Requests
    BY <1>0, <2>1 DEF MeterShape
  <2>4. QED
    BY <2>1, <2>2, <2>3, MeterFound
<1>6. QED
  BY <1>1, <1>2, <1>3, <1>4, <1>5

\* A lease that lapses gives messages back to the queue.
LEMMA MeterLapse ==
  ASSUME MeterInv, NEW g \in Requests, Lapse(g)
  PROVE  MeterInv'
<1>0. MeterShape /\ Moved /\ Covered
  BY DEF MeterInv
<1>1. UNCHANGED <<stack, pc, op, size, chunked, admitted, reserved, ledger, done, status>>
  BY DEF Lapse, request, meter
<1>2. queue \subseteq queue' /\ queue' \subseteq Requests /\ lent' \subseteq Requests \X Requests
  BY <1>0 DEF Lapse, MeterShape
<1>3. MeterShape' /\ Covered' /\ \A s \in Requests : Meters(s)'
  <2>1. MeterShape'
    BY <1>0, <1>1, <1>2 DEF MeterShape
  <2>2. \A s \in Requests : Meters(s)'
    BY <1>1 DEF MeterInv, Meters, Reserve, Declared, Overruled
  <2>3. QED
    BY <1>0, <1>1, <2>1, <2>2, CoveredStays
<1>4. Stored' = Stored /\ With("delivered")' = With("delivered")
  BY <1>1 DEF Stored, With
<1>5. BytesOf("delivered")' = BytesOf("delivered")
  BY <1>1, <1>4, BytesStay
<1>6. PICK A, B : A = Stored' \ queue' /\ B = Stored \ queue
  OBVIOUS
<1>7. A \subseteq B /\ B \subseteq Requests
  BY <1>2, <1>4, <1>6 DEF Stored, With
<1>8. Naturally(size, A) /\ Naturally(size, B)
  BY <1>0, <1>7, SizesAdd
<1>9. SumFunctionOnSet(size, A) <= SumFunctionOnSet(size, B)
  BY <1>7, <1>8, SumLess DEF Naturally
<1>10. SumFunctionOnSet(size, A) \in Nat /\ SumFunctionOnSet(size, B) \in Nat
  BY <1>8, SumType
<1>11. BytesOf("delivered") \in Nat /\ SumFunctionOnSet(size, B) <= BytesOf("delivered")
  BY <1>0, <1>6, DeliveredType DEF Moved, Total
<1>12. SumFunctionOnSet(size, A) <= BytesOf("delivered")'
  BY <1>5, <1>9, <1>10, <1>11
<1>13. Moved'
  BY <1>1, <1>6, <1>12 DEF Moved, Total
<1>14. QED
  BY <1>3, <1>13 DEF MeterInv

LEMMA MeterIdle == MeterInv /\ UNCHANGED vars => MeterInv'
BY DEF MeterInv, MeterShape, Meters, Reserve, Declared, Covered, Overrun, Used, SettledBytes,
       Charged, Settled, Held, Moved, Total, Stored, With, BytesOf, Overruled, vars

LEMMA MeterInit == Init => MeterInv
<1> SUFFICES ASSUME Init PROVE MeterInv
  OBVIOUS
<1>1. size \in [Requests -> Nat]
  BY LoadAssumption DEF Init
<1>2. \A r \in Requests : done[r] = Nothing
  BY DEF Init
<1>3. \A r \in Requests : done[r].outcome = "none" /\ done[r].bytes = 0
  BY <1>2 DEF Nothing
<1>4. MeterShape
  BY <1>1, <1>3 DEF Init, MeterShape
<1>5. \A r \in Requests : Meters(r)
  BY <1>3 DEF Init, Meters
<1>6. Used = 0
  <2>1. Charged = {}
    BY DEF Init, Charged, Settled
  <2>2. PICK f : f = [r \in Charged |-> ledger[r][1].bytes]
    OBVIOUS
  <2>3. DOMAIN f = {} /\ Used = SumFunction(f)
    BY <2>1, <2>2 DEF Used, SettledBytes, Charged
  <2>4. QED
    BY <2>3, SumAll, SumZero, FS_EmptySet
<1>7. Held = 0
  BY <1>4, HeldIs, SumZero, RequestAssumption DEF Init
<1>8. Covered
  <2>1. Overrun \in Nat
    BY <1>4, InvInit, OverrunIs
  <2>2. QED
    BY <1>6, <1>7, <2>1, BoundAssumption DEF Covered
<1>9. Moved
  <2>1. Stored \ queue = {}
    BY <1>3 DEF Stored, With
  <2>2. Total(Stored \ queue) = 0
    BY <2>1, SumZero, FS_EmptySet DEF Total
  <2>3. BytesOf("delivered") \in Nat
    BY <1>4, DeliveredType
  <2>4. QED
    BY <2>2, <2>3 DEF Moved
<1>10. QED
  BY <1>4, <1>5, <1>8, <1>9 DEF MeterInv

LEMMA MeterNext == SettleInv /\ MeterInv /\ SettleInv' /\ [Next]_vars => MeterInv'
<1> SUFFICES ASSUME SettleInv, MeterInv, SettleInv', [Next]_vars PROVE MeterInv'
  OBVIOUS
<1>1. CASE UNCHANGED vars
  BY <1>1, MeterIdle
<1>2. ASSUME NEW r \in Requests, Handler(r) PROVE MeterInv'
  BY <1>2, MeterMoves, MeterAdmit, MeterHandlers, MeterSettle DEF Handler
<1>3. ASSUME NEW r \in Requests, Lapse(r) PROVE MeterInv'
  BY <1>3, MeterLapse
<1>4. QED
  BY <1>1, <1>2, <1>3 DEF Next

LEMMA MeterAlways == Spec => [](SettleInv /\ MeterInv)
BY InvInit, InvNext, MeterInit, MeterNext, PTL DEF Spec

\* Quota is reserved before the bytes move and charged after: what puts of a
\* declared size have stored never exceeds what the authoriser has charged or
\* holds back, nor that its quota, however many puts are between their admission
\* and their settlement; and the bytes of puts that declared none are what the
\* quota is overrun by, and all it is overrun by.
THEOREM StoredNeverExceedsQuota == Spec => []StoredIsCovered
BY MeterAlways, InvIsCovered, PTL

\* Bytes are settled where they move, by the ledger of an authoriser that hears
\* of settlements: the bytes stored are charged for once, but for puts yet to be
\* settled; those that have left the queue are settled as delivered by whoever
\* collected them, under a lease or not and again for every lease that lapsed, but
\* for what a handler has in hand; and an acknowledgement is charged nothing.
THEOREM BytesSettledWhereTheyMove == Spec => []BytesWhereTheyMove
BY MeterAlways, InvIsMoved, PTL

\* Nothing stays held back for a request that was answered, whichever way it
\* went, unless the authoriser was overruled or settlements are kept from it.
ReservationsGivenBack ==
  \A r \in Requests :
    stack # "leases" /\ status[r] # 0 => reserved[r] = 0 \/ Overruled(r)

\* By the time a request is answered its reservation has been given back: the
\* order of the deferred work in put, get, getLeased and ack (server.go) leaves
\* no answered request that the quota still pays for.  That every request is
\* answered is ReservationsEnd, which needs fairness.
THEOREM NothingStaysReserved == Spec => []ReservationsGivenBack
<1>1. SettleInv /\ MeterInv => ReservationsGivenBack
  <2> SUFFICES ASSUME SettleInv, MeterInv, NEW r \in Requests,
                      stack # "leases", ~Unanswered(status[r])
               PROVE  reserved[r] = 0 \/ Overruled(r)
    BY DEF ReservationsGivenBack, Unanswered
  <2>1. Fits(r) /\ pc[r] \in Steps /\ Meters(r)
    BY DEF SettleInv, Shapes, MeterInv
  <2>2. pc[r] = "end"
    BY <2>1 DEF Fits, Steps, Starting, Working, Settling, Answering
  <2>3. QED
    BY <2>1, <2>2 DEF Meters
<1>2. QED
  BY <1>1, MeterAlways, PTL
=============================================================================
