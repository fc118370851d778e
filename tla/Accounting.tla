----------------------------- MODULE Accounting -----------------------------
(***************************************************************************)
(* What is settled for what was done: the put, get and ack handlers of     *)
(* server.go with every early return, against an authoriser that meters.   *)
(* Such an authoriser (external: none is in this repository) reserves on   *)
(* Admit, under a reference the relay hands back, and releases and charges *)
(* on Settle.  Around it may be the tenant rule (scope.go, Hosted) or the  *)
(* recognition of authorisation leases (authlease.go, AuthorityAuth), as   *)
(* cmd/heliograph-relay wraps every authoriser.                            *)
(*                                                                         *)
(* Every request is a goroutine on one queue.  Its steps are the calls it  *)
(* makes: Admit, the store, hold, Settle, and the answer.                  *)
(***************************************************************************)
EXTENDS Integers, Sequences, FiniteSets, FiniteSetsExt

CONSTANTS
  Requests,
  Loads,    \* what requests are for: functions from Requests to
            \* [op, size, chunked]
  Room,     \* the messages the queue takes
  Quota,    \* the bytes the authoriser lets this client store
  Stacks    \* what may be around the authoriser: "bare", "hosted" or "leases"

ASSUME RequestAssumption == IsFiniteSet(Requests)
ASSUME StackAssumption == Stacks \subseteq {"bare", "hosted", "leases"}
ASSUME LoadAssumption ==
  \A load \in Loads : \A r \in Requests :
    /\ load[r].op \in {"put", "get", "lease", "ack"}
    /\ load[r].size \in Nat \ {0} /\ load[r].chunked \in BOOLEAN
ASSUME BoundAssumption == {Room, Quota} \subseteq Nat

VARIABLES
  stack,     \* what is around the authoriser
  pc,        \* where each handler is
  op, size,  \* what each request is for; the size of a put's body
  chunked,   \* the requests whose client did not say how long the body is
  admitted,  \* requests the authoriser's own answer let through
  reserved,  \* what it holds back for each request, 0 for nothing
  ledger,    \* what it was told for each request, in order
  queue,     \* messages anybody may collect: the put that brought them
  lent,      \* messages under a lease: message and request
  done,      \* what each request did: outcome, bytes, messages
  status     \* the status each request was answered with, 0 before

vars == <<stack, pc, op, size, chunked, admitted, reserved, ledger, queue, lent, done, status>>
request == <<stack, op, size, chunked>>
meter == <<admitted, reserved, ledger>>
store == <<queue, lent>>

Nothing == [outcome |-> "none", bytes |-> 0, messages |-> 0]

\* The bytes of some messages.
Total(S) == SumFunctionOnSet(size, S)

Init ==
  /\ stack \in Stacks
  /\ pc = [r \in Requests |-> "start"]
  /\ \E load \in Loads :
       /\ op = [r \in Requests |-> load[r].op] /\ size = [r \in Requests |-> load[r].size]
       /\ chunked = {r \in Requests : load[r].chunked}
  /\ admitted = {} /\ reserved = [r \in Requests |-> 0] /\ ledger = [r \in Requests |-> <<>>]
  /\ queue = {} /\ lent = {}
  /\ done = [r \in Requests |-> Nothing]
  /\ status = [r \in Requests |-> 0]

Go(r, step) == pc' = [pc EXCEPT ![r] = step]

\* What the handler has found out, and will settle and answer with.
Found(r, outcome, bytes, messages) ==
  done' = [done EXCEPT ![r] = [outcome |-> outcome, bytes |-> bytes, messages |-> messages]]

-----------------------------------------------------------------------------
(* The metering authoriser and what is around it.                          *)

\* What the authoriser has been told of: the requests of one outcome, and their
\* bytes.
Settled(outcome) == {r \in Requests : \E i \in DOMAIN ledger[r] : ledger[r][i].outcome = outcome}
SettledBytes(outcome) == SumFunction([r \in Settled(outcome) |-> ledger[r][1].bytes])

Charged == Settled("accepted")
Used == SettledBytes("accepted")
Held == SumFunction(reserved)

\* The declared size of a write is that of its JSON, or -1 when the client did not
\* say (a chunked body has no Content-Length); a read declares nothing.
Declared(r) == IF op[r] # "put" THEN 0 ELSE IF r \in chunked THEN -1 ELSE size[r] + 1

\* What can be held back for a request is what it declared, if anything.
Reserve(r) == IF Declared(r) > 0 THEN Declared(r) ELSE 0
Affordable(r) == Reserve(r) = 0 \/ Used + Held + Reserve(r) <= Quota

\* Mutant of Refuse: a refusal is accounted for like everything else.
RefuseSettled(r) ==
  /\ pc[r] = "start"
  /\ ledger' = [ledger EXCEPT ![r] = Append(@, [Nothing EXCEPT !.outcome = "refused"])]
  /\ Go(r, "end")
  /\ status' = [status EXCEPT ![r] = 401]
  /\ UNCHANGED <<request, admitted, reserved, store, done>>

\* Not admitted: nothing was reserved, and nothing is settled.
Refuse(r) ==
  /\ pc[r] = "start"
  /\ Go(r, "end")
  /\ status' = [status EXCEPT ![r] = 401]
  /\ UNCHANGED <<request, meter, store, done>>

\* Admitted, with a reservation.  Under the tenant rule a grant that is too wide
\* is refused afterwards, and the handler sees only the refusal.
Admit(r) ==
  /\ pc[r] = "start"
  /\ Affordable(r)
  /\ reserved' = [reserved EXCEPT ![r] = Reserve(r)]
  /\ admitted' = admitted \cup {r}
  /\ \E g \in {"narrow", "wide"} :
       IF stack = "hosted" /\ g = "wide"
       THEN Go(r, "end") /\ status' = [status EXCEPT ![r] = 401]
       ELSE Go(r, op[r]) /\ UNCHANGED status
  /\ UNCHANGED <<request, ledger, store, done>>

\* Admitted by an authorisation lease: the authoriser inside is not asked.
AdmitLease(r) ==
  /\ stack = "leases"
  /\ pc[r] = "start"
  /\ Go(r, op[r])
  /\ UNCHANGED <<request, meter, store, done, status>>

\* Mutant of Heard: the tenant rule keeps settlements to itself too.
HeardBare == stack = "bare"

\* Does the settlement reach the authoriser?  Hosted passes it on; AuthorityAuth
\* embeds NoAccounting.
Heard == stack # "leases"

Settle(r) ==
  /\ pc[r] = "settle"
  /\ IF Heard
     THEN /\ ledger' = [ledger EXCEPT ![r] = Append(@, done[r])]
          /\ reserved' = [reserved EXCEPT ![r] = 0]
     ELSE UNCHANGED <<ledger, reserved>>
  /\ Go(r, "answer")
  /\ UNCHANGED <<request, admitted, store, done, status>>

\* A put that was accepted is answered 202, another success 200, a revoked poll
\* 401; anything else is the request's own fault or the queue's.
Answer(r) ==
  /\ pc[r] = "answer"
  /\ status' = [status EXCEPT ![r] =
       CASE done[r].outcome = "accepted" -> 202
         [] done[r].outcome \in {"delivered", "empty", "acknowledged"} -> 200
         [] done[r].outcome = "revoked" -> 401
         [] OTHER -> 400]
  /\ Go(r, "end")
  /\ UNCHANGED <<request, meter, store, done>>

-----------------------------------------------------------------------------
(* The handlers, between admission and settlement.                         *)

\* Unreadable, too large, not written, a bad route, a lease that cannot be
\* granted, an acknowledgement that cannot be read: nothing has moved.
Reject(r) ==
  /\ pc[r] \in {"put", "get", "lease", "ack"}
  /\ Found(r, "refused", 0, 0)
  /\ Go(r, "settle")
  /\ UNCHANGED <<request, meter, store, status>>

Queued == queue \cup {x[1] : x \in lent}

PutFull(r) ==
  /\ pc[r] = "put" /\ Cardinality(Queued) >= Room
  /\ Found(r, "refused", 0, 0)
  /\ Go(r, "settle")
  /\ UNCHANGED <<request, meter, store, status>>

\* Mutant of Put: the bytes of a message are counted when it is collected.
PutUncounted(r) ==
  /\ pc[r] = "put" /\ Cardinality(Queued) < Room
  /\ queue' = queue \cup {r}
  /\ Found(r, "accepted", 0, 1)
  /\ Go(r, "settle")
  /\ UNCHANGED <<request, meter, lent, status>>

\* The message is stored, and a poll that is being held can be woken.
Put(r) ==
  /\ pc[r] = "put" /\ Cardinality(Queued) < Room
  /\ queue' = queue \cup {r}
  /\ Found(r, "accepted", size[r], 1)
  /\ Go(r, "settle")
  /\ UNCHANGED <<request, meter, lent, status>>

\* Mutant of Collected: the bytes of a leased collection wait for the ack.
CollectedOnAck(r) ==
  IF queue = {} THEN Found(r, "empty", 0, 0)
  ELSE Found(r, "delivered", IF op[r] = "lease" THEN 0 ELSE Total(queue), Cardinality(queue))

\* What a collection hands over is what it settles.
Collected(r) ==
  IF queue = {} THEN Found(r, "empty", 0, 0)
  ELSE Found(r, "delivered", Total(queue), Cardinality(queue))

\* Take, or TakeLeased; everything there is, since limits change nothing here.
Collect(r) ==
  /\ Collected(r)
  /\ queue' = {}
  /\ lent' = IF op[r] = "lease" THEN lent \cup (queue \X {r}) ELSE lent

Get(r) ==
  /\ pc[r] \in {"get", "lease"}
  /\ Collect(r)
  /\ \/ Go(r, "settle")
     \/ queue = {} /\ Go(r, "held")
  /\ UNCHANGED <<request, meter, status>>

\* Woken, the poll collects again; the message may be somebody else's by then. A
\* put from before the poll registered is let through as a wake too.
Woken(r) ==
  /\ pc[r] = "held"
  /\ \E w \in Requests : done[w].outcome = "accepted" /\ pc[w] \in {"answer", "end"}
  /\ Collect(r)
  /\ Go(r, "settle")
  /\ UNCHANGED <<request, meter, status>>

\* The timer, or the client hanging up: answered empty.
Released(r) ==
  /\ pc[r] = "held"
  /\ Go(r, "settle")
  /\ UNCHANGED <<request, meter, store, done, status>>

Revoked(r) ==
  /\ pc[r] = "held"
  /\ Found(r, "revoked", 0, 0)
  /\ Go(r, "settle")
  /\ UNCHANGED <<request, meter, store, status>>

\* The acknowledgement of the lease of request g: a count, and no bytes.
Ack(r, g) ==
  LET held == {x \in lent : x[2] = g}
  IN  /\ pc[r] = "ack"
      /\ lent' = lent \ held
      /\ IF held = {} THEN Found(r, "refused", 0, 0)
         ELSE Found(r, "acknowledged", 0, Cardinality(held))
      /\ Go(r, "settle")
      /\ UNCHANGED <<request, meter, queue, status>>

\* A collection lease lapses.
Lapse(g) ==
  /\ \E x \in lent : x[2] = g
  /\ queue' = queue \cup {x[1] : x \in {y \in lent : y[2] = g}}
  /\ lent' = {x \in lent : x[2] # g}
  /\ UNCHANGED <<pc, request, meter, done, status>>

Handler(r) ==
  \/ Refuse(r) \/ Admit(r) \/ AdmitLease(r)
  \/ Reject(r) \/ PutFull(r) \/ Put(r) \/ Get(r)
  \/ Woken(r) \/ Released(r) \/ Revoked(r)
  \/ \E g \in Requests : Ack(r, g)
  \/ Settle(r) \/ Answer(r)

Next == \E r \in Requests : Handler(r) \/ Lapse(r)

Spec == Init /\ [][Next]_vars

\* Every goroutine runs on, and hold has a timer.
FairSpec == Spec /\ \A r \in Requests : WF_vars(Handler(r))

-----------------------------------------------------------------------------
(* Properties.                                                             *)

\* The tenant rule made a no of the authoriser's yes, which nobody settles.
Overruled(r) ==
  stack = "hosted" /\ r \in admitted /\ done[r] = Nothing /\ status[r] = 401

With(outcome) == {r \in Requests : done[r].outcome = outcome}
Stored == With("accepted")

\* What handlers have taken out of the queue and not settled yet.
InHand == SumFunction([r \in With("delivered") \ Settled("delivered") |-> done[r].bytes])

\* Accounting is "told what actually happened, after it happened" (auth.go): a
\* request that was answered has been settled once if the authoriser admitted
\* it and not at all if it did not, on every path through put, get, getLeased
\* and ack, and a 202 has been settled as one stored message of its size.  An
\* authoriser that the stack keeps settlements from is told nothing at all, and
\* one that was overruled nothing of that request.
SettledOnce ==
  \A r \in Requests :
    /\ Len(ledger[r]) <= 1
    /\ r \notin admitted => ledger[r] = <<>>
    /\ stack = "leases" \/ Overruled(r) => ledger[r] = <<>>
    /\ stack # "leases" /\ status[r] # 0 /\ r \in admitted /\ ~Overruled(r) => Len(ledger[r]) = 1
    /\ stack # "leases" /\ status[r] = 202 =>
         ledger[r] = <<[outcome |-> "accepted", bytes |-> size[r], messages |-> 1]>>

\* Bytes are settled where they move, by the authoriser's own ledger.  The bytes
\* charged for puts are those of the messages stored, but for the ones whose
\* handler has yet to settle.  The bytes that were stored and are no longer in
\* the queue are settled as delivered, under a lease or not, but for those in the
\* hands of a handler that has yet to settle.  And no acknowledgement is charged
\* for ("charging them again here would charge a collector for acknowledging",
\* server.go, ack).  Nothing is claimed of an authoriser behind authorisation
\* leases, which is told nothing.
BytesWhereTheyMove ==
  stack # "leases" =>
    /\ Used + Total(Stored \ Charged) = Total(Stored)
    /\ Total(Stored \ queue) <= SettledBytes("delivered") + InHand
    /\ SettledBytes("acknowledged") = 0

\* "Quota has to be reserved before the bytes move and charged after, or two
\* concurrent writes each see room for one and both take it" (auth.go, Grant):
\* what puts of a declared size have stored never exceeds what the authoriser has
\* charged or holds back, and that never the quota.  A put that declares no size
\* has nothing reserved for it: its bytes are covered only once they are charged,
\* and the quota is overrun by exactly the bytes of such puts and no others.
StoredIsCovered ==
  stack # "leases" =>
    LET undeclared == Stored \cap chunked
    IN  /\ Total(Stored \ undeclared) + Total(undeclared \cap Charged) <= Used + Held
        /\ Used + Held <= Quota + Total(undeclared \cap Charged)

\* A reservation is always given back: a request the authoriser admitted is
\* settled in the end, whichever way it goes, unless the authoriser was overruled
\* or settlements are kept from it (auth.go, Grant.Ref).
ReservationsEnd ==
  \A r \in Requests :
    (r \in admitted /\ stack # "leases") ~> (Len(ledger[r]) = 1 \/ Overruled(r))
=============================================================================
