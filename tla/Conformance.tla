----------------------------- MODULE Conformance -----------------------------
(***************************************************************************)
(* The relay contract as a program: conformance/conformance.go run by      *)
(* cmd/conformance against some relay.  The question is what its verdict   *)
(* is worth: whether a relay that keeps the contract always passes, and    *)
(* whether one that breaks it in a way the suite is about always fails.    *)
(*                                                                         *)
(* The suite goes through its script, with long polls beside it.  A        *)
(* section that needs a lever the harness did not supply is not attempted. *)
(* The relay under test keeps the contract but for one fault; it is the    *)
(* relay of the other modules at the grain a client can see.               *)
(*                                                                         *)
(* Times are in tenths of a second.  A call takes the time its trial says, *)
(* which passes once the relay has dealt with it: to the relay, a request  *)
(* that is slow to come is the reply before it that was slow to go.        *)
(***************************************************************************)
EXTENDS ContractScript, FiniteSets

CONSTANTS
  Trials,     \* relays under test and their harnesses, see TrialAssumption
  HoldTime,   \* for how long the relay holds a poll
  Patience    \* for how long the suite waits for one

\* A trial is the way the relay breaks the contract, or "none"; the levers that
\* the harness supplies; whether the relay was started with the contract's lease
\* key; for how long a call is on its way; what a long poll finds when its time is
\* up; and, a bound, how often the suite is run.
ASSUME TrialAssumption ==
  \A t \in Trials :
    /\ t.levers \subseteq {"plane", "tenancy", "sign", "other", "restart"}
    /\ t.keyed \in BOOLEAN /\ t.hold \in {"empty", "again"}
    /\ t.lag \in Nat /\ t.runs \in Nat \ {0}
ASSUME TimeAssumption == {HoldTime, Patience} \subseteq Nat

VARIABLES
  trial,                   \* the relay under test and its harness
  now,
  run,                     \* which run of the suite this is
  step,                    \* where it is
  passed, failed, skipped, \* the results so far
  mem,                     \* replies it goes back to
  queue,                   \* the relay's queues
  gone,                    \* what has been collected from them
  counter,                 \* the last id, of messages and of leases
  plane,                   \* the control plane: "up" or "down"
  known,                   \* its answers the relay has kept: question, reason, until when
  saw,                     \* what it has been sent
  poll                     \* the long poll that is open

results == <<passed, failed, skipped>>
admission == <<plane, known, saw>>
store == <<queue, gone, counter>>
vars == <<trial, now, run, step, results, mem, store, admission, poll>>

fault == trial.fault
levers == trial.levers

Scripts == [L \in {t.levers : t \in Trials} |-> ScriptOf(L)]
Script == Scripts[levers]
Ended == step > Len(Script)

NoReply == [code |-> 0, reason |-> "", number |-> 0, ids |-> {}, lease |-> 0, intact |-> TRUE]
NoPoll == [state |-> "none", lane |-> Lane("", "", ""), lease |-> 0, woken |-> FALSE,
           until |-> 0, giveup |-> 0, reply |-> NoReply]

Init ==
  /\ trial \in Trials
  /\ now = 0 /\ run = 1 /\ step = 1
  /\ passed = {} /\ failed = {} /\ skipped = {}
  /\ mem = [k \in {"last", "none", "wrong", "loan", "short", "woke", "good"} |-> NoReply]
  /\ queue = {} /\ gone = {} /\ counter = 0
  /\ plane = "up" /\ known = {} /\ saw = "nothing"
  /\ poll = NoPoll

-----------------------------------------------------------------------------
(* The relay under test: who may do what.                                  *)

Leases == {"live", "expired", "forged", "tampered"}
Tenants == [alphaStation |-> Lane("tenancy", "alpha", "c2s"), alphaControl |-> Lane("tenancy", "alpha", "s2c"),
            bravoStation |-> Lane("tenancy", "bravo", "c2s"), bravoControl |-> Lane("tenancy", "bravo", "s2c")]

\* The lane that a credential collects from, and the one it fills.
Covers(lane, l, op) ==
  /\ l.estate = lane.estate /\ l.station = lane.station
  /\ (l.dir = lane.dir) <=> (op = "read")

\* The policy of the harness's control plane, and of a relay with an estate of
\* its own: "" for yes.
decide(c, l, op) ==
  IF c = "wide" THEN ""
  ELSE IF c \in DOMAIN Tenants THEN (IF Covers(Tenants[c], l, op) THEN "" ELSE "out-of-scope")
  ELSE IF l.estate # "e1" \/ c \notin {"control", "station"} THEN "bad-credential"
  ELSE IF op = "read" \/ fault = "one-sided" THEN ""
  ELSE IF (c = "control") <=> (l.dir = "c2s") THEN ""
  ELSE "wrong-direction"

Hosted(c, reason) ==
  IF "tenancy" \in levers /\ c = "wide" /\ fault # "wide-is-fine"
  THEN "estate-wide-credential" ELSE reason

LeaseVerdict(c, l, op) ==
  IF fault = "trusts-leases" THEN ""
  ELSE IF ~trial.keyed \/ c \in {"forged", "tampered"} THEN "authority-unverifiable"
  ELSE IF c = "expired" /\ fault # "endless-leases" THEN "authority-expired"
  ELSE IF Covers(Lane("e1", "leased", "c2s"), l, op) THEN ""
  ELSE "out-of-scope"

\* An answer the relay has kept for this question: a yes for 30 s, a no for 5.
Kept(c, l, op) ==
  {k \in known : /\ k.cred = c /\ k.op = op /\ now < k.until /\ fault # "asks-always"
                 /\ k.lane = l \/ (fault = "coarse-key" /\ k.lane.dir = l.dir)}

Settled(c, l, op) ==
  \/ l.dir = "sideways" \/ fault = "open" \/ c = "none"
  \/ c \in Leases /\ LeaseVerdict(c, l, op) # "out-of-scope"

Asks(c, l, op) == ~Settled(c, l, op) /\ "plane" \in levers /\ Kept(c, l, op) = {}

Verdict(c, l, op) ==
  IF l.dir = "sideways" THEN "bad-route"
  ELSE IF fault = "open" THEN ""
  ELSE IF c = "none" THEN "no-credential"
  ELSE IF Settled(c, l, op) THEN LeaseVerdict(c, l, op)
  ELSE IF Kept(c, l, op) # {} THEN (CHOOSE k \in Kept(c, l, op) : TRUE).reason
  ELSE IF Asks(c, l, op) /\ plane = "down"
       THEN (IF fault = "blames" THEN "bad-credential" ELSE "authoriser-unavailable")
  ELSE Hosted(c, decide(c, l, op))

\* What being asked leaves behind, here and at the control plane.
Admit(c, l, op) ==
  IF Asks(c, l, op) /\ (plane = "up" \/ fault = "remembers-outages")
  THEN /\ known' = known \cup {[cred |-> c, lane |-> l, op |-> op, reason |-> Verdict(c, l, op),
                                until |-> now + (IF Verdict(c, l, op) = "" THEN 300 ELSE 50)]}
       /\ saw' = IF saw = "body" \/ (fault = "leaks" /\ op = "write") THEN "body" ELSE "questions"
       /\ UNCHANGED plane
  ELSE UNCHANGED admission

-----------------------------------------------------------------------------
(* The relay under test: its queues.                                       *)

At(l) == {m \in queue : m.lane = l}
Lapsed(m) == m.lease # 0 /\ m.until <= now /\ fault # "lost-with-lease"
Back(m) ==
  IF Lapsed(m) THEN [m EXCEPT !.lease = 0, !.id = IF fault = "renumbers" THEN @ + 100 ELSE @] ELSE m

Answer(code, reason, out, lease) ==
  [code |-> code, reason |-> IF fault = "mute" THEN "" ELSE reason, number |-> Cardinality(out),
   ids |-> {m.id : m \in out}, lease |-> lease, intact |-> \A m \in out : m.intact]

\* A collection for a time, 0 for no lease: what it answers and what it leaves.
Collection(l, time) ==
  LET idle == {m \in At(l) : m.lease = 0 \/ Lapsed(m)}
      open == IF fault = (IF time = 0 THEN "steals" ELSE "shares") THEN At(l) ELSE idle
      out == {Back(m) : m \in open}
      lease == IF fault = "one-lease" THEN 1 ELSE counter + 1
      lent == {[m EXCEPT !.lease = lease, !.until = now + time] : m \in out}
  IN  IF time = 0 \/ out = {}
      THEN [reply |-> Answer(200, "", out, 0), counter |-> counter,
            queue |-> IF fault = "keeps" THEN queue ELSE queue \ open, gone |-> gone \cup open]
      ELSE [reply |-> Answer(200, "", out, lease), counter |-> counter + 1,
            queue |-> (queue \ open) \cup lent, gone |-> gone]

\* How long a call takes.  A relay that holds a collection that does not wait
\* holds it as it would a poll.
Slow == trial.lag > 0
Took(s) ==
  trial.lag + IF /\ fault = "stalls" /\ s.do \in {"get", "lease"}
                 /\ Verdict(s.cred, s.lane, "read") = ""
                 /\ Collection(s.lane, s.arg).reply.number = 0
              THEN HoldTime ELSE 0

Becomes(after) == queue' = after.queue /\ gone' = after.gone /\ counter' = after.counter

-----------------------------------------------------------------------------
(* The suite.                                                              *)

\* Mutant of Good: a leased redelivery need not be recognisable.
GoodAgainAnyhow(s, r) ==
  /\ r.code \in s.codes /\ r.reason \in s.reasons /\ r.number \in s.numbers
  /\ CASE s.also = "pages" -> fault # "nameless"
       [] s.also = "intact" -> r.intact
       [] s.also = "reasons" -> r.reason # mem["wrong"].reason
       [] s.also = "unseen" -> saw = "questions"
       [] s.also \in {"leased", "again"} -> r.lease # 0
       [] s.also = "no lease" -> r.lease = 0
       [] s.also = "at once" -> Took(s) < 50
       [] s.also = "back" -> fault # "dead"
       [] OTHER -> TRUE

\* What a step asserts of the reply, and of the ones before it.
Good(s, r) ==
  /\ r.code \in s.codes /\ r.reason \in s.reasons /\ r.number \in s.numbers
  /\ CASE s.also = "pages" -> fault # "nameless"
       [] s.also = "intact" -> r.intact
       [] s.also = "reasons" ->
            LET said == {mem["none"].reason, mem["wrong"].reason, r.reason}
            IN  "" \notin said /\ mem["wrong"].reason \notin {mem["none"].reason, r.reason}
       [] s.also = "unseen" -> saw = "questions"
       [] s.also = "leased" -> r.lease # 0
       [] s.also = "no lease" -> r.lease = 0
       [] s.also = "at once" -> Took(s) < 50
       [] s.also = "again" -> r.ids = mem["short"].ids /\ r.lease # mem["short"].lease
       [] s.also = "back" -> fault # "dead"
       [] OTHER -> TRUE

Asserts(s) ==
  s.do = "note" \/ s.codes # AnyCode \/ s.reasons # Reasons \/ s.numbers # AnyNumber \/ s.also # ""

\* Where a part that is given up goes on.
NextPart ==
  LET later == {j \in DOMAIN Script : j > step /\ Script[j].part # Script[step].part}
  IN  IF later = {} THEN Len(Script) + 1 ELSE CHOOSE j \in later : \A k \in later : j <= k

\* The reply is in: a result, and on to the next call.
Judge(s, r) ==
  /\ passed' = IF Asserts(s) /\ Good(s, r) THEN passed \cup {step} ELSE passed
  /\ failed' = IF Asserts(s) /\ ~Good(s, r) THEN failed \cup {step} ELSE failed
  /\ mem' = [mem EXCEPT ![s.as] = r]
  /\ step' = IF s.stop /\ ~Good(s, r) THEN NextPart ELSE step + 1
  /\ UNCHANGED <<trial, run, skipped>>

Doing(what) == ~Ended /\ Script[step].do \in what /\
  (Script[step].when = "last" \/ mem[Script[step].when].lease # 0)

\* A call that needs a lease which there is not is not made.
PassOver ==
  /\ ~Ended /\ Script[step].when # "last" /\ mem[Script[step].when].lease = 0
  /\ step' = step + 1
  /\ UNCHANGED <<trial, now, run, results, mem, store, admission, poll>>

CodeOf(reason, yes) ==
  CASE reason = "" -> yes
    [] reason = "authoriser-unavailable" -> 503
    [] reason = "bad-route" -> 400
    [] OTHER -> 401

RefusedCall(s) ==
  LET op == IF s.do = "put" THEN "write" ELSE "read"
      reason == Verdict(s.cred, s.lane, op)
  IN  /\ reason # ""
      /\ Admit(s.cred, s.lane, op)
      /\ Judge(s, Answer(CodeOf(reason, 0), reason, {}, 0))
      /\ now' = now + Took(s)
      /\ UNCHANGED <<store, poll>>

PutCall(s) ==
  /\ Verdict(s.cred, s.lane, "write") = ""
  /\ Admit(s.cred, s.lane, "write")
  /\ counter' = counter + 1
  /\ queue' = IF fault = "loses" THEN queue
              ELSE queue \cup {[id |-> counter + 1, lane |-> s.lane, intact |-> fault # "garbles",
                                lease |-> 0, until |-> 0]}
  /\ poll' = IF poll.state = "none" THEN poll
             ELSE [poll EXCEPT !.woken = @ \/ (poll.state = "held" /\ poll.lane = s.lane /\ fault # "deaf"),
                               !.giveup = now + Took(s) + Patience]
  /\ Judge(s, Answer(202, "", {}, 0))
  /\ now' = now + Took(s)
  /\ UNCHANGED gone

\* MaxLease is five minutes.
CollectCall(s) ==
  LET after == Collection(s.lane, s.arg)
  IN  /\ Verdict(s.cred, s.lane, "read") = ""
      /\ Admit(s.cred, s.lane, "read")
      /\ IF s.arg > 3000 /\ fault # "any-length"
         THEN Judge(s, Answer(400, "bad-lease", {}, 0)) /\ UNCHANGED store
         ELSE Judge(s, after.reply) /\ Becomes(after)
      /\ now' = now + Took(s)
      /\ UNCHANGED poll

AckCall(s) ==
  LET lease == IF s.arg = "never" THEN 0 ELSE mem[s.arg].lease
      held == {m \in At(s.lane) : m.lease # 0 /\ m.lease = lease /\ ~Lapsed(m)}
  IN  /\ Verdict(s.cred, s.lane, "read") = ""
      /\ Admit(s.cred, s.lane, "read")
      /\ queue' = IF fault = "keeps-acked"
                  THEN (queue \ held) \cup {[m EXCEPT !.lease = 0] : m \in held} ELSE queue \ held
      /\ gone' = gone \cup held
      /\ Judge(s, IF held = {} /\ fault # "acks-anything" THEN Answer(410, "no-such-lease", {}, 0)
                  ELSE Answer(200, "", held, 0))
      /\ now' = now + Took(s)
      /\ UNCHANGED <<counter, poll>>

Call ==
  LET s == Script[step]
  IN  \/ Doing({"put", "get", "lease", "ack"}) /\ RefusedCall(s)
      \/ Doing({"put"}) /\ PutCall(s)
      \/ Doing({"get", "lease"}) /\ CollectCall(s)
      \/ Doing({"ack"}) /\ AckCall(s)

\* The pages, and what the control plane was sent.
Look ==
  /\ Doing({"look"})
  /\ Judge(Script[step], NoReply)
  /\ UNCHANGED <<now, store, admission, poll>>

SwitchPlane ==
  /\ Doing({"outage", "restore"})
  /\ plane' = IF Script[step].do = "outage" THEN "down" ELSE "up"
  /\ Judge(Script[step], NoReply)
  /\ UNCHANGED <<now, store, known, saw, poll>>

\* The relay is restarted, with what it has kept.
Restart ==
  /\ Doing({"restart"})
  /\ queue' = {[m EXCEPT !.lease = 0] : m \in IF fault = "volatile" THEN {}
                                              ELSE IF fault = "backs-up" THEN queue \cup gone ELSE queue}
  /\ known' = {}
  /\ Judge(Script[step], NoReply)
  /\ UNCHANGED <<now, gone, counter, plane, saw, poll>>

\* A section without its lever.
Note ==
  /\ Doing({"note"})
  /\ Judge(Script[step], NoReply)
  /\ UNCHANGED <<now, store, admission, poll>>

Skip ==
  /\ Doing({"skip"})
  /\ skipped' = skipped \cup {step}
  /\ step' = step + 1
  /\ UNCHANGED <<trial, now, run, passed, failed, mem, store, admission, poll>>

\* 400 ms before the put of a poll section: long enough for the poll to arrive,
\* where calls are not slow.
SleepFor ==
  /\ Doing({"sleep"})
  /\ poll.state # "sent" \/ Slow
  /\ now' = now + Script[step].arg
  /\ Judge(Script[step], NoReply)
  /\ UNCHANGED <<store, admission, poll>>

-----------------------------------------------------------------------------
(* The long poll beside the script.                                        *)

SendPoll ==
  /\ Doing({"poll"})
  /\ poll' = [NoPoll EXCEPT !.state = "sent", !.lane = Script[step].lane, !.lease = Script[step].arg]
  /\ Judge(Script[step], NoReply)
  /\ UNCHANGED <<now, store, admission>>

\* The poll is answered with what there is.
Deliver(time) ==
  LET after == Collection(poll.lane, time)
  IN  /\ Becomes(after)
      /\ poll' = [poll EXCEPT !.state = "answered", !.reply = after.reply]

PollArrives ==
  LET reason == Verdict("station", poll.lane, "read")
  IN  /\ poll.state = "sent"
      /\ Admit("station", poll.lane, "read")
      /\ IF reason = "" /\ Collection(poll.lane, poll.lease).reply.number > 0 /\ fault # "hangs"
         THEN Deliver(poll.lease)
         ELSE /\ poll' = IF reason = "" THEN [poll EXCEPT !.state = "held", !.until = now + HoldTime]
                         ELSE [poll EXCEPT !.state = "answered",
                                           !.reply = Answer(CodeOf(reason, 0), reason, {}, 0)]
              /\ UNCHANGED store
      /\ UNCHANGED <<trial, now, run, step, results, mem>>

PollWoken ==
  /\ poll.state = "held" /\ poll.woken /\ fault # "hangs"
  /\ Deliver(IF fault = "wakes-unleased" THEN 0 ELSE poll.lease)
  /\ UNCHANGED <<trial, now, run, step, results, mem, admission>>

\* The time of the poll is up: the Go relay answers that there was nothing, the
\* Worker collects once more.
PollExpires ==
  /\ poll.state = "held" /\ now >= poll.until /\ fault # "hangs"
  /\ IF trial.hold = "again" THEN Deliver(poll.lease)
     ELSE /\ poll' = [poll EXCEPT !.state = "answered", !.reply = Answer(200, "", {}, 0)]
          /\ UNCHANGED store
  /\ UNCHANGED <<trial, now, run, step, results, mem, admission>>

\* The script waits: for the answer, for the relay's timer, or for its own.
Await ==
  /\ Doing({"await"}) /\ poll.state = "answered"
  /\ Judge(Script[step], poll.reply)
  /\ poll' = NoPoll
  /\ UNCHANGED <<now, store, admission>>

Wait ==
  /\ Doing({"await"}) /\ poll.state = "held" /\ now < poll.giveup
  /\ ~poll.woken \/ fault = "hangs"
  /\ now' = IF now < poll.until /\ poll.until <= poll.giveup THEN poll.until ELSE poll.giveup
  /\ UNCHANGED <<trial, run, step, results, mem, store, admission, poll>>

\* Mutant of GiveUp: the poll section waits for its answer and nothing else.
GiveUpNever == FALSE

\* 40 s after the put.
GiveUp ==
  /\ Doing({"await"}) /\ poll.state = "held" /\ now >= poll.giveup
  /\ Judge(Script[step], NoReply)
  /\ poll' = NoPoll
  /\ UNCHANGED <<now, store, admission>>

\* Mutant of Rerun: the stations have the names they had before.
RerunSameNames ==
  /\ run < trial.runs
  /\ run' = run + 1 /\ step' = 1
  /\ passed' = {} /\ failed' = {} /\ skipped' = {}
  /\ mem' = [k \in DOMAIN mem |-> NoReply]
  /\ plane' = "up" /\ saw' = "nothing" /\ poll' = NoPoll
  /\ UNCHANGED <<trial, now, store, known>>

\* The suite is started again, after its end or in the middle.  The stations it
\* names afresh are other stations now.
Rerun ==
  /\ run < trial.runs
  /\ run' = run + 1 /\ step' = 1
  /\ passed' = {} /\ failed' = {} /\ skipped' = {}
  /\ mem' = [k \in DOMAIN mem |-> NoReply]
  /\ queue' = {m \in queue : m.lane.estate = "tenancy"}
  /\ known' = {k \in known : k.lane.estate = "tenancy"}
  /\ plane' = "up" /\ saw' = "nothing" /\ poll' = NoPoll
  /\ UNCHANGED <<trial, now, gone, counter>>

Next ==
  \/ Call \/ PassOver \/ Look \/ SwitchPlane \/ Restart \/ Note \/ Skip \/ SleepFor
  \/ SendPoll \/ PollArrives \/ PollWoken \/ PollExpires \/ Await \/ Wait \/ GiveUp
  \/ Rerun

Spec == Init /\ [][Next]_vars

\* The suite and the poll go on.
FairSpec == Spec /\ WF_vars(Next)

-----------------------------------------------------------------------------
(* Properties.                                                             *)

\* What Report tells the shell.
Report == failed = {}

\* The lever without which a fault cannot show.
Needed(f) ==
  CASE f \in {"blames", "remembers-outages", "asks-always", "coarse-key", "leaks"} -> {"plane"}
    [] f = "wide-is-fine" -> {"tenancy"}
    [] f = "endless-leases" -> {"sign"}
    [] f \in {"volatile", "backs-up", "dead"} -> {"restart"}
    [] OTHER -> {}

\* A relay that keeps the contract passes, with any levers and on any
\* interleaving of the long polls with the script, as long as a lease taken for
\* 30 s outlasts the three calls to its acknowledgement (conformance.go, Run,
\* leasing and durability); but for the one assertion on elapsed time, that a
\* collection with wait=0 is answered within 5 s, which fails where calls are
\* that slow.  Of a relay that has the lease key where leases are signed, and of
\* the first run where the tenancy is concerned.
NoFalseAlarm ==
  /\ fault = "none"
  /\ trial.keyed \/ "sign" \notin levers
  /\ run = 1 \/ "tenancy" \notin levers
  /\ 3 * trial.lag < 300
  => failed \subseteq {i \in DOMAIN Script : Script[i].also = "at once" /\ trial.lag >= 50}

\* "An unproven implementation is not permitted" (conformance.go): a relay with
\* one of the faults does not get through, if the lever for it was supplied and
\* calls are not slow, so that the polls arrive before the messages that are to
\* wake them.  The exception is a relay that wakes no poll and yet, like the
\* Worker, collects once more when the time of a poll is up: its answer has the
\* message in it, late but within what the suite waits for.
EveryFaultCaught ==
  /\ Ended /\ fault # "none" /\ Needed(fault) \subseteq levers /\ ~Slow
  /\ ~(fault = "deaf" /\ trial.hold = "again")
  => ~Report

\* The suite comes to an end against any relay, faulty or not: its waits are
\* bounded (conformance.go, the select of the long poll sections).
SuiteEnds == <>[]Ended
==============================================================================
