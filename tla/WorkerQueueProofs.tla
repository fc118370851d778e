------------------------- MODULE WorkerQueueProofs -------------------------
(***************************************************************************)
(* Proofs about WorkerQueue, for every value of its constants: any number  *)
(* of polls held and woken together, a clock that may be set back, and any *)
(* number of messages in the shape before leasing found at deployment.     *)
(* With no two polls held at once, also that it implements Mailbox.        *)
(***************************************************************************)
EXTENDS WorkerMailbox, FiniteSetTheorems, FunctionTheorems, WellFoundedInduction, TLAPS

Message == [msg : Nat, id : Nat, at : Nat]
Mark == [m : Message, lease : Nat, until : Nat]
Record == [n : Nat, l : Nat, msgs : SUBSET Message, marks : SUBSET Mark]

TypeOK ==
  /\ now \in Nat /\ sent \in Nat
  /\ q \in Record /\ copy \in Record
  /\ waiters \subseteq Asked /\ batch \subseteq Asked
  /\ accepted \subseteq Message

\* The records a handler may go on with: the stored one, and while polls that
\* were woken together have still to save, the copy each of them loaded.
Records == {q} \cup {s \in {copy} : batch # {}}

\* No such record lacks a message that has not left, nor has a counter behind one.
NothingMissing == \A s \in Records : accepted \ Gone \subseteq s.msgs
IdsBelow == \A s \in Records : \A a \in accepted : a.id < s.n

\* Nobody waits while woken polls have still to save, and who waits has been
\* passed by nothing but leased messages.
WasGranted(m) == \E g \in grants : m \in g.msgs
MarksGranted == \A s \in Records : \A k \in s.marks : WasGranted(k.m)
HeldOrWoken == batch # {} => waiters = {}

\* What a woken poll loaded is as fresh as the put that woke it.
CopyFresh == batch # {} => \A m \in copy.msgs : Live(m)

KeepInv ==
  /\ TypeOK
  /\ NothingMissing
  /\ IdsBelow /\ IdNeverReused
  /\ HeldOrWoken /\ MarksGranted /\ NotHeldPastAMessage
  /\ CopyFresh

-----------------------------------------------------------------------------
(* Facts about the operators.                                              *)

\* A set of messages that is not empty has one that nothing comes before.
LEMMA OldestExists ==
  ASSUME NEW S \in SUBSET Message, S # {}
  PROVE  \E m \in S : \A x \in S : ~(x.id < m.id)
<1> DEFINE T == {m.id : m \in S}
           R == OpToRel(<, Nat)
<1>1. T \subseteq Nat /\ T # {}
  BY DEF Message
<1>2. PICK i \in T : \A j \in T : ~(<<j, i>> \in R)
  <2> HIDE DEF R
  <2> QED
    BY <1>1, NatLessThanWellFounded, WFMin DEF R
<1>3. \A j \in T : ~(j < i)
  BY <1>1, <1>2 DEF OpToRel
<1>4. QED
  BY <1>3

\* available answers nothing only when there is nothing.
LEMMA FirstOfSome ==
  ASSUME NEW S \in SUBSET Message, NEW limit \in Nat, First(S, limit) = {}
  PROVE  S = {}
<1>1. SUFFICES ASSUME limit # 0, S # {} PROVE FALSE
  BY DEF First
<1>2. PICK m \in S : \A x \in S : ~(x.id < m.id)
  BY <1>1, OldestExists
<1>3. {x \in S : x.id < m.id} = {}
  BY <1>2
<1>4. Cardinality({x \in S : x.id < m.id}) < limit
  BY <1>1, <1>3, FS_EmptySet
<1>5. QED
  BY <1>1, <1>4 DEF First

LEMMA AvailableSubset == \A s, limit : available(s, limit) \subseteq s.msgs
  BY DEF available, First

LEMMA LoadFacts ==
  ASSUME now \in Nat, NEW s \in Record
  PROVE  /\ Load(s) \in Record
         /\ Load(s).n = s.n /\ Load(s).l = s.l
         /\ Load(s).msgs = {m \in s.msgs : Live(m)}
         /\ Load(s).marks \subseteq s.marks
  BY DEF Load, Record

\* Whoever leaves is gone, and nobody else.
LEMMA ExitsAre ==
  ASSUME NEW S, NEW how, NEW by
  PROVE  /\ \A x \in Exits(S, how, by) : x.m \in S /\ x.how = how
         /\ \A m \in S : \E x \in Exits(S, how, by) : x.m = m
<1>1. \A x \in Exits(S, how, by) : x.m \in S /\ x.how = how
  BY DEF Exits
<1>2. ASSUME NEW m \in S PROVE \E x \in Exits(S, how, by) : x.m = m
  <2> DEFINE e == [m |-> m, how |-> how, at |-> now, by |-> by]
  <2>1. e \in Exits(S, how, by)
    BY <1>2 DEF Exits
  <2>2. e.m = m
    OBVIOUS
  <2> QED
    BY <2>1, <2>2
<1>3. QED
  BY <1>1, <1>2

\* What a collection does to the record s it works on.  The record that is saved
\* has lost nothing but what was handed out for good.
LEMMA FinishSaves ==
  ASSUME TypeOK, NEW s \in Record, NEW limit \in Limits, NEW d \in 0 .. MaxLease,
         Finish(s, limit, d)
  PROVE  /\ q' \in Record /\ q'.n = s.n
         /\ q'.msgs \subseteq s.msgs
         /\ s.msgs \ q'.msgs \subseteq Gone' /\ Gone \subseteq Gone'
         /\ grants \subseteq grants'
         /\ \A k \in q'.marks : k \in s.marks \/ \E g \in grants' : k.m \in g.msgs
<1> DEFINE out == available(s, limit)
<1>0. out \subseteq s.msgs
  BY AvailableSubset
<1>1. CASE /\ save(s)
           /\ gone' = gone \cup Expiring
           /\ UNCHANGED grants
  BY <1>1 DEF save, Gone
<1>2. CASE /\ save(without(s, out))
           /\ gone' = gone \cup Expiring \cup Exits(out, "taken", 0)
           /\ UNCHANGED grants
  <2>1. q' \in Record /\ q'.n = s.n /\ q'.msgs = s.msgs \ out /\ q'.marks = s.marks
    BY <1>2 DEF save, without, Record
  <2>2. out \subseteq Gone' /\ Gone \subseteq Gone'
    BY <1>2, ExitsAre DEF Gone
  <2>3. QED
    BY <1>0, <1>2, <2>1, <2>2
<1>3. CASE /\ d > 0
           /\ save([s EXCEPT !.l = @ + 1,
                             !.marks = @ \cup {[m |-> m, lease |-> s.l, until |-> now + d] : m \in out}])
           /\ gone' = gone \cup Expiring
           /\ grants' = grants \cup {[k |-> Cardinality(grants) + 1, lease |-> s.l,
                                      at |-> now, until |-> now + d, msgs |-> out]}
  <2> DEFINE new == {[m |-> m, lease |-> s.l, until |-> now + d] : m \in out}
             g == [k |-> Cardinality(grants) + 1, lease |-> s.l,
                   at |-> now, until |-> now + d, msgs |-> out]
  <2>1. new \subseteq Mark
    BY <1>0 DEF TypeOK, Record, Mark
  <2>2. q' = [s EXCEPT !.l = s.l + 1, !.marks = s.marks \cup new]
    BY <1>3 DEF save
  <2>3. /\ q' \in Record /\ q'.n = s.n
        /\ q'.msgs = s.msgs /\ q'.marks = s.marks \cup new
    <3> HIDE DEF new
    <3> DEFINE r == [n |-> s.n, l |-> s.l + 1, msgs |-> s.msgs, marks |-> s.marks \cup new]
    <3>1. q' = r
      BY <2>2 DEF Record
    <3>2. r \in Record
      BY <2>1 DEF Record
    <3>3. QED
      BY <3>1, <3>2
  <2>4. \A k \in new : k.m \in g.msgs
    OBVIOUS
  <2>5. g \in grants'
    BY <1>3
  <2>6. Gone \subseteq Gone' /\ grants \subseteq grants'
    BY <1>3 DEF Gone
  <2>7. QED
    <3> HIDE DEF new, g
    <3> QED
      BY <2>3, <2>4, <2>5, <2>6
<1>4. QED
  BY <1>1, <1>2, <1>3 DEF Finish

\* What a collection hands out is in the record it works on.
LEMMA FinishHandsOut ==
  ASSUME NEW s, NEW limit, NEW d, Finish(s, limit, d), NEW m, HandedOut(m)
  PROVE  m \in s.msgs
<1> DEFINE out == available(s, limit)
<1>0. out \subseteq s.msgs
  BY AvailableSubset
<1>1. \A x \in Expiring : x.how # "taken"
  BY ExitsAre DEF Expiring
<1>2. CASE /\ gone' = gone \cup Expiring
           /\ UNCHANGED grants
  BY <1>1, <1>2 DEF HandedOut
<1>3. CASE /\ gone' = gone \cup Expiring \cup Exits(out, "taken", 0)
           /\ UNCHANGED grants
  BY <1>0, <1>1, <1>3, ExitsAre DEF HandedOut
<1>4. CASE /\ gone' = gone \cup Expiring
           /\ grants' = grants \cup {[k |-> Cardinality(grants) + 1, lease |-> s.l,
                                      at |-> now, until |-> now + d, msgs |-> out]}
  BY <1>0, <1>1, <1>4 DEF HandedOut
<1>5. QED
  BY <1>2, <1>3, <1>4 DEF Finish

-----------------------------------------------------------------------------
(* The invariant is inductive.                                             *)

LEMMA KeepInit == Init => KeepInv
<1> SUFFICES ASSUME Init PROVE KeepInv
  OBVIOUS
<1>1. PICK k \in 0 .. MaxFound :
        LET found == {[msg |-> i, id |-> i, at |-> 0] : i \in 1 .. k}
        IN  /\ q = [n |-> k + 1, l |-> 1, msgs |-> found, marks |-> {}]
            /\ copy = q
            /\ now = 0 /\ waiters = {} /\ batch = {}
            /\ sent = k /\ accepted = found /\ gone = {} /\ grants = {}
  BY DEF Init
<1> DEFINE found == {[msg |-> i, id |-> i, at |-> 0] : i \in 1 .. k}
<1>2. k \in Nat
  BY InstanceAssumption
<1>3. found \subseteq Message
  BY <1>2 DEF Message
<1>4. /\ \A a \in found : a.id < k + 1
      /\ \A a, b \in found : a.id = b.id => a = b
  BY <1>2
<1>5. TypeOK
  <2> HIDE DEF found
  <2> QED
    BY <1>1, <1>2, <1>3 DEF TypeOK, Record, Asked, found
<1>6. Records = {q} /\ q.msgs = found /\ q.marks = {} /\ q.n = k + 1 /\ accepted = found
  BY <1>1 DEF Records
<1>7. QED
  <2> HIDE DEF found
  <2> QED
    BY <1>1, <1>4, <1>5, <1>6
    DEF KeepInv, NothingMissing, IdsBelow, IdNeverReused, HeldOrWoken, MarksGranted,
        NotHeldPastAMessage, CopyFresh

\* A collection on the record s keeps the invariant, provided that s is as good
\* as the stored record and that whoever goes on waiting was passed by nothing in s.
LEMMA KeepFinish ==
  ASSUME KeepInv, NEW s \in Record, NEW limit \in Limits, NEW d \in 0 .. MaxLease,
         Finish(s, limit, d),
         UNCHANGED <<now, copy, sent, accepted>>,
         batch' \subseteq batch, waiters' \subseteq waiters,
         accepted \ Gone' \subseteq s.msgs,
         \A a \in accepted : a.id < s.n,
         \A k \in s.marks : WasGranted(k.m),
         waiters' # {} => \A m \in s.msgs : WasGranted(m)
  PROVE  KeepInv'
<1>1. /\ q' \in Record /\ q'.n = s.n
      /\ q'.msgs \subseteq s.msgs
      /\ s.msgs \ q'.msgs \subseteq Gone' /\ Gone \subseteq Gone'
      /\ grants \subseteq grants'
      /\ \A k \in q'.marks : k \in s.marks \/ \E g \in grants' : k.m \in g.msgs
  BY FinishSaves DEF KeepInv
<1>2. TypeOK'
  BY <1>1 DEF KeepInv, TypeOK
<1>3. NothingMissing' /\ IdsBelow' /\ IdNeverReused'
  BY <1>1 DEF KeepInv, NothingMissing, IdsBelow, IdNeverReused, Records
<1>4. HeldOrWoken' /\ MarksGranted' /\ NotHeldPastAMessage'
  BY <1>1 DEF KeepInv, HeldOrWoken, MarksGranted, NotHeldPastAMessage, Records, WasGranted
<1>5. CopyFresh'
  BY DEF KeepInv, CopyFresh, Live
<1>6. QED
  BY <1>2, <1>3, <1>4, <1>5 DEF KeepInv

\* What load drops from the stored record is expiring.
LEMMA LoadKeeps ==
  ASSUME KeepInv, gone \cup Expiring \subseteq gone'
  PROVE  accepted \ Gone' \subseteq Load(q).msgs /\ Gone \subseteq Gone'
<1>1. Load(q).msgs = {m \in q.msgs : Live(m)}
  BY LoadFacts DEF KeepInv, TypeOK
<1>2. accepted \ Gone \subseteq q.msgs
  BY DEF KeepInv, NothingMissing, Records
<1>3. \A m \in q.msgs : ~Live(m) => m \in Gone'
  <2>1. ASSUME NEW m \in q.msgs, ~Live(m) PROVE m \in Gone'
    <3> DEFINE S == {x \in q.msgs : ~Live(x)}
    <3>1. m \in S
      BY <2>1
    <3>2. Expiring = Exits(S, "expired", 0)
      BY DEF Expiring
    <3>3. \E x \in Expiring : x.m = m
      <4> HIDE DEF S
      <4> QED
        BY <3>1, <3>2, ExitsAre
    <3>4. QED
      BY <3>3 DEF Gone
  <2>2. QED
    BY <2>1
<1>4. Gone \subseteq Gone'
  BY DEF Gone
<1>5. QED
  BY <1>1, <1>2, <1>3, <1>4

LEMMA FinishExits ==
  ASSUME NEW s, NEW limit, NEW d, Finish(s, limit, d)
  PROVE  gone \cup Expiring \subseteq gone'
  BY DEF Finish

\* A handler that answers at once, or whose 25 seconds are over.
LEMMA KeepTake ==
  ASSUME KeepInv, NEW limit \in Limits, NEW d \in 0 .. MaxLease,
         Finish(Load(q), limit, d),
         Quiet, UNCHANGED <<now, batch, copy, sent, accepted>>, waiters' \subseteq waiters
  PROVE  KeepInv'
<1> DEFINE s == Load(q)
<1>1. /\ s \in Record /\ s.n = q.n /\ s.msgs \subseteq q.msgs /\ s.marks \subseteq q.marks
  BY LoadFacts DEF KeepInv, TypeOK
<1>2. accepted \ Gone' \subseteq s.msgs
  BY FinishExits, LoadKeeps
<1>3. /\ \A a \in accepted : a.id < s.n
      /\ \A k \in s.marks : WasGranted(k.m)
      /\ waiters' # {} => \A m \in s.msgs : WasGranted(m)
  BY <1>1 DEF KeepInv, IdsBelow, MarksGranted, NotHeldPastAMessage, Records, WasGranted
<1>4. QED
  <2> HIDE DEF s
  <2> QED
    BY <1>1, <1>2, <1>3, KeepFinish DEF s

\* A woken poll goes on with its copy while nobody waits.
LEMMA KeepResume ==
  ASSUME KeepInv, NEW w \in batch, Resume(w)
  PROVE  KeepInv'
<1>1. w.limit \in Limits /\ w.d \in 0 .. MaxLease
  BY DEF KeepInv, TypeOK, Asked
<1>2. copy \in Records /\ copy \in Record /\ waiters = {}
  BY DEF KeepInv, TypeOK, HeldOrWoken, Records
<1>3. Gone \subseteq Gone'
  BY FinishExits DEF Resume, Gone
<1>4. /\ accepted \ Gone' \subseteq copy.msgs
      /\ \A a \in accepted : a.id < copy.n
      /\ \A k \in copy.marks : WasGranted(k.m)
  BY <1>2, <1>3 DEF KeepInv, NothingMissing, IdsBelow, MarksGranted
<1>5. QED
  BY <1>1, <1>2, <1>4, KeepFinish DEF Resume

\* The message a put accepts has the id the counter was at; the polls it wakes
\* load the record it saves.
LEMMA KeepPut == KeepInv /\ Put => KeepInv'
<1> SUFFICES ASSUME KeepInv, Put PROVE KeepInv'
  OBVIOUS
<1> DEFINE s == Load(q)
           m == [msg |-> sent + 1, id |-> s.n, at |-> now]
<1>1. /\ s \in Record /\ s.n = q.n /\ s.marks \subseteq q.marks
      /\ s.msgs = {x \in q.msgs : Live(x)}
  BY LoadFacts DEF KeepInv, TypeOK
<1>2. m \in Message /\ m.id = q.n /\ m.at = now
  BY <1>1 DEF KeepInv, TypeOK, Record, Message
<1>3. q' = [s EXCEPT !.n = s.n + 1, !.msgs = s.msgs \cup {m}]
  BY DEF Put, save
<1>4. /\ batch' = waiters /\ waiters' = {} /\ copy' = q'
      /\ sent' = sent + 1 /\ accepted' = accepted \cup {m}
      /\ gone' = gone \cup Expiring /\ UNCHANGED <<now, grants>>
  BY DEF Put, Wake
<1>5. accepted \ Gone' \subseteq s.msgs /\ Gone \subseteq Gone'
  BY <1>4, LoadKeeps
<1>6. /\ \A a \in accepted : a.id < q.n
      /\ \A k \in q.marks : WasGranted(k.m)
      /\ \A a, b \in accepted : a.id = b.id => a = b
      /\ accepted \subseteq Message
  BY DEF KeepInv, IdsBelow, MarksGranted, IdNeverReused, Records, TypeOK
<1> HIDE DEF s, m
<1>7. q' = [n |-> s.n + 1, l |-> s.l, msgs |-> s.msgs \cup {m}, marks |-> s.marks]
  BY <1>1, <1>3 DEF Record
<1>8. q' \in Record /\ q'.n = q.n + 1 /\ q'.msgs = s.msgs \cup {m} /\ q'.marks = s.marks
  BY <1>1, <1>2, <1>7 DEF Record
<1>9. TypeOK'
  BY <1>2, <1>4, <1>8 DEF KeepInv, TypeOK
<1>10. Records' = {q'}
  BY <1>4 DEF Records
<1>11. NothingMissing'
  BY <1>4, <1>5, <1>8, <1>10 DEF NothingMissing
<1>12. q.n \in Nat
  BY DEF KeepInv, TypeOK, Record
<1>13. IdsBelow' /\ IdNeverReused'
  BY <1>2, <1>4, <1>6, <1>8, <1>10, <1>12 DEF IdsBelow, IdNeverReused, Message
<1>14. HeldOrWoken' /\ MarksGranted' /\ NotHeldPastAMessage'
  BY <1>1, <1>4, <1>6, <1>8, <1>10
  DEF HeldOrWoken, MarksGranted, NotHeldPastAMessage, WasGranted
<1>15. CopyFresh'
  <2>1. \A x \in q'.msgs : x.at + TTL >= now
    BY <1>1, <1>2, <1>8, QueueAssumption DEF Live, KeepInv, TypeOK
  <2>2. QED
    BY <2>1, <1>4 DEF CopyFresh, Live
<1>16. QED
  BY <1>9, <1>11, <1>13, <1>14, <1>15 DEF KeepInv

\* A poll is held when everything that is queued is under a lease.
LEMMA KeepHold ==
  ASSUME KeepInv, NEW a \in Asked, Hold(a)
  PROVE  KeepInv'
<1> DEFINE s == Load(q)
<1>1. /\ s \in Record /\ s.n = q.n /\ s.msgs \subseteq q.msgs /\ s.marks \subseteq q.marks
  BY LoadFacts DEF KeepInv, TypeOK
<1>2. accepted \ Gone' \subseteq s.msgs /\ Gone \subseteq Gone'
  BY LoadKeeps DEF Hold
<1>3. /\ q' = s /\ batch = {} /\ waiters' = waiters \cup {a}
      /\ UNCHANGED <<now, batch, copy, grants, sent, accepted>>
  BY DEF Hold, Quiet, save
<1>4. \A m \in s.msgs : WasGranted(m)
  <2> DEFINE rest == s.msgs \ {k.m : k \in s.marks}
  <2>1. rest \in SUBSET Message /\ a.limit \in Nat
    BY <1>1, QueueAssumption DEF Record, Asked
  <2>2. First(rest, a.limit) = {}
    BY DEF Hold, available
  <2>3. rest = {}
    <3> HIDE DEF rest
    <3> QED
      BY <2>1, <2>2, FirstOfSome
  <2>4. \A k \in s.marks : WasGranted(k.m)
    BY <1>1 DEF KeepInv, MarksGranted, Records
  <2>5. QED
    BY <2>3, <2>4
<1> HIDE DEF s
<1>5. TypeOK' /\ Records' = {s}
  BY <1>1, <1>3 DEF KeepInv, TypeOK, Records
<1>6. NothingMissing' /\ IdsBelow' /\ IdNeverReused'
  BY <1>1, <1>2, <1>3, <1>5 DEF KeepInv, NothingMissing, IdsBelow, IdNeverReused, Records
<1>7. HeldOrWoken' /\ MarksGranted' /\ NotHeldPastAMessage' /\ CopyFresh'
  BY <1>1, <1>3, <1>4, <1>5
  DEF KeepInv, HeldOrWoken, MarksGranted, NotHeldPastAMessage, CopyFresh, Records, WasGranted
<1>8. QED
  BY <1>5, <1>6, <1>7 DEF KeepInv

\* What an acknowledgement takes out of the record is gone.
LEMMA KeepAck ==
  ASSUME KeepInv, NEW g \in grants, Ack(g)
  PROVE  KeepInv'
<1> DEFINE s == Load(q)
           acked == {m \in s.msgs : \E k \in s.marks : k.m = m /\ k.lease = g.lease}
           left == {k \in s.marks : k.m \notin acked}
<1>1. /\ s \in Record /\ s.n = q.n /\ s.msgs \subseteq q.msgs /\ s.marks \subseteq q.marks
  BY LoadFacts DEF KeepInv, TypeOK
<1>2. /\ q' = [s EXCEPT !.msgs = s.msgs \ acked, !.marks = left]
      /\ gone' = gone \cup Expiring \cup Exits(acked, "acked", g.k)
      /\ batch = {} /\ UNCHANGED <<now, waiters, batch, copy, grants, sent, accepted>>
  BY DEF Ack, Quiet, save
<1>3. left \subseteq s.marks
  OBVIOUS
<1> HIDE DEF s, acked, left
<1>4. accepted \ Gone' \subseteq s.msgs
  BY <1>2, LoadKeeps DEF s
<1>5. acked \subseteq Gone'
  BY <1>2, ExitsAre DEF Gone
<1>6. q' = [n |-> s.n, l |-> s.l, msgs |-> s.msgs \ acked, marks |-> left]
  BY <1>1, <1>2 DEF Record
<1>7. q' \in Record /\ q'.n = q.n /\ q'.msgs = s.msgs \ acked /\ q'.marks = left
  BY <1>1, <1>3, <1>6 DEF Record
<1>8. TypeOK' /\ Records' = {q'}
  BY <1>2, <1>7 DEF KeepInv, TypeOK, Records
<1>9. NothingMissing' /\ IdsBelow' /\ IdNeverReused'
  BY <1>2, <1>4, <1>5, <1>7, <1>8 DEF KeepInv, NothingMissing, IdsBelow, IdNeverReused, Records
<1>10. HeldOrWoken' /\ MarksGranted' /\ NotHeldPastAMessage' /\ CopyFresh'
  BY <1>1, <1>2, <1>3, <1>7, <1>8
  DEF KeepInv, HeldOrWoken, MarksGranted, NotHeldPastAMessage, CopyFresh, Records, WasGranted
<1>11. QED
  BY <1>8, <1>9, <1>10 DEF KeepInv

LEMMA KeepNext == KeepInv /\ [Next]_vars => KeepInv'
<1> SUFFICES ASSUME KeepInv, [Next]_vars PROVE KeepInv'
  OBVIOUS
<1>1. ASSUME UNCHANGED vars PROVE KeepInv'
  BY <1>1 DEF vars, past, KeepInv, TypeOK, NothingMissing, IdsBelow, IdNeverReused, HeldOrWoken,
              MarksGranted, NotHeldPastAMessage, CopyFresh, Records, WasGranted, Gone, Live
<1>2. ASSUME NEW limit \in Limits, NEW d \in 0 .. MaxLease, Take(limit, d) PROVE KeepInv'
  BY <1>2, KeepTake DEF Take
<1>3. ASSUME NEW w \in waiters, HoldTimeout(w) PROVE KeepInv'
  <2>1. w.limit \in Limits /\ w.d \in 0 .. MaxLease
    BY DEF KeepInv, TypeOK, Asked
  <2>2. QED
    BY <1>3, <2>1, KeepTake DEF HoldTimeout
<1>4. ASSUME Tick \/ StepClockBack PROVE KeepInv'
  <2>1. /\ UNCHANGED <<q, waiters, batch, copy, past>> /\ batch = {} /\ now' \in Nat
    BY <1>4 DEF Tick, StepClockBack, Quiet, KeepInv, TypeOK
  <2>2. QED
    BY <2>1 DEF past, KeepInv, TypeOK, NothingMissing, IdsBelow, IdNeverReused, HeldOrWoken,
                MarksGranted, NotHeldPastAMessage, CopyFresh, Records, WasGranted, Gone
<1>5. ASSUME Evict PROVE KeepInv'
  BY <1>5 DEF Evict, past, KeepInv, TypeOK, NothingMissing, IdsBelow, IdNeverReused, HeldOrWoken,
              MarksGranted, NotHeldPastAMessage, CopyFresh, Records, WasGranted, Gone
<1>6. QED
  BY <1>1, <1>2, <1>3, <1>4, <1>5, KeepResume, KeepPut, KeepHold, KeepAck DEF Next, PutFull

LEMMA KeepInvariant == Spec => []KeepInv
  BY KeepInit, KeepNext, PTL DEF Spec

-----------------------------------------------------------------------------
\* A message whose sender was told 202 is in the stored record until it is
\* collected, acknowledged or expired, however many woken polls save their copies
\* over each other and whenever the object is evicted (worker.ts, RelayQueue).
THEOREM AcceptedIsKept == Spec => []StillThere
<1>1. KeepInv => StillThere
  BY DEF KeepInv, NothingMissing, Records, StillThere
<1>2. QED
  BY <1>1, KeepInvariant, PTL

\* No two accepted messages have the same id, also when the queue has been empty
\* in between or messages of the old shape were found (worker.ts, load and save).
THEOREM IdsAreFresh == Spec => []IdNeverReused
<1>1. KeepInv => IdNeverReused
  BY DEF KeepInv
<1>2. QED
  BY <1>1, KeepInvariant, PTL

\* While a poll is held, whatever is queued was under a lease at some time
\* (worker.ts, take: a poll is held only when nothing is available, and put wakes
\* all of them).
THEOREM HeldOnlyForNothing == Spec => []NotHeldPastAMessage
<1>1. KeepInv => NotHeldPastAMessage
  BY DEF KeepInv
<1>2. QED
  BY <1>1, KeepInvariant, PTL

\* No step hands out a message past its time to live (worker.ts, load): not even
\* a woken poll, which does not load again.
THEOREM HandsOutFresh == Spec => FreshOnly
<1>1. ASSUME KeepInv, [Next]_vars, NEW m \in accepted, HandedOut(m) PROVE now <= m.at + TTL
  <2>0. now \in Nat /\ m.at \in Nat /\ TTL \in Nat
    BY <1>1, QueueAssumption DEF KeepInv, TypeOK, Message
  <2>1. ASSUME NEW limit, NEW d, Finish(Load(q), limit, d) PROVE now <= m.at + TTL
    <3>1. m \in Load(q).msgs
      BY <1>1, <2>1, FinishHandsOut
    <3>2. Live(m)
      BY <1>1, <3>1, LoadFacts DEF KeepInv, TypeOK
    <3>3. QED
      BY <2>0, <3>2 DEF Live
  <2>2. ASSUME NEW w \in batch, Resume(w) PROVE now <= m.at + TTL
    <3>1. m \in copy.msgs
      BY <1>1, <2>2, FinishHandsOut DEF Resume
    <3>2. QED
      BY <1>1, <2>0, <2>2, <3>1 DEF KeepInv, CopyFresh, Live
  <2>3. \A x \in Expiring : x.how # "taken"
    BY ExitsAre DEF Expiring
  <2>4. ASSUME NEW g \in grants, Ack(g) PROVE FALSE
    <3> DEFINE acked == {x \in Load(q).msgs : \E k \in Load(q).marks : k.m = x /\ k.lease = g.lease}
    <3>1. gone' = gone \cup Expiring \cup Exits(acked, "acked", g.k) /\ UNCHANGED grants
      BY <2>4 DEF Ack
    <3> HIDE DEF acked
    <3>2. QED
      BY <1>1, <2>3, <3>1, ExitsAre DEF HandedOut
  <2>5. ASSUME gone' = gone \cup Expiring \/ UNCHANGED gone, UNCHANGED grants PROVE FALSE
    BY <1>1, <2>3, <2>5 DEF HandedOut
  <2>6. QED
    BY <1>1, <2>1, <2>2, <2>4, <2>5
    DEF Next, vars, past, PutFull, Put, Take, Hold, HoldTimeout, Tick, StepClockBack, Evict
<1>2. KeepInv /\ [Next]_vars => [\A m \in accepted : HandedOut(m) => now <= m.at + TTL]_vars
  BY <1>1
<1>3. QED
  BY <1>2, KeepInvariant, PTL DEF Spec, FreshOnly

-----------------------------------------------------------------------------
(* One poll held at a time.                                                *)

\* Nobody works on a copy that is not the stored record, loaded at this time.
Alone ==
  /\ \A v, w \in waiters : v = w
  /\ \A v, w \in batch : v = w
  /\ batch # {} => copy = q /\ Load(q) = q

\* What is stored was accepted; ids and payloads are numbered alike.
Sorted ==
  /\ q.msgs \subseteq accepted /\ IsFiniteSet(accepted)
  /\ \A a \in accepted : a.msg <= sent
  /\ \A a, b \in accepted : a.id < b.id => a.msg < b.msg

\* Leases are numbered by the record, and no number is given out twice.
LeasesNumbered ==
  /\ IsFiniteSet(grants) /\ q.l = Cardinality(grants) + 1
  /\ \A g \in grants : g.lease \in Nat /\ g.lease < q.l
  /\ \A g, h \in grants : g.lease = h.lease => g = h

\* A mark is on a stored message, and says what the grant it stands for says.
MarksNamed ==
  \A k \in q.marks :
    /\ k.m \in q.msgs
    /\ \E g \in grants : g.lease = k.lease /\ g.until = k.until /\ k.m \in g.msgs

SoloInv ==
  /\ Alone
  /\ Sorted
  /\ LeasesNumbered
  /\ MarksNamed
  /\ AckOwn

LEMMA LoadMarks ==
  ASSUME NEW s \in Record
  PROVE  Load(s).marks = {k \in s.marks : Live(k.m) /\ k.until > now}
  BY DEF Load, Record

NewMarks(out, l, d) == {[m |-> m, lease |-> l, until |-> now + d] : m \in out}
NewGrant(out, l, d) ==
  [k |-> Cardinality(grants) + 1, lease |-> l, at |-> now, until |-> now + d, msgs |-> out]

\* What a collection leaves behind, field by field.
LEMMA FinishCases ==
  ASSUME NEW s \in Record, NEW limit, NEW d, Finish(s, limit, d),
         NEW out, out = available(s, limit)
  PROVE  \/ /\ q'.msgs = s.msgs \ out /\ q'.marks = s.marks /\ q'.l = s.l
            /\ gone' = gone \cup Expiring \cup Exits(out, "taken", 0)
            /\ grants' = grants
         \/ /\ out # {} /\ d > 0 /\ Cardinality(grants) < MaxGrants
            /\ q'.msgs = s.msgs /\ q'.marks = s.marks \cup NewMarks(out, s.l, d) /\ q'.l = s.l + 1
            /\ gone' = gone \cup Expiring
            /\ grants' = grants \cup {NewGrant(out, s.l, d)}
<1>1. CASE out = {} /\ save(s) /\ gone' = gone \cup Expiring /\ UNCHANGED grants
  <2>1. Exits({}, "taken", 0) = {}
    BY DEF Exits
  <2>2. QED
    BY <1>1, <2>1 DEF save
<1>2. CASE /\ save(without(s, out))
           /\ gone' = gone \cup Expiring \cup Exits(out, "taken", 0)
           /\ UNCHANGED grants
  BY <1>2 DEF save, without, Record
<1>3. CASE /\ out # {} /\ d > 0 /\ Cardinality(grants) < MaxGrants
           /\ save([s EXCEPT !.l = @ + 1,
                             !.marks = @ \cup {[m |-> m, lease |-> s.l, until |-> now + d] : m \in out}])
           /\ gone' = gone \cup Expiring
           /\ grants' = grants \cup {[k |-> Cardinality(grants) + 1, lease |-> s.l,
                                      at |-> now, until |-> now + d, msgs |-> out]}
  <2> DEFINE N == NewMarks(out, s.l, d)
  <2>1. q' = [s EXCEPT !.l = s.l + 1, !.marks = s.marks \cup N]
    BY <1>3 DEF save, NewMarks
  <2>2. grants' = grants \cup {NewGrant(out, s.l, d)}
    BY <1>3 DEF NewGrant
  <2> HIDE DEF N
  <2>3. q'.msgs = s.msgs /\ q'.marks = s.marks \cup N /\ q'.l = s.l + 1
    BY <2>1 DEF Record
  <2>4. QED
    BY <1>3, <2>2, <2>3 DEF N
<1>4. QED
  BY <1>1, <1>2, <1>3 DEF Finish

LEMMA AvailableUnmarked == \A s, limit : \A k \in s.marks : k.m \notin available(s, limit)
  BY DEF available, First

LEMMA SoloInit == Init => SoloInv
<1> SUFFICES ASSUME Init PROVE SoloInv
  OBVIOUS
<1>1. PICK k \in 0 .. MaxFound :
        LET found == {[msg |-> i, id |-> i, at |-> 0] : i \in 1 .. k}
        IN  /\ q = [n |-> k + 1, l |-> 1, msgs |-> found, marks |-> {}]
            /\ copy = q
            /\ now = 0 /\ waiters = {} /\ batch = {}
            /\ sent = k /\ accepted = found /\ gone = {} /\ grants = {}
  BY DEF Init
<1> DEFINE msg(i) == [msg |-> i, id |-> i, at |-> 0]
           found == {msg(i) : i \in 1 .. k}
<1>2. k \in Nat
  BY InstanceAssumption
<1>3. \A i : msg(i).msg = i /\ msg(i).id = i
  OBVIOUS
<1>4. accepted = found /\ q.msgs = found /\ q.marks = {} /\ q.l = 1 /\ sent = k
      /\ batch = {} /\ waiters = {} /\ gone = {} /\ grants = {}
  BY <1>1
<1> HIDE DEF msg
<1>5. IsFiniteSet(found)
  <2> DEFINE f == [i \in 1 .. k |-> msg(i)]
  <2>1. f \in Surjection(1 .. k, found)
    BY Fun_IsSurj
  <2>2. IsFiniteSet(1 .. k)
    BY <1>2, FS_Interval
  <2> HIDE DEF f, found
  <2>3. QED
    BY <2>1, <2>2, FS_Surjection
<1>6. Sorted
  BY <1>2, <1>3, <1>4, <1>5 DEF Sorted
<1>7. LeasesNumbered /\ MarksNamed /\ AckOwn /\ Alone
  BY <1>4, FS_EmptySet DEF LeasesNumbered, MarksNamed, AckOwn, Alone
<1>8. QED
  BY <1>6, <1>7 DEF SoloInv

\* A collection on the stored record, loaded at this time.
LEMMA SoloFinish ==
  ASSUME KeepInv, SoloInv, NEW limit \in Limits, NEW d \in 0 .. MaxLease,
         Finish(Load(q), limit, d), UNCHANGED <<now, sent, accepted>>
  PROVE  Sorted' /\ LeasesNumbered' /\ MarksNamed' /\ AckOwn'
<1>0. now \in Nat /\ q \in Record /\ q.l \in Nat
  BY DEF KeepInv, TypeOK, Record
<1>1. PICK s, out : s = Load(q) /\ out = available(s, limit)
  OBVIOUS
<1>2. /\ s \in Record /\ s.l = q.l /\ s.msgs = {m \in q.msgs : Live(m)}
      /\ s.marks = {k \in q.marks : Live(k.m) /\ k.until > now}
  BY <1>0, <1>1, LoadFacts, LoadMarks
<1>3. out \subseteq s.msgs /\ \A k \in s.marks : k.m \notin out
  BY <1>1, AvailableSubset, AvailableUnmarked
<1>4. Finish(s, limit, d)
  BY <1>1 DEF Finish, save
<1>5. q'.msgs \subseteq q.msgs
  BY <1>2, <1>4, FinishCases, <1>1
<1>6. Sorted'
  BY <1>5 DEF SoloInv, Sorted
<1>7. \A x \in Expiring \cup Exits(out, "taken", 0) : x.how # "acked"
  BY ExitsAre DEF Expiring
<1>8. CASE /\ q'.msgs = s.msgs \ out /\ q'.marks = s.marks /\ q'.l = s.l
           /\ gone' = gone \cup Expiring \cup Exits(out, "taken", 0)
           /\ grants' = grants
  <2>1. LeasesNumbered'
    BY <1>2, <1>8 DEF SoloInv, LeasesNumbered
  <2>2. MarksNamed'
    BY <1>2, <1>3, <1>8 DEF SoloInv, MarksNamed
  <2>3. AckOwn'
    BY <1>7, <1>8 DEF SoloInv, AckOwn
  <2>4. QED
    BY <1>6, <2>1, <2>2, <2>3
<1>9. CASE /\ q'.msgs = s.msgs /\ q'.marks = s.marks \cup NewMarks(out, s.l, d) /\ q'.l = s.l + 1
           /\ gone' = gone \cup Expiring
           /\ grants' = grants \cup {NewGrant(out, s.l, d)}
  <2>1. PICK g : g = NewGrant(out, s.l, d)
    OBVIOUS
  <2>2. g.lease = q.l /\ g.until = now + d /\ g.msgs = out /\ grants' = grants \cup {g}
    BY <1>2, <1>9, <2>1 DEF NewGrant
  <2>3. \A k \in NewMarks(out, s.l, d) : k.m \in out /\ k.lease = g.lease /\ k.until = g.until
    BY <1>2, <2>2 DEF NewMarks
  <2>4. /\ IsFiniteSet(grants) /\ q.l = Cardinality(grants) + 1
        /\ \A h \in grants : h.lease \in Nat /\ h.lease < q.l /\ h.lease # q.l
        /\ \A h, i \in grants : h.lease = i.lease => h = i
    BY <1>0 DEF SoloInv, LeasesNumbered
  <2>5. g \notin grants
    BY <2>2, <2>4
  <2>6. IsFiniteSet(grants') /\ Cardinality(grants') = Cardinality(grants) + 1
    BY <2>2, <2>4, <2>5, FS_AddElement
  <2>7. LeasesNumbered'
    BY <1>0, <1>2, <1>9, <2>2, <2>4, <2>6 DEF LeasesNumbered
  <2>8. MarksNamed'
    BY <1>2, <1>3, <1>9, <2>2, <2>3 DEF SoloInv, MarksNamed
  <2>9. AckOwn'
    BY <1>7, <1>9, <2>2 DEF SoloInv, AckOwn
  <2>10. QED
    BY <1>6, <2>7, <2>8, <2>9
<1>10. QED
  BY <1>1, <1>2, <1>4, <1>8, <1>9, FinishCases

LEMMA SoloPut == KeepInv /\ SoloInv /\ Put => SoloInv'
<1> SUFFICES ASSUME KeepInv, SoloInv, Put PROVE SoloInv'
  OBVIOUS
<1>0. now \in Nat /\ q \in Record /\ sent \in Nat /\ q.n \in Nat
  BY DEF KeepInv, TypeOK, Record
<1>1. PICK s, m : s = Load(q) /\ m = [msg |-> sent + 1, id |-> s.n, at |-> now]
  OBVIOUS
<1>2. /\ s \in Record /\ s.l = q.l /\ s.n = q.n /\ s.msgs = {x \in q.msgs : Live(x)}
      /\ s.marks = {k \in q.marks : Live(k.m) /\ k.until > now}
  BY <1>0, <1>1, LoadFacts, LoadMarks
<1>3. m \in Message /\ m.msg = sent + 1 /\ m.id = q.n /\ m.at = now
  BY <1>0, <1>1, <1>2 DEF Message
<1>4. /\ q' = [s EXCEPT !.n = s.n + 1, !.msgs = s.msgs \cup {m}]
      /\ batch' = waiters /\ waiters' = {} /\ copy' = q'
      /\ sent' = sent + 1 /\ accepted' = accepted \cup {m}
      /\ gone' = gone \cup Expiring /\ UNCHANGED <<now, grants>>
  BY <1>1 DEF Put, Wake, save
<1>5. /\ q' \in Record /\ q'.l = q.l /\ q'.msgs = s.msgs \cup {m} /\ q'.marks = s.marks
  <2>1. q' = [n |-> s.n + 1, l |-> s.l, msgs |-> s.msgs \cup {m}, marks |-> s.marks]
    BY <1>2, <1>4 DEF Record
  <2>2. QED
    BY <1>2, <1>3, <2>1 DEF Record
<1>6. /\ accepted \subseteq Message /\ \A a \in accepted : a.id < q.n /\ a.id \in Nat /\ a.msg \in Nat
  BY DEF KeepInv, TypeOK, IdsBelow, Records, Message
<1>7. Sorted'
  <2>1. IsFiniteSet(accepted')
    BY <1>4, FS_AddElement DEF SoloInv, Sorted
  <2>2. \A a \in accepted' : a.msg <= sent + 1
    BY <1>0, <1>3, <1>4, <1>6 DEF SoloInv, Sorted
  <2>3. \A a, b \in accepted' : a.id < b.id => a.msg < b.msg
    BY <1>0, <1>3, <1>4, <1>6 DEF SoloInv, Sorted
  <2>4. q'.msgs \subseteq accepted'
    BY <1>2, <1>4, <1>5 DEF SoloInv, Sorted
  <2>5. QED
    BY <1>4, <2>1, <2>2, <2>3, <2>4 DEF Sorted
<1>8. LeasesNumbered'
  BY <1>4, <1>5 DEF SoloInv, LeasesNumbered
<1>9. MarksNamed'
  BY <1>2, <1>4, <1>5 DEF SoloInv, MarksNamed
<1>10. AckOwn'
  <2>1. \A x \in Expiring : x.how # "acked"
    BY ExitsAre DEF Expiring
  <2>2. QED
    BY <1>4, <2>1 DEF SoloInv, AckOwn
<1>11. (Load(q) = q)'
  <2>1. \A x \in q'.msgs : (Live(x))'
    BY <1>2, <1>3, <1>4, <1>5, QueueAssumption, <1>0 DEF Live
  <2>2. \A k \in q'.marks : (Live(k.m))' /\ k.until > now'
    BY <1>2, <1>4, <1>5 DEF Live
  <2>3. /\ {x \in q'.msgs : (Live(x))'} = q'.msgs
        /\ {k \in q'.marks : (Live(k.m))' /\ k.until > now'} = q'.marks
    BY <2>1, <2>2
  <2>4. (Load(q))' = [q' EXCEPT !.msgs = q'.msgs, !.marks = q'.marks]
    BY <2>3 DEF Load
  <2>5. QED
    BY <1>5, <2>4 DEF Record
<1>12. Alone'
  BY <1>4, <1>11 DEF SoloInv, Alone
<1>13. QED
  BY <1>7, <1>8, <1>9, <1>10, <1>12 DEF SoloInv

LEMMA SoloAck ==
  ASSUME KeepInv, SoloInv, NEW g \in grants, Ack(g)
  PROVE  SoloInv'
<1>0. now \in Nat /\ q \in Record
  BY DEF KeepInv, TypeOK
<1>1. PICK s : s = Load(q)
  OBVIOUS
<1>2. /\ s \in Record /\ s.l = q.l /\ s.msgs = {x \in q.msgs : Live(x)}
      /\ s.marks = {k \in q.marks : Live(k.m) /\ k.until > now}
  BY <1>0, <1>1, LoadFacts, LoadMarks
<1>3. PICK acked : acked = {m \in s.msgs : \E k \in s.marks : k.m = m /\ k.lease = g.lease}
  OBVIOUS
<1>4. /\ q' = [s EXCEPT !.msgs = s.msgs \ acked, !.marks = {k \in s.marks : k.m \notin acked}]
      /\ gone' = gone \cup Expiring \cup Exits(acked, "acked", g.k)
      /\ batch = {} /\ UNCHANGED <<now, waiters, batch, copy, grants, sent, accepted>>
  BY <1>1, <1>3 DEF Ack, Quiet, save
<1>5. q'.l = q.l /\ q'.msgs = s.msgs \ acked /\ q'.marks = {k \in s.marks : k.m \notin acked}
  BY <1>2, <1>4 DEF Record
<1>6. Alone' /\ Sorted' /\ LeasesNumbered' /\ MarksNamed'
  BY <1>2, <1>4, <1>5 DEF SoloInv, Alone, Sorted, LeasesNumbered, MarksNamed
<1>7. ASSUME NEW x \in gone', x.how = "acked"
      PROVE  \E h \in grants : h.k = x.by /\ x.m \in h.msgs /\ x.at < h.until
  <2>1. CASE x \in gone
    BY <1>7, <2>1 DEF SoloInv, AckOwn
  <2>2. CASE x \in Expiring
    BY <1>7, <2>2, ExitsAre DEF Expiring
  <2>3. CASE x \in Exits(acked, "acked", g.k)
    <3>1. x.m \in acked /\ x.by = g.k /\ x.at = now
      BY <2>3 DEF Exits
    <3>2. PICK k \in s.marks : k.m = x.m /\ k.lease = g.lease
      BY <1>3, <3>1
    <3>3. PICK h \in grants : h.lease = k.lease /\ h.until = k.until /\ k.m \in h.msgs
      BY <1>2, <3>2 DEF SoloInv, MarksNamed
    <3>4. h = g
      BY <3>2, <3>3 DEF SoloInv, LeasesNumbered
    <3>5. k.until > now /\ k.until \in Nat
      BY <1>2, <3>2 DEF Record, Mark
    <3>6. QED
      BY <1>0, <3>1, <3>2, <3>3, <3>4, <3>5
  <2>4. QED
    BY <1>4, <2>1, <2>2, <2>3
<1>8. AckOwn'
  BY <1>4, <1>7 DEF AckOwn
<1>9. QED
  BY <1>6, <1>8 DEF SoloInv

LEMMA SoloHold ==
  ASSUME MaxWaiting <= 1, KeepInv, SoloInv, NEW a \in Asked, Hold(a)
  PROVE  SoloInv'
<1>0. now \in Nat /\ q \in Record
  BY DEF KeepInv, TypeOK
<1>1. /\ q' = Load(q) /\ batch = {} /\ waiters' = waiters \cup {a}
      /\ gone' = gone \cup Expiring /\ Cardinality(waiters) < MaxWaiting
      /\ UNCHANGED <<now, batch, copy, grants, sent, accepted>>
  BY DEF Hold, Quiet, save
<1>2. waiters = {}
  <2>1. ASSUME NEW w \in waiters PROVE FALSE
    <3>1. waiters = {w}
      BY DEF SoloInv, Alone
    <3>2. Cardinality(waiters) = 1
      BY <3>1, FS_Singleton
    <3>3. MaxWaiting \in Nat
      BY InstanceAssumption
    <3>4. QED
      BY <1>1, <3>2, <3>3
  <2>2. QED
    BY <2>1
<1>3. /\ q'.l = q.l /\ q'.msgs = {x \in q.msgs : Live(x)}
      /\ q'.marks = {k \in q.marks : Live(k.m) /\ k.until > now}
  BY <1>0, <1>1, LoadFacts, LoadMarks
<1>4. Alone' /\ Sorted' /\ LeasesNumbered' /\ MarksNamed'
  BY <1>1, <1>2, <1>3 DEF SoloInv, Alone, Sorted, LeasesNumbered, MarksNamed
<1>5. \A x \in Expiring : x.how # "acked"
  BY ExitsAre DEF Expiring
<1>6. AckOwn'
  BY <1>1, <1>5 DEF SoloInv, AckOwn
<1>7. QED
  BY <1>4, <1>6 DEF SoloInv

LEMMA SoloNext ==
  ASSUME MaxWaiting <= 1, KeepInv, SoloInv, [Next]_vars
  PROVE  SoloInv'
<1>1. ASSUME UNCHANGED <<q, past>>, batch' = {}, waiters' \subseteq waiters PROVE SoloInv'
  BY <1>1 DEF past, SoloInv, Alone, Sorted, LeasesNumbered, MarksNamed, AckOwn
<1>2. ASSUME NEW limit \in Limits, NEW d \in 0 .. MaxLease, Finish(Load(q), limit, d),
             UNCHANGED <<now, sent, accepted>>, batch' = {}, waiters' \subseteq waiters
      PROVE  SoloInv'
  BY <1>2, SoloFinish DEF SoloInv, Alone
<1>3. ASSUME NEW limit \in Limits, NEW d \in 0 .. MaxLease, Take(limit, d) PROVE SoloInv'
  BY <1>2, <1>3 DEF Take, Quiet
<1>4. ASSUME NEW w \in waiters, HoldTimeout(w) PROVE SoloInv'
  <2>1. w.limit \in Limits /\ w.d \in 0 .. MaxLease
    BY DEF KeepInv, TypeOK, Asked
  <2>2. QED
    BY <1>2, <1>4, <2>1 DEF HoldTimeout, Quiet
<1>5. ASSUME NEW w \in batch, Resume(w) PROVE SoloInv'
  <2>1. w.limit \in Limits /\ w.d \in 0 .. MaxLease
    BY DEF KeepInv, TypeOK, Asked
  <2>2. copy = Load(q) /\ batch = {w}
    BY DEF SoloInv, Alone
  <2>3. Finish(Load(q), w.limit, w.d)
    BY <1>5, <2>2 DEF Resume, Finish, save
  <2>4. QED
    BY <1>2, <1>5, <2>1, <2>2, <2>3 DEF Resume
<1>6. ASSUME Tick \/ StepClockBack \/ Evict PROVE SoloInv'
  BY <1>1, <1>6 DEF Tick, StepClockBack, Evict, Quiet
<1>7. ASSUME UNCHANGED vars PROVE SoloInv'
  BY <1>7 DEF vars, past, SoloInv, Alone, Sorted, LeasesNumbered, MarksNamed, AckOwn, Load, Live
<1>8. QED
  BY <1>3, <1>4, <1>5, <1>6, <1>7, SoloPut, SoloAck, SoloHold DEF Next, PutFull

\* As long as no two polls are held at the same time, what an acknowledgement
\* deletes was handed out under that very grant, which had not run out: what
\* polls woken together break (worker.ts, take and put) is broken by nothing else,
\* not by a clock that is set back, an eviction or a late acknowledgement.
THEOREM AcksAreOwnWhenAlone == MaxWaiting <= 1 => (Spec => []AckOwn)
<1> SUFFICES ASSUME MaxWaiting <= 1 PROVE Spec => []AckOwn
  OBVIOUS
<1>1. SoloInv => AckOwn
  BY DEF SoloInv
<1>2. QED
  BY <1>1, KeepInit, KeepNext, SoloInit, SoloNext, PTL DEF Spec

-----------------------------------------------------------------------------
(* Leases exclude.                                                         *)

\* While a lease lasts nobody else gets its messages, neither under a lease nor
\* by deletion: what the Go store promises as Store!LeaseExclusion, here over
\* evictions too, since the object keeps its leases in the stored record.
LeaseExclusion ==
  /\ \A g, h \in grants :
       g # h /\ g.msgs \cap h.msgs # {} => g.until <= h.at \/ h.until <= g.at
  /\ \A g \in grants : \A x \in gone :
       x.how = "taken" /\ x.m \in g.msgs => g.until <= x.at

\* What has left is not stored, and stays away.
GoneForGood == \A x \in gone : x.m \in accepted /\ x.m \notin q.msgs

\* A lease that has not run out is still marked on what it has left in the queue.
StillMarked ==
  \A g \in grants :
    /\ g.msgs \subseteq accepted
    /\ g.at \in Nat /\ g.at <= now /\ g.until \in Nat
    /\ g.until > now =>
         \A m \in g.msgs \cap q.msgs : \E k \in q.marks : k.m = m /\ k.until = g.until

ExcludeInv == GoneForGood /\ StillMarked /\ LeaseExclusion

\* A step that works on the stored record, loaded at this time: N is what it adds,
\* out what it hands out, H the grant it makes, if any, and X who leaves.
WorksOn(s, N, out, X, H) ==
  /\ UNCHANGED now /\ accepted \subseteq accepted'
  /\ s = Load(q) /\ N \cap accepted = {} /\ q'.msgs \subseteq s.msgs \cup N
  /\ \A k \in s.marks : k.m \in q'.msgs => k \in q'.marks
  /\ out \subseteq s.msgs /\ \A k \in s.marks : k.m \notin out
  /\ gone' = gone \cup X
  /\ \A x \in X : /\ x.m \in q.msgs /\ x.m \notin q'.msgs
                  /\ x.how = "taken" => x.m \in out /\ x.at = now
  /\ grants' = grants \cup H /\ \A g, h \in H : g = h
  /\ \A h \in H : /\ h.msgs = out /\ h.at = now /\ h.until \in Nat
                  /\ \A x \in X : x.how # "taken"
                  /\ \A m \in out : \E k \in q'.marks : k.m = m /\ k.until = h.until

LEMMA ExcludeStep ==
  ASSUME KeepInv, SoloInv, ExcludeInv,
         NEW s, NEW N, NEW out, NEW X, NEW H, WorksOn(s, N, out, X, H)
  PROVE  ExcludeInv'
<1> USE DEF WorksOn
<1>0. /\ now \in Nat /\ q \in Record /\ q.msgs \subseteq accepted
      /\ s.msgs = {m \in q.msgs : Live(m)}
      /\ s.marks = {k \in q.marks : Live(k.m) /\ k.until > now}
  BY LoadFacts, LoadMarks DEF KeepInv, TypeOK, SoloInv, Sorted
<1>1. ASSUME NEW g \in grants, NEW m \in g.msgs \cap out PROVE g.until <= now
  <2>1. m \in q.msgs /\ Live(m)
    BY <1>0
  <2>2. g.until \in Nat /\ ~(g.until > now)
    BY <1>0, <2>1 DEF ExcludeInv, StillMarked
  <2>3. QED
    BY <1>0, <2>2
<1>2. GoneForGood'
  BY <1>0 DEF ExcludeInv, GoneForGood
<1>3. StillMarked'
  <2>1. ASSUME NEW g \in grants, g.until > now, NEW m \in g.msgs \cap q'.msgs
        PROVE  \E k \in q'.marks : k.m = m /\ k.until = g.until
    <3>1. m \in s.msgs
      BY DEF ExcludeInv, StillMarked
    <3>2. PICK k \in q.marks : k.m = m /\ k.until = g.until
      BY <1>0, <2>1, <3>1 DEF ExcludeInv, StillMarked
    <3>3. k \in s.marks
      BY <1>0, <2>1, <3>1, <3>2
    <3>4. QED
      BY <3>2, <3>3
  <2>2. ASSUME NEW g \in grants
        PROVE  g.msgs \subseteq accepted' /\ g.at \in Nat /\ g.at <= now /\ g.until \in Nat
    BY DEF ExcludeInv, StillMarked
  <2>3. ASSUME NEW h \in H
        PROVE  h.msgs \subseteq accepted' /\ h.at \in Nat /\ h.at <= now /\ h.until \in Nat
    BY <1>0
  <2>4. QED
    BY <2>1, <2>2, <2>3 DEF StillMarked
<1>4. ASSUME NEW g \in grants', NEW h \in grants', g # h, NEW m \in g.msgs \cap h.msgs
      PROVE  g.until <= h.at \/ h.until <= g.at
  <2>1. CASE g \in grants /\ h \in grants
    BY <1>4, <2>1 DEF ExcludeInv, LeaseExclusion
  <2>2. CASE g \in grants /\ h \in H
    BY <1>1, <2>2
  <2>3. CASE g \in H /\ h \in grants
    BY <1>1, <2>3
  <2>4. QED
    BY <1>4, <2>1, <2>2, <2>3
<1>5. ASSUME NEW g \in grants', NEW x \in gone', x.how = "taken", x.m \in g.msgs
      PROVE  g.until <= x.at
  <2>1. CASE g \in grants /\ x \in gone
    BY <1>5, <2>1 DEF ExcludeInv, LeaseExclusion
  <2>2. CASE g \in grants /\ x \in X
    BY <1>1, <1>5, <2>2
  <2>3. CASE g \in H /\ x \in gone
    BY <1>0, <1>5, <2>3 DEF ExcludeInv, GoneForGood
  <2>4. CASE g \in H /\ x \in X
    BY <1>5, <2>4
  <2>5. QED
    BY <2>1, <2>2, <2>3, <2>4
<1>6. LeaseExclusion'
  BY <1>4, <1>5 DEF LeaseExclusion
<1>7. QED
  BY <1>2, <1>3, <1>6 DEF ExcludeInv

LEMMA ExitsNow ==
  ASSUME NEW S, NEW how, NEW by
  PROVE  \A x \in Exits(S, how, by) : x.m \in S /\ x.how = how /\ x.at = now
BY DEF Exits

\* What the seven days take is not in the record that was loaded.
LEMMA ExpiringAre ==
  ASSUME now \in Nat, q \in Record
  PROVE  \A x \in Expiring : x.m \in q.msgs /\ x.m \notin Load(q).msgs /\ x.how = "expired"
BY ExitsNow, LoadFacts DEF Expiring

LEMMA ExcludeFinish ==
  ASSUME KeepInv, SoloInv, ExcludeInv, NEW limit \in Limits, NEW d \in 0 .. MaxLease,
         Finish(Load(q), limit, d), UNCHANGED <<now, accepted>>
  PROVE  ExcludeInv'
<1>0. now \in Nat /\ q \in Record
  BY DEF KeepInv, TypeOK
<1>1. PICK s, out : s = Load(q) /\ out = available(s, limit)
  OBVIOUS
<1>2. s \in Record
  BY <1>0, <1>1, LoadFacts
<1>3. out \subseteq s.msgs /\ \A k \in s.marks : k.m \notin out
  BY <1>1, AvailableSubset, AvailableUnmarked
<1>4. s.msgs \subseteq q.msgs
  BY <1>0, <1>1, LoadFacts
<1>5. \A x \in Expiring : x.m \in q.msgs /\ x.m \notin s.msgs /\ x.how = "expired"
  BY <1>0, <1>1, ExpiringAre
<1>6. CASE /\ q'.msgs = s.msgs \ out /\ q'.marks = s.marks
           /\ gone' = gone \cup Expiring \cup Exits(out, "taken", 0)
           /\ grants' = grants
  <2>1. PICK X : X = Expiring \cup Exits(out, "taken", 0)
    OBVIOUS
  <2>2. \A x \in X : /\ x.m \in q.msgs /\ x.m \notin q'.msgs
                     /\ x.how = "taken" => x.m \in out /\ x.at = now
    BY <1>3, <1>4, <1>5, <1>6, <2>1, ExitsNow
  <2>3. PICK none : none = {}
    OBVIOUS
  <2>4. /\ gone' = gone \cup X /\ grants' = grants \cup none /\ none \cap accepted = {}
        /\ q'.msgs \subseteq s.msgs \cup none /\ out \in SUBSET s.msgs
        /\ \A k \in s.marks : k.m \in q'.msgs => k \in q'.marks
        /\ accepted \subseteq accepted' /\ UNCHANGED now
        /\ \A h \in none : FALSE
    BY <1>3, <1>6, <2>1, <2>3
  <2>5. WorksOn(s, none, out, X, none)
    BY <1>1, <1>3, <2>2, <2>4 DEF WorksOn
  <2>6. QED
    BY <2>5, ExcludeStep
<1>7. CASE /\ q'.msgs = s.msgs /\ q'.marks = s.marks \cup NewMarks(out, s.l, d)
           /\ gone' = gone \cup Expiring
           /\ grants' = grants \cup {NewGrant(out, s.l, d)}
  <2>1. PICK g : g = NewGrant(out, s.l, d)
    OBVIOUS
  <2>2. g.msgs = out /\ g.at = now /\ g.until = now + d
    BY <2>1 DEF NewGrant
  <2>3. g.until \in Nat
    BY <1>0, <2>2
  <2>4. ASSUME NEW m \in out PROVE \E k \in q'.marks : k.m = m /\ k.until = g.until
    <3>1. PICK k : k = [m |-> m, lease |-> s.l, until |-> now + d]
      OBVIOUS
    <3>2. k.m = m /\ k.until = g.until
      BY <2>2, <3>1
    <3>3. k \in q'.marks
      BY <1>7, <3>1 DEF NewMarks
    <3>4. QED
      BY <3>2, <3>3
  <2>5. PICK H : H = {g}
    OBVIOUS
  <2>6. \A h \in H : /\ h.msgs = out /\ h.at = now /\ h.until \in Nat
                     /\ \A x \in Expiring : x.how # "taken"
                     /\ \A m \in out : \E k \in q'.marks : k.m = m /\ k.until = h.until
    BY <1>5, <2>2, <2>3, <2>4, <2>5
  <2>7. PICK none, X : none = {} /\ X = Expiring
    OBVIOUS
  <2>8. /\ gone' = gone \cup X /\ grants' = grants \cup H /\ none \cap accepted = {}
        /\ q'.msgs \subseteq s.msgs \cup none /\ out \in SUBSET s.msgs
        /\ \A k \in s.marks : k.m \in q'.msgs => k \in q'.marks
        /\ accepted \subseteq accepted' /\ UNCHANGED now
        /\ \A v, w \in H : v = w
    BY <1>3, <1>7, <2>1, <2>5, <2>7
  <2>9. \A x \in X : /\ x.m \in q.msgs /\ x.m \notin q'.msgs
                     /\ x.how = "taken" => x.m \in out /\ x.at = now
    BY <1>5, <1>7, <2>7
  <2>10. WorksOn(s, none, out, X, H)
    BY <1>1, <1>3, <2>6, <2>7, <2>8, <2>9 DEF WorksOn
  <2>11. QED
    BY <2>10, ExcludeStep
<1>8. QED
  BY <1>1, <1>2, <1>6, <1>7, FinishCases

\* A step after which the queue has its letters, but for those that leave
\* otherwise than by a collection.
LEMMA ExcludeRest ==
  ASSUME KeepInv, SoloInv, ExcludeInv, UNCHANGED <<now, grants>>, accepted \subseteq accepted',
         NEW s, s = Load(q), NEW N, N \cap accepted = {}, q'.msgs \subseteq s.msgs \cup N,
         \A k \in s.marks : k.m \in q'.msgs => k \in q'.marks,
         NEW X, gone' = gone \cup X,
         \A x \in X : x.m \in q.msgs /\ x.m \notin q'.msgs /\ x.how # "taken"
  PROVE  ExcludeInv'
<1>1. WorksOn(s, N, {}, X, {})
  BY DEF WorksOn
<1>2. QED
  BY <1>1, ExcludeStep

LEMMA ExcludePut ==
  ASSUME KeepInv, SoloInv, ExcludeInv, Put
  PROVE  ExcludeInv'
<1>0. now \in Nat /\ q \in Record /\ q.n \in Nat /\ sent \in Nat
  BY DEF KeepInv, TypeOK, Record
<1>1. PICK s, m : s = Load(q) /\ m = [msg |-> sent + 1, id |-> s.n, at |-> now]
  OBVIOUS
<1>2. s \in Record /\ s.n = q.n /\ s.msgs \subseteq q.msgs
  BY <1>0, <1>1, LoadFacts
<1>3. /\ q' = [s EXCEPT !.n = s.n + 1, !.msgs = s.msgs \cup {m}]
      /\ accepted' = accepted \cup {m}
      /\ gone' = gone \cup Expiring /\ UNCHANGED <<now, grants>>
  BY <1>1 DEF Put, save
<1>4. q'.msgs = s.msgs \cup {m} /\ q'.marks = s.marks
  BY <1>2, <1>3 DEF Record
<1>5. m \notin accepted
  <2>1. m.id = q.n
    BY <1>1, <1>2
  <2>2. \A a \in accepted : a.id < q.n /\ a.id \in Nat
    BY DEF KeepInv, TypeOK, IdsBelow, Records, Message
  <2>3. QED
    BY <1>0, <2>1, <2>2
<1>6. q.msgs \subseteq accepted
  BY DEF SoloInv, Sorted
<1>7. \A x \in Expiring : x.m \in q.msgs /\ x.m \notin q'.msgs /\ x.how # "taken"
  BY <1>0, <1>1, <1>4, <1>5, <1>6, ExpiringAre
<1>8. {m} \cap accepted = {}
  BY <1>5
<1>9. QED
  BY <1>1, <1>3, <1>4, <1>7, <1>8, ExcludeRest

LEMMA ExcludeAck ==
  ASSUME KeepInv, SoloInv, ExcludeInv, NEW g \in grants, Ack(g)
  PROVE  ExcludeInv'
<1>0. now \in Nat /\ q \in Record
  BY DEF KeepInv, TypeOK
<1>1. PICK s : s = Load(q)
  OBVIOUS
<1>2. s \in Record /\ s.msgs \subseteq q.msgs
  BY <1>0, <1>1, LoadFacts
<1>3. PICK acked : acked = {m \in s.msgs : \E k \in s.marks : k.m = m /\ k.lease = g.lease}
  OBVIOUS
<1>4. /\ q' = [s EXCEPT !.msgs = s.msgs \ acked, !.marks = {k \in s.marks : k.m \notin acked}]
      /\ gone' = gone \cup Expiring \cup Exits(acked, "acked", g.k)
      /\ UNCHANGED <<now, grants, accepted>>
  BY <1>1, <1>3 DEF Ack, save
<1>5. q'.msgs = s.msgs \ acked /\ q'.marks = {k \in s.marks : k.m \notin acked}
  BY <1>2, <1>4 DEF Record
<1>6. PICK X : X = Expiring \cup Exits(acked, "acked", g.k)
  OBVIOUS
<1>7. \A x \in X : x.m \in q.msgs /\ x.m \notin q'.msgs /\ x.how # "taken"
  <2>1. \A x \in Expiring : x.m \in q.msgs /\ x.m \notin s.msgs /\ x.how = "expired"
    BY <1>0, <1>1, ExpiringAre
  <2>2. \A x \in Exits(acked, "acked", g.k) : x.m \in acked /\ x.how = "acked"
    BY ExitsNow
  <2>3. QED
    BY <1>2, <1>3, <1>5, <1>6, <2>1, <2>2
<1>8. PICK none : none = {}
  OBVIOUS
<1>9. /\ gone' = gone \cup X /\ none \cap accepted = {} /\ q'.msgs \subseteq s.msgs \cup none
      /\ \A k \in s.marks : k.m \in q'.msgs => k \in q'.marks
      /\ accepted \subseteq accepted' /\ UNCHANGED <<now, grants>>
  BY <1>4, <1>5, <1>6, <1>8
<1>10. QED
  BY <1>1, <1>7, <1>9, ExcludeRest

LEMMA ExcludeHold ==
  ASSUME KeepInv, SoloInv, ExcludeInv, NEW a \in Asked, Hold(a)
  PROVE  ExcludeInv'
<1>0. now \in Nat /\ q \in Record
  BY DEF KeepInv, TypeOK
<1>1. q' = Load(q) /\ gone' = gone \cup Expiring /\ UNCHANGED <<now, grants, accepted>>
  BY DEF Hold, save
<1>2. PICK s, none, X : s = Load(q) /\ none = {} /\ X = Expiring
  OBVIOUS
<1>3. /\ gone' = gone \cup X /\ none \cap accepted = {} /\ q'.msgs \subseteq s.msgs \cup none
      /\ \A k \in s.marks : k.m \in q'.msgs => k \in q'.marks
      /\ accepted \subseteq accepted' /\ UNCHANGED <<now, grants>>
  BY <1>1, <1>2
<1>4. \A x \in X : x.m \in q.msgs /\ x.m \notin q'.msgs /\ x.how # "taken"
  BY <1>0, <1>1, <1>2, ExpiringAre
<1>5. QED
  BY <1>2, <1>3, <1>4, ExcludeRest

LEMMA ExcludeNext ==
  ASSUME ~ClockMayStepBack, KeepInv, SoloInv, ExcludeInv, [Next]_vars
  PROVE  ExcludeInv'
<1>1. ASSUME NEW limit \in Limits, NEW d \in 0 .. MaxLease, Take(limit, d) PROVE ExcludeInv'
  BY <1>1, ExcludeFinish DEF Take
<1>2. ASSUME NEW w \in waiters, HoldTimeout(w) PROVE ExcludeInv'
  <2>1. w.limit \in Limits /\ w.d \in 0 .. MaxLease
    BY DEF KeepInv, TypeOK, Asked
  <2>2. QED
    BY <1>2, <2>1, ExcludeFinish DEF HoldTimeout
<1>3. ASSUME NEW w \in batch, Resume(w) PROVE ExcludeInv'
  <2>1. w.limit \in Limits /\ w.d \in 0 .. MaxLease
    BY DEF KeepInv, TypeOK, Asked
  <2>2. copy = Load(q)
    BY DEF SoloInv, Alone
  <2>3. Finish(Load(q), w.limit, w.d) /\ UNCHANGED <<now, accepted>>
    BY <1>3, <2>2 DEF Resume, Finish, save
  <2>4. QED
    BY <2>1, <2>3, ExcludeFinish
<1>4. ASSUME Tick PROVE ExcludeInv'
  <2>1. now \in Nat /\ now' = now + 1 /\ UNCHANGED <<q, accepted, gone, grants>>
    BY <1>4 DEF Tick, past, KeepInv, TypeOK
  <2>2. QED
    BY <2>1 DEF ExcludeInv, GoneForGood, StillMarked, LeaseExclusion
<1>5. ASSUME Evict \/ PutFull \/ UNCHANGED vars PROVE ExcludeInv'
  <2>1. UNCHANGED <<now, q, accepted, gone, grants>>
    BY <1>5 DEF Evict, PutFull, vars, past
  <2>2. QED
    BY <2>1 DEF ExcludeInv, GoneForGood, StillMarked, LeaseExclusion
<1>6. ~StepClockBack
  BY DEF StepClockBack
<1>7. QED
  BY <1>1, <1>2, <1>3, <1>4, <1>5, <1>6, ExcludePut, ExcludeAck, ExcludeHold DEF Next

\* As long as no two polls are held at once and Date.now() does not go back, a
\* lease of the Worker excludes (worker.ts, take and load): while it lasts nobody
\* else is given one of its messages, for any number of messages, leases, polls
\* one after the other, evictions, and messages of the old shape.
THEOREM LeasesExcludeWhenAlone ==
  MaxWaiting <= 1 /\ ~ClockMayStepBack => (Spec => []LeaseExclusion)
<1> SUFFICES ASSUME MaxWaiting <= 1, ~ClockMayStepBack PROVE Spec => []LeaseExclusion
  OBVIOUS
<1>1. Init => ExcludeInv
  <2>1. Init => gone = {} /\ grants = {}
    BY DEF Init
  <2>2. QED
    BY <2>1 DEF ExcludeInv, GoneForGood, StillMarked, LeaseExclusion
<1>2. KeepInv /\ SoloInv /\ ExcludeInv /\ [Next]_vars => ExcludeInv'
  BY ExcludeNext
<1>3. ExcludeInv => LeaseExclusion
  BY DEF ExcludeInv
<1>4. QED
  BY <1>1, <1>2, <1>3, KeepInit, KeepNext, SoloInit, SoloNext, PTL DEF Spec

-----------------------------------------------------------------------------
(* Letters and loans.                                                      *)

Letters(S) == {Letter(m) : m \in S}
Lent == {k \in q.marks : k.until > now}
Loans(K) == {Loan(k) : k \in K}
Old == {m \in q.msgs : ~Live(m)}
Free == {m \in q.msgs \ Old : \A k \in Lent : k.m # m}

LEMMA LetterFields ==
  /\ \A m : Letter(m).route = Route /\ Letter(m).msg = m.msg /\ Letter(m).at = m.at
  /\ \A k : Loan(k).m = Letter(k.m) /\ Loan(k).lease = k.lease /\ Loan(k).until = k.until
BY DEF Letter, Loan

LEMMA LetterInjective ==
  ASSUME KeepInv, SoloInv, NEW m \in accepted, NEW n \in accepted, Letter(m) = Letter(n)
  PROVE  m = n
<1>1. m.msg = n.msg
  BY LetterFields
<1>2. m.id \in Nat /\ n.id \in Nat /\ m.msg \in Nat
  BY DEF KeepInv, TypeOK, Message
<1>3. ~(m.id < n.id) /\ ~(n.id < m.id)
  BY <1>1, <1>2 DEF SoloInv, Sorted
<1>4. QED
  BY <1>2, <1>3 DEF KeepInv, IdNeverReused

LEMMA LetterMember ==
  ASSUME KeepInv, SoloInv, NEW S \in SUBSET accepted, NEW m \in accepted
  PROVE  Letter(m) \in Letters(S) <=> m \in S
BY LetterInjective DEF Letters

LEMMA LettersMinus ==
  ASSUME KeepInv, SoloInv, NEW S \in SUBSET accepted, NEW T \in SUBSET accepted
  PROVE  Letters(S \ T) = Letters(S) \ Letters(T)
<1>1. \A m \in S : Letter(m) \in Letters(T) <=> m \in T
  BY LetterMember
<1>2. QED
  BY <1>1 DEF Letters

LEMMA LoansWithout ==
  ASSUME KeepInv, SoloInv, NEW K, \A k \in K : k.m \in accepted, NEW T \in SUBSET accepted
  PROVE  Loans({k \in K : k.m \notin T}) = {l \in Loans(K) : l.m \notin Letters(T)}
<1>1. \A k \in K : Loan(k).m \in Letters(T) <=> k.m \in T
  BY LetterMember, LetterFields
<1>2. QED
  BY <1>1 DEF Loans

LEMMA Stored ==
  ASSUME KeepInv, SoloInv
  PROVE  /\ q.msgs \in SUBSET accepted /\ Old \in SUBSET accepted /\ Free \in SUBSET accepted
         /\ \A k \in Lent : k.m \in q.msgs /\ k.m \in accepted
         /\ \A m \in accepted : m.msg \in Nat /\ m.id \in Nat /\ m.at \in Nat
         /\ \A k \in q.marks : k.until \in Nat
         /\ now \in Nat /\ q \in Record
BY DEF KeepInv, TypeOK, Record, Mark, Message, SoloInv, Sorted, MarksNamed, Lent, Old, Free

LEMMA TooOldIs ==
  ASSUME KeepInv, SoloInv
  PROVE  Promise!TooOld(Route) = Letters(Old)
<1>1. Promise!TooOld(Route) = {l \in Letters(q.msgs) : l.route = Route /\ l.at + TTL < now}
  BY DEF Promise!TooOld, Letters
<1>2. \A m \in q.msgs : ~Live(m) <=> m.at + TTL < now
  BY Stored, QueueAssumption DEF Live
<1>3. QED
  BY <1>1, <1>2, LetterFields DEF Letters, Old

LEMMA FreeIs ==
  ASSUME KeepInv, SoloInv
  PROVE  Promise!Free(Route) = Letters(Free)
<1>1. Promise!Free(Route) = {l \in Letters(q.msgs) \ Letters(Old) :
                               l.route = Route /\ \A k \in Loans(Lent) : k.m # l}
  BY TooOldIs DEF Promise!Free, Letters, Loans, Lent
<1>2. Letters(q.msgs) \ Letters(Old) = Letters(q.msgs \ Old)
  BY Stored, LettersMinus
<1> DEFINE P(l) == l.route = Route /\ \A k \in Loans(Lent) : k.m # l
           Q(m) == \A k \in Lent : k.m # m
<1>3. ASSUME NEW m \in q.msgs PROVE P(Letter(m)) <=> Q(m)
  <2>1. (\A k \in Loans(Lent) : k.m # Letter(m)) <=> \A k \in Lent : Letter(k.m) # Letter(m)
    BY LetterFields DEF Loans
  <2>2. \A k \in Lent : Letter(k.m) = Letter(m) <=> k.m = m
    BY Stored, LetterInjective
  <2>3. QED
    BY <2>1, <2>2, LetterFields
<1>4. Free = {m \in q.msgs \ Old : Q(m)}
  BY DEF Free
<1> HIDE DEF P, Q
<1>5. {l \in Letters(q.msgs \ Old) : P(l)} = Letters({m \in q.msgs \ Old : Q(m)})
  BY <1>3 DEF Letters
<1>6. QED
  BY <1>1, <1>2, <1>4, <1>5 DEF P

\* What is available is the oldest of what is free.
LEMMA AvailableIsOldest ==
  ASSUME KeepInv, SoloInv, NEW limit \in Limits, NEW out, out = available(Load(q), limit)
  PROVE  /\ out \in SUBSET Free /\ out \in SUBSET accepted
         /\ Promise!OldestFirst(Letters(out), Promise!Free(Route))
<1>1. Load(q).msgs \ {k.m : k \in Load(q).marks} = Free
  <2>1. Load(q).msgs = q.msgs \ Old
    BY Stored, LoadFacts DEF Old
  <2>2. Load(q).marks = {k \in Lent : Live(k.m)}
    BY Stored, LoadMarks DEF Lent
  <2>3. QED
    BY <2>1, <2>2 DEF Free, Old
<1>2. out = First(Free, limit) /\ limit \in Nat
  BY <1>1, QueueAssumption DEF available
<1>3. out \in SUBSET Free /\ out \in SUBSET accepted /\ IsFiniteSet(Free)
  <2>1. out \in SUBSET Free
    BY <1>2 DEF First
  <2>2. IsFiniteSet(Free)
    BY Stored, FS_Subset DEF SoloInv, Sorted
  <2>3. QED
    BY <2>1, <2>2, Stored
<1>4. ASSUME NEW m \in out, NEW x \in Free \ out PROVE m.msg < x.msg
  <2>0. limit # 0
    BY <1>2, <1>4 DEF First
  <2> DEFINE below(y) == {z \in Free : z.id < y.id}
  <2>1. out = {y \in Free : Cardinality(below(y)) < limit}
    BY <1>2, <2>0 DEF First
  <2>2. Cardinality(below(m)) < limit /\ ~(Cardinality(below(x)) < limit)
    BY <1>3, <1>4, <2>1
  <2>3. m \in accepted /\ x \in accepted /\ m.id \in Nat /\ x.id \in Nat /\ Free \in SUBSET accepted
    BY <1>3, Stored
  <2>4. m.id < x.id
    <3>1. SUFFICES ASSUME x.id <= m.id PROVE FALSE
      BY <2>3
    <3>2. below(x) \subseteq below(m) /\ below(m) \subseteq Free
      BY <2>3, <3>1, Stored
    <3> HIDE DEF below
    <3>3. IsFiniteSet(below(m)) /\ Cardinality(below(m)) \in Nat
      BY <1>3, <3>2, FS_Subset, FS_CardinalityType
    <3>4. IsFiniteSet(below(x)) /\ Cardinality(below(x)) \in Nat
          /\ Cardinality(below(x)) <= Cardinality(below(m))
      BY <3>2, <3>3, FS_Subset, FS_CardinalityType
    <3>5. QED
      BY <1>2, <2>2, <3>3, <3>4
  <2>5. QED
    BY <2>3, <2>4 DEF SoloInv, Sorted
<1>5. Letters(Free) \ Letters(out) = Letters(Free \ out)
  BY <1>3, Stored, LettersMinus
<1>6. Letters(out) \subseteq Letters(Free)
  BY <1>3 DEF Letters
<1>7. \A l \in Letters(out) : \A y \in Letters(Free \ out) : l.msg < y.msg
  BY <1>4, LetterFields DEF Letters
<1>8. Promise!OldestFirst(Letters(out), Letters(Free))
  BY <1>5, <1>6, <1>7 DEF Promise!OldestFirst
<1>9. Promise!OldestFirst(Letters(out), Promise!Free(Route))
  BY <1>8, FreeIs DEF Promise!OldestFirst
<1>10. QED
  BY <1>3, <1>9

-----------------------------------------------------------------------------
(* The actions of the mailbox, in the words of the object.                 *)

Without(X) ==
  /\ Letters(q'.msgs) = Letters(q.msgs) \ X
  /\ Loans(Lent') = {l \in Loans(Lent) : l.m \notin X}

LEMMA WithoutIs ==
  ASSUME KeepInv, SoloInv, NEW out \in SUBSET q.msgs,
         q'.msgs = q.msgs \ out, Lent' = {k \in Lent : k.m \notin out}
  PROVE  Without(Letters(out))
<1>1. q.msgs \in SUBSET accepted /\ out \in SUBSET accepted /\ \A k \in Lent : k.m \in accepted
  BY Stored
<1>2. Letters(q'.msgs) = Letters(q.msgs) \ Letters(out)
  BY <1>1, LettersMinus
<1>3. Loans(Lent') = {l \in Loans(Lent) : l.m \notin Letters(out)}
  BY <1>1, LoansWithout
<1>4. QED
  BY <1>2, <1>3 DEF Without

LEMMA DeliverMeans ==
  ASSUME NEW S, NEW X, X = S \cup Promise!TooOld(Route), Without(X),
         Promise!OldestFirst(S, Promise!Free(Route)), UNCHANGED <<now, accepted, grants>>
  PROVE  Promise!Next
<1>1. /\ {Letter(m) : m \in q.msgs}' = {Letter(m) : m \in q.msgs} \ X
      /\ {Loan(k) : k \in {x \in q.marks : x.until > now}}'
           = {l \in {Loan(k) : k \in {x \in q.marks : x.until > now}} : l.m \notin X}
  BY DEF Without, Letters, Loans, Lent
<1>2. UNCHANGED <<now, {Letter(m) : m \in accepted}, {}, {g.lease : g \in grants}>>
  OBVIOUS
<1>3. Promise!Deliver(Route, S)
  BY <1>1, <1>2 DEF Promise!Deliver, Promise!Drop
<1>4. S \in SUBSET Promise!Free(Route)
  BY DEF Promise!OldestFirst
<1>5. QED
  BY <1>3, <1>4 DEF Promise!Next

LEMMA LendMeans ==
  ASSUME NEW S, NEW lease \in 1 .. MaxGrants, NEW d \in 1 .. MaxLease,
         Promise!OldestFirst(S, Promise!Free(Route)),
         lease \notin {g.lease : g \in grants},
         {g.lease : g \in grants'} = {g.lease : g \in grants} \cup {lease},
         Letters(q'.msgs) = Letters(q.msgs) \ Promise!TooOld(Route),
         Loans(Lent') = {l \in Loans(Lent) : l.m \notin Promise!TooOld(Route)}
                          \cup {[m |-> m, lease |-> lease, until |-> now + d] : m \in S},
         UNCHANGED <<now, accepted>>
  PROVE  Promise!Next
<1>1. /\ {Letter(m) : m \in q.msgs}' = {Letter(m) : m \in q.msgs} \ Promise!TooOld(Route)
      /\ {Loan(k) : k \in {x \in q.marks : x.until > now}}'
           = {l \in {Loan(k) : k \in {x \in q.marks : x.until > now}} : l.m \notin Promise!TooOld(Route)}
               \cup {[m |-> m, lease |-> lease, until |-> now + d] : m \in S}
  BY DEF Letters, Loans, Lent
<1>2. UNCHANGED <<now, {Letter(m) : m \in accepted}, {}>>
  OBVIOUS
<1>3. Promise!Lend(Route, S, lease, d)
  BY <1>1, <1>2 DEF Promise!Lend
<1>4. S \in SUBSET Promise!Free(Route)
  BY DEF Promise!OldestFirst
<1>5. QED
  BY <1>3, <1>4 DEF Promise!Next

LEMMA SettleMeans ==
  ASSUME NEW lease \in {g.lease : g \in grants}, NEW X, Without(X),
         X = Promise!TooOld(Route) \cup
               {m \in Letters(q.msgs) : m.route = Route /\ \E k \in Loans(Lent) : k.m = m /\ k.lease = lease},
         UNCHANGED <<now, accepted, grants>>
  PROVE  Promise!Next
<1>1. /\ {Letter(m) : m \in q.msgs}' = {Letter(m) : m \in q.msgs} \ X
      /\ {Loan(k) : k \in {x \in q.marks : x.until > now}}'
           = {l \in {Loan(k) : k \in {x \in q.marks : x.until > now}} : l.m \notin X}
  BY DEF Without, Letters, Loans, Lent
<1>2. UNCHANGED <<now, {Letter(m) : m \in accepted}, {}, {g.lease : g \in grants}>>
  OBVIOUS
<1>3. Promise!Settle(Route, lease)
  BY <1>1, <1>2 DEF Promise!Settle, Promise!Drop, Letters, Loans, Lent
<1>4. QED
  BY <1>3 DEF Promise!Next

-----------------------------------------------------------------------------
(* Each handler is a step of the mailbox.                                  *)

\* What load leaves, and the loans on it.
LEMMA LoadIs ==
  ASSUME KeepInv, SoloInv, NEW s, s = Load(q)
  PROVE  /\ s \in Record /\ s.l = q.l /\ s.n = q.n /\ s.msgs = q.msgs \ Old
         /\ {k \in s.marks : k.until > now} = {k \in Lent : k.m \notin Old}
         /\ \A k \in s.marks : k \in Lent
<1>1. q \in Record /\ now \in Nat /\ \A k \in Lent : k.m \in q.msgs
  BY Stored
<1>2. s \in Record /\ s.l = q.l /\ s.n = q.n /\ s.msgs = {m \in q.msgs : Live(m)}
      /\ s.marks = {k \in q.marks : Live(k.m) /\ k.until > now}
  BY <1>1, LoadFacts, LoadMarks
<1>3. s.marks = {k \in Lent : Live(k.m)}
  BY <1>2 DEF Lent
<1>4. \A k \in Lent : k.m \in Old <=> ~Live(k.m)
  BY <1>1 DEF Old
<1>5. {k \in s.marks : k.until > now} = {k \in Lent : k.m \notin Old}
  BY <1>3, <1>4 DEF Lent
<1>6. QED
  BY <1>2, <1>3, <1>5 DEF Old

\* Nothing but what is too old goes.
LEMMA LoadSaved ==
  ASSUME KeepInv, SoloInv, q' = Load(q), UNCHANGED <<now, accepted, grants>>
  PROVE  Promise!Next
<1>1. PICK s : s = Load(q)
  OBVIOUS
<1>2. q'.msgs = q.msgs \ Old /\ Lent' = {k \in Lent : k.m \notin Old}
  BY <1>1, LoadIs DEF Lent
<1>3. Without(Letters(Old))
  BY <1>2, WithoutIs DEF Old
<1>4. PICK X : X = Letters(Old)
  OBVIOUS
<1>5. Without(X) /\ X = {} \cup Promise!TooOld(Route)
  BY <1>3, <1>4, TooOldIs DEF Without
<1>6. Promise!OldestFirst({}, Promise!Free(Route))
  BY DEF Promise!OldestFirst
<1>7. QED
  BY <1>5, <1>6, DeliverMeans

LEMMA FinishIs ==
  ASSUME KeepInv, SoloInv, NEW limit \in Limits, NEW d \in 0 .. MaxLease,
         Finish(Load(q), limit, d), UNCHANGED <<now, accepted>>
  PROVE  Promise!Next
<1>1. PICK s, out : s = Load(q) /\ out = available(Load(q), limit)
  OBVIOUS
<1>2. /\ s \in Record /\ s.l = q.l /\ s.msgs = q.msgs \ Old
      /\ {k \in s.marks : k.until > now} = {k \in Lent : k.m \notin Old}
      /\ \A k \in s.marks : k \in Lent
  BY <1>1, LoadIs
<1>3. /\ out \in SUBSET Free /\ out \in SUBSET accepted
      /\ Promise!OldestFirst(Letters(out), Promise!Free(Route))
  BY <1>1, AvailableIsOldest
<1>4. PICK S : S = Letters(out)
  OBVIOUS
<1>5. Promise!OldestFirst(S, Promise!Free(Route))
  BY <1>3, <1>4 DEF Promise!OldestFirst
<1>6. Finish(s, limit, d) /\ out = available(s, limit)
  BY <1>1 DEF Finish, save
<1>7. CASE /\ q'.msgs = s.msgs \ out /\ q'.marks = s.marks /\ grants' = grants
  <2>1. PICK T : T = Old \cup out
    OBVIOUS
  <2>2. T \in SUBSET q.msgs /\ q'.msgs = q.msgs \ T
    BY <1>2, <1>3, <1>7, <2>1 DEF Old, Free
  <2>3. Lent' = {k \in Lent : k.m \notin T}
    <3>1. Lent' = {k \in Lent : k.m \notin Old}
      BY <1>2, <1>7 DEF Lent
    <3>2. \A k \in Lent : k.m \notin out
      BY <1>3 DEF Free
    <3>3. QED
      BY <2>1, <3>1, <3>2
  <2>4. Without(Letters(T))
    BY <2>2, <2>3, WithoutIs
  <2>5. PICK X : X = Letters(T)
    OBVIOUS
  <2>6. X = S \cup Promise!TooOld(Route)
    <3>1. Letters(T) = Letters(out) \cup Letters(Old)
      BY <2>1 DEF Letters
    <3>2. QED
      BY <1>4, <2>5, <3>1, TooOldIs
  <2>7. Without(X)
    BY <2>4, <2>5 DEF Without
  <2>8. QED
    BY <1>5, <1>7, <2>6, <2>7, DeliverMeans
<1>8. CASE /\ d > 0 /\ Cardinality(grants) < MaxGrants
           /\ q'.msgs = s.msgs /\ q'.marks = s.marks \cup NewMarks(out, s.l, d)
           /\ grants' = grants \cup {NewGrant(out, s.l, d)}
  <2>1. PICK l : l = s.l
    OBVIOUS
  <2>2. /\ l \in 1 .. MaxGrants /\ l \notin {g.lease : g \in grants} /\ d \in 1 .. MaxLease
    <3>1. /\ Cardinality(grants) \in Nat /\ l = Cardinality(grants) + 1
          /\ \A g \in grants : g.lease \in Nat /\ g.lease < l
      BY <1>2, <2>1, FS_CardinalityType DEF SoloInv, LeasesNumbered
    <3>2. QED
      BY <1>8, <3>1, QueueAssumption, InstanceAssumption
  <2>3. {g.lease : g \in grants'} = {g.lease : g \in grants} \cup {l}
    <3>1. NewGrant(out, s.l, d).lease = l
      BY <2>1 DEF NewGrant
    <3>2. QED
      BY <1>8, <3>1
  <2>4. Letters(q'.msgs) = Letters(q.msgs) \ Promise!TooOld(Route)
    <3>1. Letters(q.msgs \ Old) = Letters(q.msgs) \ Letters(Old)
      BY Stored, LettersMinus
    <3>2. QED
      BY <1>2, <1>8, <3>1, TooOldIs
  <2>5. Loans(Lent') = {x \in Loans(Lent) : x.m \notin Promise!TooOld(Route)}
                         \cup {[m |-> m, lease |-> l, until |-> now + d] : m \in S}
    <3> DEFINE new(m) == [m |-> m, lease |-> l, until |-> now + d]
    <3>1. \A m : new(m).m = m /\ new(m).until = now + d /\ Loan(new(m)) = new(Letter(m))
      BY DEF Loan
    <3>2. NewMarks(out, s.l, d) = {new(m) : m \in out}
      BY <2>1 DEF NewMarks
    <3>3. {[m |-> m, lease |-> l, until |-> now + d] : m \in S} = {new(m) : m \in S}
      OBVIOUS
    <3>4. now + d > now
      BY <1>8, Stored
    <3> HIDE DEF new
    <3>5. Lent' = {k \in Lent : k.m \notin Old} \cup {new(m) : m \in out}
      <4>1. Lent' = {k \in s.marks : k.until > now} \cup {k \in {new(m) : m \in out} : k.until > now}
        BY <1>8, <3>2 DEF Lent
      <4>2. {k \in {new(m) : m \in out} : k.until > now} = {new(m) : m \in out}
        BY <3>1, <3>4
      <4>3. QED
        BY <1>2, <4>1, <4>2
    <3>6. Loans({k \in Lent : k.m \notin Old}) = {x \in Loans(Lent) : x.m \notin Letters(Old)}
      BY Stored, LoansWithout
    <3>7. Loans({new(m) : m \in out}) = {new(m) : m \in S}
      BY <1>4, <3>1 DEF Loans, Letters
    <3>8. \A A, B : Loans(A \cup B) = Loans(A) \cup Loans(B)
      BY DEF Loans
    <3>9. Loans(Lent') = Loans({k \in Lent : k.m \notin Old}) \cup Loans({new(m) : m \in out})
      BY <3>5, <3>8
    <3>10. QED
      BY <3>3, <3>6, <3>7, <3>9, TooOldIs
  <2>6. QED
    BY <1>5, <2>2, <2>3, <2>4, <2>5, LendMeans
<1>9. QED
  BY <1>2, <1>6, <1>7, <1>8, FinishCases

LEMMA PutIs ==
  ASSUME KeepInv, SoloInv, Put
  PROVE  Promise!Next
<1>0. now \in Nat /\ sent \in Nat /\ \A a \in accepted : a.msg \in Nat
  BY DEF KeepInv, TypeOK, Message
<1>1. PICK s, m : s = Load(q) /\ m = [msg |-> sent + 1, id |-> s.n, at |-> now]
  OBVIOUS
<1>2. /\ s \in Record /\ s.msgs = q.msgs \ Old
      /\ {k \in s.marks : k.until > now} = {k \in Lent : k.m \notin Old}
  BY <1>1, LoadIs
<1>3. m.msg = sent + 1 /\ m.at = now
  BY <1>1
<1>4. /\ q' = [s EXCEPT !.n = s.n + 1, !.msgs = s.msgs \cup {m}]
      /\ accepted' = accepted \cup {m} /\ UNCHANGED <<now, grants>>
  BY <1>1 DEF Put, save
<1>5. q'.msgs = s.msgs \cup {m} /\ q'.marks = s.marks
  BY <1>2, <1>4 DEF Record
<1>6. PICK n, X : n = Letter(m) /\ X = Letters(Old)
  OBVIOUS
<1>7. X = Promise!TooOld(Route) /\ n.route = Route /\ n.at = now /\ n.msg = sent + 1
  BY <1>3, <1>6, TooOldIs, LetterFields
<1>8. Letters(q'.msgs) = (Letters(q.msgs) \ X) \cup {n}
  <2>1. Letters(q.msgs \ Old) = Letters(q.msgs) \ Letters(Old)
    BY Stored, LettersMinus
  <2>2. Letters((q.msgs \ Old) \cup {m}) = Letters(q.msgs \ Old) \cup {n}
    BY <1>6 DEF Letters
  <2>3. QED
    BY <1>2, <1>5, <1>6, <2>1, <2>2
<1>9. Loans(Lent') = {l \in Loans(Lent) : l.m \notin X}
  <2>1. Lent' = {k \in Lent : k.m \notin Old}
    BY <1>2, <1>4, <1>5 DEF Lent
  <2>2. Loans({k \in Lent : k.m \notin Old}) = {x \in Loans(Lent) : x.m \notin Letters(Old)}
    BY Stored, LoansWithout
  <2>3. QED
    BY <1>6, <2>1, <2>2
<1>10. /\ Letters(accepted') = Letters(accepted) \cup {n}
       /\ \A x \in Letters(accepted) : x.msg < n.msg /\ x.msg # n.msg
  <2>1. \A a \in accepted : a.msg < sent + 1 /\ a.msg # sent + 1
    BY <1>0 DEF SoloInv, Sorted
  <2>2. QED
    BY <1>4, <1>6, <1>7, <2>1, LetterFields DEF Letters
<1>11. n \notin Letters(accepted)
  BY <1>10
<1>12. /\ {Letter(a) : a \in accepted}' = {Letter(a) : a \in accepted} \cup {n}
       /\ \A x \in {Letter(a) : a \in accepted} : x.msg < n.msg
       /\ n \in {Letter(a) : a \in accepted}' \ {Letter(a) : a \in accepted}
  BY <1>10, <1>11 DEF Letters
<1>13. /\ {Letter(a) : a \in q.msgs}' = ({Letter(a) : a \in q.msgs} \ X) \cup {n}
       /\ {Loan(k) : k \in {x \in q.marks : x.until > now}}'
            = {l \in {Loan(k) : k \in {x \in q.marks : x.until > now}} : l.m \notin X}
       /\ X \in {{}, Promise!TooOld(n.route)}
  BY <1>7, <1>8, <1>9 DEF Letters, Loans, Lent
<1>14. UNCHANGED <<now, {}, {g.lease : g \in grants}>> /\ n.at <= now
  BY <1>0, <1>4, <1>7
<1>15. Promise!Accept(n)
  BY <1>12, <1>13, <1>14 DEF Promise!Accept
<1>16. QED
  BY <1>12, <1>15 DEF Promise!Next

LEMMA AckIs ==
  ASSUME KeepInv, SoloInv, NEW g \in grants, Ack(g)
  PROVE  Promise!Next
<1>1. PICK s : s = Load(q)
  OBVIOUS
<1>2. /\ s \in Record /\ s.msgs = q.msgs \ Old
      /\ {k \in s.marks : k.until > now} = {k \in Lent : k.m \notin Old}
      /\ \A k \in s.marks : k \in Lent
  BY <1>1, LoadIs
<1>3. PICK acked : acked = {m \in s.msgs : \E k \in s.marks : k.m = m /\ k.lease = g.lease}
  OBVIOUS
<1>4. /\ q' = [s EXCEPT !.msgs = s.msgs \ acked, !.marks = {k \in s.marks : k.m \notin acked}]
      /\ UNCHANGED <<now, grants, accepted>>
  BY <1>1, <1>3 DEF Ack, save
<1>5. q'.msgs = s.msgs \ acked /\ q'.marks = {k \in s.marks : k.m \notin acked}
  BY <1>2, <1>4 DEF Record
<1>6. PICK T, lentTo :
        /\ lentTo = {m \in q.msgs : \E k \in Lent : k.m = m /\ k.lease = g.lease}
        /\ T = Old \cup lentTo
  OBVIOUS
<1>7. /\ acked = lentTo \ Old /\ T = Old \cup acked /\ T \in SUBSET q.msgs
  <2>1. \A k \in Lent : k.m \notin Old => k \in s.marks
    BY <1>2
  <2>2. acked = lentTo \ Old
    BY <1>2, <1>3, <1>6, <2>1
  <2>3. QED
    BY <1>6, <2>2 DEF Old
<1>8. q'.msgs = q.msgs \ T
  BY <1>2, <1>5, <1>7
<1>9. Lent' = {k \in Lent : k.m \notin T}
  <2>1. Lent' = {k \in {k \in s.marks : k.until > now} : k.m \notin acked}
    BY <1>4, <1>5 DEF Lent
  <2>2. QED
    BY <1>2, <1>7, <2>1
<1>10. Without(Letters(T))
  BY <1>7, <1>8, <1>9, WithoutIs
<1>11. PICK X, lease : X = Letters(T) /\ lease = g.lease
  OBVIOUS
<1> DEFINE P(l) == l.route = Route /\ \E k \in Loans(Lent) : k.m = l /\ k.lease = lease
           Q(m) == \E k \in Lent : k.m = m /\ k.lease = lease
<1>12. ASSUME NEW m \in q.msgs PROVE P(Letter(m)) <=> Q(m)
  <2>1. \A k \in Lent : Letter(k.m) = Letter(m) <=> k.m = m
    BY Stored, LetterInjective
  <2>2. ASSUME NEW k \in Loans(Lent), k.m = Letter(m), k.lease = lease
        PROVE  \E x \in Lent : x.m = m /\ x.lease = lease
    <3>1. PICK x \in Lent : k = Loan(x)
      BY DEF Loans
    <3>2. x.m = m /\ x.lease = lease
      BY <2>1, <2>2, <3>1, LetterFields
    <3>3. QED
      BY <3>2
  <2>3. ASSUME NEW x \in Lent, x.m = m, x.lease = lease
        PROVE  \E k \in Loans(Lent) : k.m = Letter(m) /\ k.lease = lease
    <3>1. Loan(x) \in Loans(Lent) /\ Loan(x).m = Letter(m) /\ Loan(x).lease = lease
      BY <2>3, LetterFields DEF Loans
    <3>2. QED
      BY <3>1
  <2>4. QED
    BY <2>2, <2>3, LetterFields
<1>13. lentTo = {m \in q.msgs : Q(m)}
  BY <1>6, <1>11
<1> HIDE DEF P, Q
<1>14. {l \in Letters(q.msgs) : P(l)} = Letters(lentTo)
  BY <1>12, <1>13 DEF Letters
<1>15. X = Letters(Old) \cup Letters(lentTo)
  BY <1>6, <1>11 DEF Letters
<1>16. X = Promise!TooOld(Route) \cup
         {m \in Letters(q.msgs) : m.route = Route /\ \E k \in Loans(Lent) : k.m = m /\ k.lease = lease}
  BY <1>14, <1>15, TooOldIs DEF P
<1>17. Without(X) /\ lease \in {h.lease : h \in grants}
  BY <1>10, <1>11 DEF Without
<1>18. QED
  BY <1>4, <1>16, <1>17, SettleMeans

LEMMA TickIs ==
  ASSUME KeepInv, SoloInv, Tick
  PROVE  Promise!Next
<1>1. now' = now + 1 /\ UNCHANGED <<q, accepted, grants>>
  BY DEF Tick, past
<1>2. now \in Nat /\ \A k \in q.marks : k.until \in Nat
  BY Stored
<1>3. Lent' = {k \in Lent : k.until > now + 1}
  BY <1>1, <1>2 DEF Lent
<1>4. Loans(Lent') = {l \in Loans(Lent) : l.until > now + 1}
  BY <1>3, LetterFields DEF Loans
<1>5. {Loan(k) : k \in {x \in q.marks : x.until > now}}'
        = {l \in {Loan(k) : k \in {x \in q.marks : x.until > now}} : l.until > now'}
  BY <1>1, <1>4 DEF Loans, Lent
<1>6. UNCHANGED <<{Letter(m) : m \in accepted}, {Letter(m) : m \in q.msgs}, {}, {g.lease : g \in grants}>>
  BY <1>1
<1>7. Promise!Tick
  BY <1>1, <1>5, <1>6 DEF Promise!Tick
<1>8. QED
  BY <1>7 DEF Promise!Next

LEMMA StepIs ==
  ASSUME MaxWaiting <= 1, ~ClockMayStepBack, KeepInv, SoloInv, [Next]_vars
  PROVE  Promise!Next \/ UNCHANGED Promise!vars
<1>1. ASSUME NEW limit \in Limits, NEW d \in 0 .. MaxLease, Take(limit, d) PROVE Promise!Next
  BY <1>1, FinishIs DEF Take
<1>2. ASSUME NEW w \in waiters, HoldTimeout(w) PROVE Promise!Next
  <2>1. w.limit \in Limits /\ w.d \in 0 .. MaxLease
    BY DEF KeepInv, TypeOK, Asked
  <2>2. QED
    BY <1>2, <2>1, FinishIs DEF HoldTimeout
<1>3. ASSUME NEW w \in batch, Resume(w) PROVE Promise!Next
  <2>1. w.limit \in Limits /\ w.d \in 0 .. MaxLease
    BY DEF KeepInv, TypeOK, Asked
  <2>2. copy = Load(q)
    BY DEF SoloInv, Alone
  <2>3. Finish(Load(q), w.limit, w.d) /\ UNCHANGED <<now, accepted>>
    BY <1>3, <2>2 DEF Resume, Finish, save
  <2>4. QED
    BY <2>1, <2>3, FinishIs
<1>4. ASSUME NEW a \in Asked, Hold(a) PROVE Promise!Next
  BY <1>4, LoadSaved DEF Hold, save
<1>5. ASSUME Evict \/ PutFull \/ UNCHANGED vars PROVE UNCHANGED Promise!vars
  <2>1. UNCHANGED <<now, q, accepted, grants>>
    BY <1>5 DEF Evict, PutFull, vars, past
  <2>2. QED
    BY <2>1 DEF Promise!vars
<1>6. ~StepClockBack
  BY DEF StepClockBack
<1>7. QED
  BY <1>1, <1>2, <1>3, <1>4, <1>5, <1>6, PutIs, AckIs, TickIs DEF Next

LEMMA MapsInit ==
  ASSUME MaxFound = 0, Init
  PROVE  Promise!Init
<1>1. PICK k \in 0 .. MaxFound :
        LET found == {[msg |-> i, id |-> i, at |-> 0] : i \in 1 .. k}
        IN  /\ q = [n |-> k + 1, l |-> 1, msgs |-> found, marks |-> {}]
            /\ now = 0 /\ accepted = found /\ grants = {}
  BY DEF Init
<1>2. k = 0
  BY <1>1
<1>3. {[msg |-> i, id |-> i, at |-> 0] : i \in 1 .. k} = {}
  BY <1>2
<1>4. now = 0 /\ accepted = {} /\ q.msgs = {} /\ q.marks = {} /\ grants = {}
  BY <1>1, <1>3
<1>5. QED
  BY <1>4 DEF Promise!Init

\* The Durable Object keeps the promise the Go store keeps (worker.ts, RelayQueue):
\* each handler is a step of the mailbox, and an eviction is invisible there, for
\* any number of messages, leases and polls one after the other.  It takes that
\* no two polls are held at once, that Date.now() does not go back and that the
\* object starts with nothing stored.
THEOREM WorkerImplementsMailbox ==
  MaxWaiting <= 1 /\ ~ClockMayStepBack /\ MaxFound = 0 => (Spec => ImplementsMailbox)
<1> SUFFICES ASSUME MaxWaiting <= 1, ~ClockMayStepBack, MaxFound = 0
             PROVE  Spec => ImplementsMailbox
  OBVIOUS
<1>1. KeepInv /\ SoloInv /\ [Next]_vars => [Promise!Next]_(Promise!vars)
  BY StepIs
<1>2. QED
  BY <1>1, KeepInit, KeepNext, SoloInit, SoloNext, MapsInit, PTL DEF Spec, ImplementsMailbox, Promise!Spec

=============================================================================
