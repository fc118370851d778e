------------------------- MODULE StoreMailboxProofs -------------------------
(***************************************************************************)
(* Proofs about the store's collection leases, and that the store          *)
(* implements Mailbox, for every value of the constants.                   *)
(***************************************************************************)
EXTENDS StoreMailbox, StoreProofs

-----------------------------------------------------------------------------
(* What leases rest on.                                                    *)

\* Messages somebody may speak of: handed over, expired, or named in a grant.
Spoken == Gone \cup UNION {g.msgs : g \in grants}

\* Payloads are numbered in the order of arrival, and what is being written is
\* newer than anything in the queue or spoken of.
Numbered ==
  /\ \A m \in Around \cup Spoken : m.msg <= sent
  /\ busy \in {"write", "sync"} => \A m \in q \cup Spoken : m.msg < cur.msg

\* A grant's id is its run and its number in that run.
GrantsNamed ==
  \A g \in grants :
    /\ g.lease = <<g.run, g.k>> /\ g.run <= epoch
    /\ g.run = epoch => g.k <= leases

\* Every mark was made by a grant of this run, which says the same.
MarksGranted ==
  \A k \in marks : \E g \in grants :
    g.run = epoch /\ g.lease = k.lease /\ g.until = k.until /\ k.m \in g.msgs

\* While a grant of this run lasts, what it lent and is still queued is marked.
GrantsMarked ==
  \A g \in grants : \A m \in g.msgs \cap q :
    g.run = epoch /\ now < g.until => \E k \in marks : k.m = m /\ k.until = g.until

\* What left the queue in this run is not in it again.
GoneForGood == \A x \in gone : x.run <= epoch /\ (x.run = epoch => x.m \notin q)

LeaseInv ==
  /\ Numbered
  /\ GrantsNamed
  /\ MarksGranted
  /\ GrantsMarked
  /\ GoneForGood
  /\ AckOwn
  /\ LeaseExclusion

LEMMA ExitFields ==
  ASSUME NEW S, NEW how, NEW by, NEW x \in Exits(S, how, by)
  PROVE  x.m \in S /\ x.how = how /\ x.at = now /\ x.run = epoch /\ x.by = by
BY DEF Exits

-----------------------------------------------------------------------------
(* Operations that collect, acknowledge or expire.                         *)

\* Messages leave the queue with their marks; other marks only when lapsed.
Clears(out, E) ==
  /\ Leaves(out)
  /\ \E lapsed \in SUBSET marks :
       /\ \A k \in lapsed : k.until <= now
       /\ marks' = {k \in marks \ lapsed : k.m \notin out}
  /\ gone' = gone \cup E
  /\ \A x \in E : x.m \in out /\ x.run = epoch /\ x.at = now
  /\ UNCHANGED <<grants, leases>>

LEMMA ClearsKeeps ==
  ASSUME TypeOK, LeaseInv, NEW out \in SUBSET q, NEW E, Clears(out, E)
  PROVE  Numbered' /\ GrantsNamed' /\ MarksGranted' /\ GrantsMarked' /\ GoneForGood'
<1>1. /\ q' = q \ out /\ Gone' = Gone \cup out /\ busy' \in {"idle", "stamp"}
      /\ UNCHANGED <<now, epoch, disk, firm, loose, sent, grants, leases>>
  BY DEF Clears, Leaves, Leave, media
<1>2. Spoken' \subseteq Spoken \cup q /\ Around' \subseteq Around
  BY <1>1 DEF Spoken, Around
<1>3. Numbered'
  BY <1>1, <1>2 DEF LeaseInv, Numbered, Around
<1>4. GrantsNamed'
  BY <1>1 DEF LeaseInv, GrantsNamed
<1>5. MarksGranted'
  BY <1>1 DEF LeaseInv, MarksGranted, Clears
<1>6. GrantsMarked'
  <2>1. SUFFICES ASSUME NEW g \in grants, NEW m \in g.msgs, m \in q', g.run = epoch, now < g.until
        PROVE  \E k \in marks' : k.m = m /\ k.until = g.until
    BY <1>1 DEF GrantsMarked
  <2>2. PICK k \in marks : k.m = m /\ k.until = g.until
    BY <1>1, <2>1 DEF LeaseInv, GrantsMarked
  <2>3. ~(k.until <= now)
    BY <2>1, <2>2 DEF TypeOK, Grant
  <2>4. k \in marks'
    BY <1>1, <2>1, <2>2, <2>3 DEF Clears
  <2>5. QED
    BY <2>2, <2>4
<1>7. GoneForGood'
  <2>1. SUFFICES ASSUME NEW x \in gone' PROVE x.run <= epoch /\ (x.run = epoch => x.m \notin q')
    BY <1>1 DEF GoneForGood
  <2>2. CASE x \in gone
    BY <1>1, <2>2 DEF LeaseInv, GoneForGood
  <2>3. CASE x \in E
    BY <1>1, <2>3 DEF Clears, TypeOK
  <2>4. QED
    BY <2>1, <2>2, <2>3 DEF Clears
<1>8. QED
  BY <1>3, <1>4, <1>5, <1>6, <1>7

\* Nothing is taken or acknowledged: the histories say no more than before.
LEMMA ClearsExpired ==
  ASSUME TypeOK, LeaseInv, NEW out \in SUBSET q, Clears(out, Exits(out, "expired", NoOne))
  PROVE  LeaseInv'
<1> DEFINE E == Exits(out, "expired", NoOne)
<1>1. Clears(out, E) /\ \A x \in E : x.how = "expired"
  BY ExitFields
<1> HIDE DEF E
<1>2. gone' = gone \cup E /\ grants' = grants
  BY <1>1 DEF Clears
<1>3. AckOwn'
  BY <1>1, <1>2 DEF LeaseInv, AckOwn
<1>4. LeaseExclusion'
  BY <1>1, <1>2 DEF LeaseInv, LeaseExclusion
<1>5. QED
  BY <1>1, <1>3, <1>4, ClearsKeeps DEF LeaseInv

LEMMA PutClears ==
  ASSUME TypeOK, NEW r \in Routes, PutFull(r) \/ PutAdmit(r)
  PROVE  /\ Expired(r) \in SUBSET q
         /\ Clears(Expired(r), Exits(Expired(r), "expired", NoOne))
<1> DEFINE out == Expired(r)
           E == Exits(out, "expired", NoOne)
<1>1. out \in SUBSET q
  BY QueueSubset
<1>2. \A x \in E : x.m \in out /\ x.run = epoch /\ x.at = now
  BY ExitFields
<1>3. /\ gone' = gone \cup E /\ Gone' = Gone \cup out
      /\ marks' = {k \in marks \ {} : k.m \notin out}
      /\ UNCHANGED <<grants, leases>>
  BY ExitsGoneOne DEF PutFull, PutAdmit
<1>4. Leaves(out)
  <2>1. CASE PutFull(r)
    BY <1>3, <2>1 DEF PutFull, Leaves, Idle
  <2>2. CASE PutAdmit(r)
    <3>1. cur'.route = r
      BY <2>2 DEF PutAdmit, TypeOK, Message
    <3>2. QED
      BY <1>3, <2>2, <3>1 DEF PutAdmit, Leaves
  <2>3. QED
    BY <2>1, <2>2
<1> HIDE DEF out
<1>5. Clears(out, E)
  BY <1>2, <1>3, <1>4 DEF Clears
<1>6. QED
  BY <1>1, <1>5 DEF out

LEMMA LeasePut ==
  ASSUME TypeOK, LeaseInv, NEW r \in Routes, PutFull(r) \/ PutAdmit(r)
  PROVE  LeaseInv'
BY PutClears, ClearsExpired

LEMMA ExpireClears ==
  ASSUME NEW R \in SUBSET Routes, Expire(R)
  PROVE  LET out == UNION {Expired(r) : r \in R}
         IN  out \in SUBSET q /\ Clears(out, Exits(out, "expired", NoOne))
<1> DEFINE out == UNION {Expired(r) : r \in R}
           E == Exits(out, "expired", NoOne)
<1>1. out \in SUBSET q
  BY QueueSubset
<1>2. /\ gone' = gone \cup E /\ Idle /\ Leave(out)
      /\ marks' = {k \in marks \ {} : k.m \notin out}
      /\ UNCHANGED <<now, up, epoch, ids, next, busy, cur, media, sent, accepted, grants, leases>>
  BY DEF Expire
<1> HIDE DEF out
<1>3. \A x \in E : x.m \in out /\ x.run = epoch /\ x.at = now
  BY ExitFields
<1>4. Gone' = Gone \cup out
  BY <1>2, ExitsGoneOne
<1>5. Leaves(out)
  BY <1>2, <1>4 DEF Leaves, Idle
<1>6. Clears(out, E)
  BY <1>2, <1>3, <1>5 DEF Clears
<1>7. QED
  BY <1>1, <1>6 DEF out

LEMMA LeaseExpire ==
  ASSUME TypeOK, LeaseInv, NEW R \in SUBSET Routes, Expire(R)
  PROVE  LeaseInv'
<1> DEFINE out == UNION {Expired(r) : r \in R}
<1>1. out \in SUBSET q /\ Clears(out, Exits(out, "expired", NoOne))
  BY ExpireClears
<1> HIDE DEF out
<1>2. QED
  BY <1>1, ClearsExpired

\* What is collectable is not under a grant that lasts.
LEMMA AvailableIsFree ==
  ASSUME TypeOK, LeaseInv, NEW r \in Routes, NEW m \in Available(r),
         NEW g \in grants, g.run = epoch, m \in g.msgs
  PROVE  g.until <= now
<1>1. m \in q /\ m.route = r
  BY DEF Available, Queue
<1>2. SUFFICES ASSUME now < g.until PROVE FALSE
  BY DEF TypeOK, Grant
<1>3. PICK k \in marks : k.m = m /\ k.until = g.until
  BY <1>1, <1>2 DEF LeaseInv, GrantsMarked
<1>4. k \notin Lapsed(r)
  BY <1>2, <1>3 DEF Lapsed, TypeOK, Grant
<1>5. m \in Marked(r)
  BY <1>3, <1>4 DEF Marked
<1>6. QED
  BY <1>5 DEF Available

LEMMA TakeClears ==
  ASSUME NEW r \in Routes, NEW limit \in Limits, Take(r, limit)
  PROVE  LET taken == First(Available(r), limit)
             out == Expired(r) \cup taken
         IN  /\ out \in SUBSET q
             /\ Clears(out, Exits(Expired(r), "expired", NoOne) \cup Exits(taken, "taken", NoOne))
<1> DEFINE taken == First(Available(r), limit)
           out == Expired(r) \cup taken
           E1 == Exits(Expired(r), "expired", NoOne)
           E2 == Exits(taken, "taken", NoOne)
<1>1. out \in SUBSET q
  BY QueueSubset, FirstSubset
<1>2. /\ gone' = gone \cup E1 \cup E2 /\ Idle /\ Leave(out)
      /\ marks' = {k \in marks \ Lapsed(r) : k.m \notin out}
      /\ UNCHANGED <<now, up, epoch, ids, next, busy, cur, media, sent, accepted, grants, leases>>
  BY DEF Take
<1>3. \A x \in E1 \cup E2 : x.m \in out /\ x.run = epoch /\ x.at = now
  BY ExitFields
<1>4. Gone' = Gone \cup out
  BY <1>2, ExitsGone
<1> HIDE DEF taken, E1, E2
<1>5. Leaves(out)
  BY <1>2, <1>4 DEF Leaves, Idle
<1>6. Lapsed(r) \in SUBSET marks /\ \A k \in Lapsed(r) : k.until <= now
  BY DEF Lapsed
<1>7. gone' = gone \cup (E1 \cup E2)
  BY <1>2
<1> HIDE DEF out
<1>8. Clears(out, E1 \cup E2)
  BY <1>2, <1>3, <1>5, <1>6, <1>7 DEF Clears
<1>9. QED
  BY <1>1, <1>8 DEF out, taken, E1, E2

LEMMA LeaseTake ==
  ASSUME TypeOK, LeaseInv, NEW r \in Routes, NEW limit \in Limits, Take(r, limit)
  PROVE  LeaseInv'
<1> DEFINE taken == First(Available(r), limit)
           out == Expired(r) \cup taken
           E1 == Exits(Expired(r), "expired", NoOne)
           E2 == Exits(taken, "taken", NoOne)
<1>1. out \in SUBSET q /\ Clears(out, E1 \cup E2)
  BY TakeClears
<1>2. /\ taken \subseteq Available(r)
      /\ \A x \in E1 : x.how = "expired"
      /\ \A x \in E2 : x.m \in taken /\ x.how = "taken" /\ x.run = epoch /\ x.at = now
  BY FirstSubset, ExitFields
<1> HIDE DEF taken, out, E1, E2
<1>3. gone' = gone \cup (E1 \cup E2) /\ grants' = grants
  BY <1>1 DEF Clears
<1>4. AckOwn'
  BY <1>2, <1>3 DEF LeaseInv, AckOwn
<1>5. LeaseExclusion'
  <2>1. ASSUME NEW g \in grants, NEW x \in gone', x.how = "taken", x.run = g.run, x.m \in g.msgs
        PROVE  g.until <= x.at
    <3>1. CASE x \in gone
      BY <2>1, <3>1 DEF LeaseInv, LeaseExclusion
    <3>2. CASE x \in E1
      BY <1>2, <2>1, <3>2
    <3>3. CASE x \in E2
      BY <1>2, <2>1, <3>3, AvailableIsFree
    <3>4. QED
      BY <1>3, <2>1, <3>1, <3>2, <3>3
  <2>2. QED
    BY <1>3, <2>1 DEF LeaseInv, LeaseExclusion
<1>6. QED
  BY <1>1, <1>4, <1>5, ClearsKeeps DEF LeaseInv

\* What the acknowledgement of g removes from route r.
Acked(r, g) ==
  {m \in Queue(r) \ Expired(r) : \E k \in marks \ Lapsed(r) : k.m = m /\ k.lease = g.lease}

LEMMA AckClears ==
  ASSUME NEW r \in Routes, NEW g \in grants, Ack(r, g)
  PROVE  /\ Expired(r) \cup Acked(r, g) \in SUBSET q
         /\ Clears(Expired(r) \cup Acked(r, g),
                   Exits(Expired(r), "expired", NoOne)
                     \cup Exits(Acked(r, g), "acked", <<g.run, g.k>>))
<1> DEFINE out == Expired(r) \cup Acked(r, g)
           E1 == Exits(Expired(r), "expired", NoOne)
           E2 == Exits(Acked(r, g), "acked", <<g.run, g.k>>)
<1>1. out \in SUBSET q
  BY QueueSubset DEF Acked
<1>2. /\ gone' = gone \cup E1 \cup E2 /\ Idle /\ Leave(out)
      /\ marks' = {k \in marks \ Lapsed(r) : k.m \notin out}
      /\ UNCHANGED <<now, up, epoch, ids, next, busy, cur, media, sent, accepted, grants, leases>>
  BY DEF Ack, Acked
<1>3. \A x \in E1 \cup E2 : x.m \in out /\ x.run = epoch /\ x.at = now
  BY ExitFields
<1>4. Gone' = Gone \cup out
  BY <1>2, ExitsGone
<1> HIDE DEF E1, E2
<1>5. Leaves(out)
  BY <1>2, <1>4 DEF Leaves, Idle
<1>6. Lapsed(r) \in SUBSET marks /\ \A k \in Lapsed(r) : k.until <= now
  BY DEF Lapsed
<1>7. gone' = gone \cup (E1 \cup E2)
  BY <1>2
<1> HIDE DEF out
<1>8. Clears(out, E1 \cup E2)
  BY <1>2, <1>3, <1>5, <1>6, <1>7 DEF Clears
<1>9. QED
  BY <1>1, <1>8 DEF out, E1, E2

\* An acknowledgement goes by the id, and an id names one run and one grant.
LEMMA LeaseAck ==
  ASSUME TypeOK, LeaseInv, NEW r \in Routes, NEW g \in grants, Ack(r, g)
  PROVE  LeaseInv'
<1> DEFINE out == Expired(r) \cup Acked(r, g)
           E1 == Exits(Expired(r), "expired", NoOne)
           E2 == Exits(Acked(r, g), "acked", <<g.run, g.k>>)
<1>1. out \in SUBSET q /\ Clears(out, E1 \cup E2)
  BY AckClears
<1>2. \A m \in Acked(r, g) :
        m.route = r /\ \E k \in marks \ Lapsed(r) : k.m = m /\ k.lease = g.lease
  BY DEF Acked, Queue
<1>3. /\ \A x \in E1 : x.how = "expired"
      /\ \A x \in E2 : /\ x.m \in Acked(r, g) /\ x.how = "acked" /\ x.run = epoch /\ x.at = now
                       /\ x.by = <<g.run, g.k>>
  BY ExitFields
<1> HIDE DEF out, E1, E2
<1>4. gone' = gone \cup (E1 \cup E2) /\ grants' = grants
  BY <1>1 DEF Clears
<1>5. ASSUME NEW x \in E2
      PROVE  \E h \in grants : /\ <<h.run, h.k>> = x.by /\ x.m \in h.msgs
                               /\ h.run = x.run /\ x.at < h.until
  <2>1. x.m.route = r /\ x.run = epoch /\ x.at = now /\ x.by = <<g.run, g.k>>
    BY <1>2, <1>3
  <2>2. PICK k \in marks \ Lapsed(r) : k.m = x.m /\ k.lease = g.lease
    BY <1>2, <1>3
  <2>3. now < k.until
    BY <2>1, <2>2 DEF Lapsed, TypeOK, Mark
  <2>4. PICK h \in grants : h.run = epoch /\ h.lease = k.lease /\ h.until = k.until /\ k.m \in h.msgs
    BY <2>2 DEF LeaseInv, MarksGranted
  <2>5. h.lease = <<h.run, h.k>> /\ g.lease = <<g.run, g.k>>
    BY DEF LeaseInv, GrantsNamed
  <2>6. QED
    BY <2>1, <2>2, <2>3, <2>4, <2>5
<1>6. AckOwn'
  <2>1. SUFFICES ASSUME NEW x \in gone', x.how = "acked"
        PROVE  \E h \in grants : /\ <<h.run, h.k>> = x.by /\ x.m \in h.msgs
                                 /\ h.run = x.run /\ x.at < h.until
    BY <1>4 DEF AckOwn
  <2>2. CASE x \in gone
    BY <2>1, <2>2 DEF LeaseInv, AckOwn
  <2>3. CASE x \in E1
    BY <1>3, <2>1, <2>3
  <2>4. QED
    BY <1>4, <1>5, <2>1, <2>2, <2>3
<1>7. LeaseExclusion'
  BY <1>3, <1>4 DEF LeaseInv, LeaseExclusion
<1>8. QED
  BY <1>1, <1>6, <1>7, ClearsKeeps DEF LeaseInv

\* A lease is granted on what no other lasting grant of this run holds, and on
\* nothing that has left the queue in this run.
LEMMA LeaseTakeLeased ==
  ASSUME TypeOK, LeaseInv, NEW r \in Routes, NEW limit \in Limits, NEW d \in 1 .. MaxLease,
         TakeLeased(r, limit, d)
  PROVE  LeaseInv'
<1> DEFINE held == First(Available(r), limit)
           out == Expired(r)
           E == Exits(out, "expired", NoOne)
           G == [run |-> epoch, k |-> leases + 1, lease |-> nextLease, route |-> r,
                 at |-> now, until |-> now + d, msgs |-> held]
           N == {[m |-> m, lease |-> nextLease, until |-> now + d] : m \in held}
<1>1. held \subseteq Available(r) /\ held \subseteq q /\ out \subseteq q /\ held \cap out = {}
  BY QueueSubset, FirstSubset DEF Available
<1>2. /\ gone' = gone \cup E /\ q' = q \ out /\ leases' = leases + 1
      /\ marks' = {k \in marks \ Lapsed(r) : k.m \notin out} \cup N
      /\ busy = "idle"
      /\ UNCHANGED <<now, epoch, busy, cur, disk, firm, loose, sent>>
  BY DEF TakeLeased, Leave, media, Idle
<1>3. grants' = grants \cup IF held = {} THEN {} ELSE {G}
  BY DEF TakeLeased
<1>4. /\ G.run = epoch /\ G.k = leases + 1 /\ G.lease = <<epoch, leases + 1>>
      /\ G.at = now /\ G.until = now + d /\ G.msgs = held
  BY DEF nextLease
<1>5. /\ \A k \in N : k.m \in held /\ k.lease = G.lease /\ k.until = G.until
      /\ \A m \in held : \E k \in N : k.m = m /\ k.until = G.until
      /\ held = {} => N = {}
  <2> DEFINE new(m) == [m |-> m, lease |-> nextLease, until |-> now + d]
  <2>1. \A m : new(m).m = m /\ new(m).lease = G.lease /\ new(m).until = G.until
    OBVIOUS
  <2>2. N = {new(m) : m \in held}
    OBVIOUS
  <2> HIDE DEF new, G, N, held
  <2>3. QED
    BY <2>1, <2>2
<1>6. \A x \in E : x.m \in out /\ x.how = "expired" /\ x.run = epoch /\ x.at = now
  BY ExitFields
<1>7. Gone' = Gone \cup out
  BY <1>2, ExitsGoneOne
<1> HIDE DEF held, out, E, G, N
<1>8. leases \in Nat /\ epoch \in Nat /\ now \in Nat
  BY DEF TypeOK
<1>9. Numbered'
  <2>1. Spoken' \subseteq Spoken \cup q /\ Around' \subseteq Around
    BY <1>1, <1>2, <1>3, <1>4, <1>7 DEF Spoken, Around
  <2>2. QED
    BY <1>2, <2>1 DEF LeaseInv, Numbered, Around
<1>10. GrantsNamed'
  <2>1. SUFFICES ASSUME NEW g \in grants'
        PROVE  /\ g.lease = <<g.run, g.k>> /\ g.run <= epoch
               /\ g.run = epoch => g.k <= leases + 1
    BY <1>2 DEF GrantsNamed
  <2>2. CASE g \in grants
    BY <1>8, <2>2 DEF LeaseInv, GrantsNamed, TypeOK, Grant
  <2>3. CASE g = G
    BY <1>4, <1>8, <2>3
  <2>4. QED
    BY <1>3, <2>1, <2>2, <2>3
<1>11. MarksGranted'
  <2>1. SUFFICES ASSUME NEW k \in marks'
        PROVE  \E g \in grants' : g.run = epoch /\ g.lease = k.lease /\ g.until = k.until
                                  /\ k.m \in g.msgs
    BY <1>2 DEF MarksGranted
  <2>2. CASE k \in marks
    BY <1>3, <2>2 DEF LeaseInv, MarksGranted
  <2>3. CASE k \in N
    <3>1. G \in grants'
      BY <1>3, <1>5, <2>3
    <3>2. QED
      BY <1>4, <1>5, <2>3, <3>1
  <2>4. QED
    BY <1>2, <2>1, <2>2, <2>3
<1>12. GrantsMarked'
  <2>1. SUFFICES ASSUME NEW g \in grants', NEW m \in g.msgs, m \in q', g.run = epoch, now < g.until
        PROVE  \E k \in marks' : k.m = m /\ k.until = g.until
    BY <1>2 DEF GrantsMarked
  <2>2. CASE g \in grants
    <3>1. PICK k \in marks : k.m = m /\ k.until = g.until
      BY <1>2, <2>1, <2>2 DEF LeaseInv, GrantsMarked
    <3>2. k \notin Lapsed(r)
      BY <2>1, <2>2, <3>1 DEF Lapsed, TypeOK, Grant
    <3>3. QED
      BY <1>2, <2>1, <3>1, <3>2
  <2>3. CASE g = G
    BY <1>2, <1>4, <1>5, <2>1, <2>3
  <2>4. QED
    BY <1>3, <2>1, <2>2, <2>3
<1>13. GoneForGood'
  <2>1. SUFFICES ASSUME NEW x \in gone' PROVE x.run <= epoch /\ (x.run = epoch => x.m \notin q')
    BY <1>2 DEF GoneForGood
  <2>2. CASE x \in gone
    BY <1>2, <2>2 DEF LeaseInv, GoneForGood
  <2>3. CASE x \in E
    BY <1>2, <1>6, <1>8, <2>3
  <2>4. QED
    BY <1>2, <2>1, <2>2, <2>3
<1>14. AckOwn'
  BY <1>2, <1>3, <1>6 DEF LeaseInv, AckOwn
<1>15. LeaseExclusion'
  <2>1. ASSUME NEW g \in grants, NEW m \in g.msgs, m \in held, g.run = epoch
        PROVE  g.until <= now
    BY <1>1, <2>1, AvailableIsFree
  <2>2. ASSUME NEW g \in grants', NEW h \in grants', g.run = h.run, g # h, g.msgs \cap h.msgs # {}
        PROVE  g.until <= h.at \/ h.until <= g.at
    <3>1. CASE g \in grants /\ h \in grants
      BY <2>2, <3>1 DEF LeaseInv, LeaseExclusion
    <3>2. CASE g \in grants /\ h = G
      BY <1>4, <2>1, <2>2, <3>2
    <3>3. CASE g = G /\ h \in grants
      BY <1>4, <2>1, <2>2, <3>3
    <3>4. QED
      BY <1>3, <2>2, <3>1, <3>2, <3>3
  <2>3. ASSUME NEW g \in grants', NEW x \in gone', x.how = "taken", x.run = g.run, x.m \in g.msgs
        PROVE  g.until <= x.at
    <3>1. x \in gone
      BY <1>2, <1>6, <2>3
    <3>2. CASE g \in grants
      BY <2>3, <3>1, <3>2 DEF LeaseInv, LeaseExclusion
    <3>3. CASE g = G
      BY <1>1, <1>4, <2>3, <3>1, <3>3 DEF LeaseInv, GoneForGood
    <3>4. QED
      BY <1>3, <2>3, <3>2, <3>3
  <2>4. QED
    BY <2>2, <2>3 DEF LeaseExclusion
<1>16. QED
  BY <1>9, <1>10, <1>11, <1>12, <1>13, <1>14, <1>15 DEF LeaseInv

-----------------------------------------------------------------------------
(* The other steps.                                                        *)

\* No grant, no exit and no new message: marks stay with their messages, and time
\* goes forward or there is nothing in the queue.
LEMMA LeaseQuiet ==
  ASSUME TypeOK, TypeOK', LeaseInv, Numbered', UNCHANGED <<grants, gone, epoch, leases>>,
         q' = {} \/ (q' = q /\ now <= now'),
         (marks' = {} /\ q' = {}) \/ marks' = marks
  PROVE  LeaseInv'
<1>1. GrantsNamed' /\ AckOwn' /\ LeaseExclusion'
  BY DEF LeaseInv, GrantsNamed, AckOwn, LeaseExclusion
<1>2. MarksGranted'
  BY DEF LeaseInv, MarksGranted
<1>3. GoneForGood'
  BY DEF LeaseInv, GoneForGood
<1>4. GrantsMarked'
  <2>1. SUFFICES ASSUME NEW g \in grants, NEW m \in g.msgs, m \in q', g.run = epoch, now' < g.until
        PROVE  \E k \in marks' : k.m = m /\ k.until = g.until
    BY DEF GrantsMarked
  <2>2. now < g.until
    BY <2>1 DEF TypeOK, Grant
  <2>3. QED
    BY <2>1, <2>2 DEF LeaseInv, GrantsMarked
<1>5. QED
  BY <1>1, <1>2, <1>3, <1>4 DEF LeaseInv

\* A message joins the queue that nobody has spoken of.
LEMMA LeaseJoin ==
  ASSUME TypeOK, LeaseInv, Numbered', UNCHANGED <<now, grants, gone, epoch, leases, marks>>,
         NEW c \in Message, q' = q \cup {c}, \A m \in Spoken : m.msg < c.msg
  PROVE  LeaseInv'
<1>0. c \notin Spoken
  BY DEF Message
<1>1. GrantsNamed' /\ AckOwn' /\ LeaseExclusion' /\ MarksGranted'
  BY DEF LeaseInv, GrantsNamed, AckOwn, LeaseExclusion, MarksGranted
<1>2. GoneForGood'
  BY <1>0 DEF LeaseInv, GoneForGood, Spoken, Gone
<1>3. GrantsMarked'
  BY <1>0 DEF LeaseInv, GrantsMarked, Spoken
<1>4. QED
  BY <1>1, <1>2, <1>3 DEF LeaseInv

LEMMA LeasePutSteps ==
  ASSUME TypeOK, TypeOK', OrderInv, LeaseInv
  PROVE  /\ PutMemory => LeaseInv'
         /\ PutStamp => LeaseInv'
         /\ PutFail => LeaseInv'
         /\ PutRename => LeaseInv'
         /\ PutSync => LeaseInv'
         /\ PutSyncFail => LeaseInv'
<1>a. sent \in Nat /\ now \in Nat
  BY DEF TypeOK
<1>b. \A m \in Around \cup Spoken : m.msg \in Nat
  BY DEF Around, Spoken, Gone, TypeOK, Message, Exit, Grant
<1>c. q \subseteq Around
  BY DEF Around
<1>d. Numbered
  BY DEF LeaseInv
<1>1. ASSUME PutMemory PROVE LeaseInv'
  <2> DEFINE c == Stamped(ids + 1)
  <2>1. c \in Message
    BY StampedType DEF TypeOK
  <2>2. c.msg = sent + 1
    BY DEF Stamped
  <2>3. /\ q' = q \cup {c} /\ sent' = sent + 1 /\ busy' = "idle"
        /\ UNCHANGED <<now, grants, gone, epoch, leases, marks, disk, firm, loose>>
    BY <1>1 DEF PutMemory, media
  <2> HIDE DEF c
  <2>4. Spoken' = Spoken /\ Around' \subseteq Around \cup {c}
    BY <2>3 DEF Spoken, Gone, Around
  <2>5. Numbered'
    BY <1>a, <1>b, <1>d, <2>2, <2>3, <2>4 DEF Numbered
  <2>6. \A m \in Spoken : m.msg < c.msg
    BY <1>a, <1>b, <1>d, <2>2 DEF Numbered
  <2>7. QED
    BY <2>1, <2>3, <2>5, <2>6, LeaseJoin
<1>2. ASSUME PutStamp PROVE LeaseInv'
  <2>1. /\ sent' = sent + 1 /\ cur' = Stamped(ids + 1)
        /\ UNCHANGED <<now, q, grants, gone, epoch, leases, marks, disk, firm, loose>>
    BY <1>2 DEF PutStamp
  <2>2. cur'.msg = sent + 1
    BY <2>1 DEF Stamped
  <2>3. Spoken' = Spoken /\ Around' = Around
    BY <2>1 DEF Spoken, Gone, Around
  <2>4. Numbered'
    BY <1>a, <1>b, <1>c, <1>d, <2>1, <2>2, <2>3 DEF Numbered
  <2>5. QED
    BY <1>a, <2>1, <2>4, LeaseQuiet
<1>3. ASSUME PutFail \/ PutSyncFail PROVE LeaseInv'
  <2>1. /\ sent' = sent /\ busy' = "idle" /\ disk' \subseteq disk
        /\ UNCHANGED <<now, q, grants, gone, epoch, leases, marks, firm, loose>>
    BY <1>3, SwitchAssumption DEF PutFail, PutSyncFail, memory
  <2>2. Spoken' = Spoken /\ Around' \subseteq Around
    BY <2>1 DEF Spoken, Gone, Around
  <2>3. Numbered'
    BY <1>d, <2>1, <2>2 DEF Numbered
  <2>4. QED
    BY <1>a, <2>1, <2>3, LeaseQuiet
<1>4. ASSUME PutRename PROVE LeaseInv'
  <2>1. /\ sent' = sent /\ cur' = cur /\ busy = "write"
        /\ disk' = Over(disk, cur) /\ firm' \subseteq firm
        /\ loose' \subseteq loose \cup {cur} \cup firm
        /\ UNCHANGED <<now, q, grants, gone, epoch, leases, marks>>
    BY <1>4 DEF PutRename, past
  <2>2. Spoken' = Spoken /\ Around' \subseteq Around \cup {cur}
    BY <2>1 DEF Spoken, Gone, Around, Over
  <2>3. cur.msg = sent
    BY <2>1 DEF OrderInv, CurNewest
  <2>4. Numbered'
    BY <1>a, <1>d, <2>1, <2>2, <2>3 DEF Numbered
  <2>5. QED
    BY <1>a, <2>1, <2>4, LeaseQuiet
<1>5. ASSUME PutSync PROVE LeaseInv'
  <2>1. /\ q' = q \cup {cur} /\ sent' = sent /\ busy = "sync" /\ busy' = "idle"
        /\ firm' = disk /\ loose' = {} /\ disk' = disk
        /\ UNCHANGED <<now, grants, gone, epoch, leases, marks>>
    BY <1>5 DEF PutSync
  <2>2. Spoken' = Spoken /\ Around' \subseteq Around \cup {cur}
    BY <2>1 DEF Spoken, Gone, Around
  <2>3. cur.msg = sent /\ cur \in Message
    BY <2>1 DEF OrderInv, CurNewest, TypeOK
  <2>4. Numbered'
    BY <1>a, <1>d, <2>1, <2>2, <2>3 DEF Numbered
  <2>5. \A m \in Spoken : m.msg < cur.msg
    BY <1>d, <2>1 DEF Numbered
  <2>6. QED
    BY <2>1, <2>3, <2>4, <2>5, LeaseJoin
<1>6. QED
  BY <1>1, <1>2, <1>3, <1>4, <1>5

LEMMA LeaseWorld ==
  ASSUME SpoolInv, TypeOK', LeaseInv,
         (\E m \in doomed : Unlink(m)) \/ Crash \/ PowerCut \/ Aloof
  PROVE  LeaseInv'
<1>0. TypeOK /\ Stopped /\ Numbered
  BY DEF SpoolInv, LeaseInv
<1>1. CASE \E m \in doomed : Unlink(m)
  <2>1. /\ disk' \subseteq disk /\ firm' \subseteq firm /\ loose' \subseteq loose \cup firm
        /\ UNCHANGED <<now, q, sent, busy, cur, grants, gone, epoch, leases, marks>>
    BY <1>1 DEF Unlink, memory, past
  <2>2. Spoken' = Spoken /\ Around' \subseteq Around
    BY <2>1 DEF Spoken, Gone, Around
  <2>3. Numbered'
    BY <1>0, <2>1, <2>2 DEF Numbered
  <2>4. now <= now
    BY <1>0 DEF TypeOK
  <2>5. QED
    BY <1>0, <2>1, <2>3, <2>4, LeaseQuiet
<1>2. CASE Crash \/ PowerCut
  <2>1. /\ q' = {} /\ marks' = {} /\ busy' = "idle"
        /\ disk' \cup firm' \cup loose' \subseteq disk \cup firm \cup loose
        /\ UNCHANGED <<sent, grants, gone, epoch, leases>>
    BY <1>2 DEF Crash, PowerCut, media, past
  <2>2. Spoken' = Spoken /\ Around' \subseteq Around
    BY <2>1 DEF Spoken, Gone, Around
  <2>3. Numbered'
    BY <1>0, <2>1, <2>2 DEF Numbered
  <2>4. QED
    BY <1>0, <2>1, <2>3, LeaseQuiet
<1>3. CASE Aloof
  <2>1. /\ UNCHANGED <<q, sent, busy, cur, disk, firm, loose, grants, gone, epoch, leases, marks>>
        /\ q' = {} \/ now <= now'
    <3>1. UNCHANGED <<q, sent, busy, cur, disk, firm, loose, grants, gone, epoch, leases, marks>>
      BY <1>3 DEF Aloof, Tick, StepClockBack, Corrupt, vars, memory, call, media, past
    <3>2. q' = {} \/ now <= now'
      BY <1>0, <1>3, <3>1 DEF Aloof, Tick, StepClockBack, Corrupt, vars, Stopped, TypeOK
    <3>3. QED
      BY <3>1, <3>2
  <2>2. Spoken' = Spoken /\ Around' = Around
    BY <2>1 DEF Spoken, Gone, Around
  <2>3. Numbered'
    BY <1>0, <2>1, <2>2 DEF Numbered
  <2>4. QED
    BY <1>0, <2>1, <2>3, LeaseQuiet
<1>4. QED
  BY <1>1, <1>2, <1>3

\* A new run has no marks, and the ids of its leases name it.
LEMMA LeaseStart ==
  ASSUME SpoolInv, TypeOK', LeaseInv, Start
  PROVE  LeaseInv'
<1>0. TypeOK /\ Stopped
  BY DEF SpoolInv
<1>1. /\ epoch' = epoch + 1 /\ marks' = {} /\ leases' = 0 /\ busy' = "idle"
      /\ UNCHANGED <<sent, grants, gone>>
  BY <1>0 DEF Start, Stopped, call, past
<1>2. Spoken' = Spoken
  BY <1>1 DEF Spoken, Gone
<1>3. Around' \subseteq Around
  BY SwitchAssumption DEF Start, OpenSpool, Loadable, Around
<1>4. Numbered'
  BY <1>1, <1>2, <1>3 DEF LeaseInv, Numbered
<1>5. epoch \in Nat
  BY <1>0 DEF TypeOK
<1>6. \A g \in grants : g.lease = <<g.run, g.k>> /\ g.run \in Nat /\ g.run <= epoch
  BY <1>0 DEF LeaseInv, GrantsNamed, TypeOK, Grant
<1>7. \A x \in gone : x.run \in Nat /\ x.run <= epoch
  BY <1>0 DEF LeaseInv, GoneForGood, TypeOK, Exit
<1>8. GrantsNamed' /\ GrantsMarked'
  BY <1>1, <1>5, <1>6 DEF GrantsNamed, GrantsMarked
<1>9. GoneForGood'
  BY <1>1, <1>5, <1>7 DEF GoneForGood
<1>10. MarksGranted' /\ AckOwn' /\ LeaseExclusion'
  BY <1>1 DEF LeaseInv, MarksGranted, AckOwn, LeaseExclusion
<1>11. QED
  BY <1>4, <1>8, <1>9, <1>10 DEF LeaseInv

LEMMA LeaseInit == Init => LeaseInv
<1> SUFFICES ASSUME Init PROVE LeaseInv
  OBVIOUS
<1>1. Spoken = {} /\ Around = {} /\ busy = "idle" /\ q = {}
  BY DEF Init, Spoken, Gone, Around
<1>2. Numbered
  BY <1>1 DEF Numbered
<1>3. QED
  BY <1>2 DEF Init, LeaseInv, GrantsNamed, MarksGranted, GrantsMarked, GoneForGood,
              AckOwn, LeaseExclusion

LEMMA LeaseNext == SpoolInv /\ OrderInv /\ LeaseInv /\ [Next]_vars => LeaseInv'
<1> SUFFICES ASSUME SpoolInv, OrderInv, LeaseInv, [Next]_vars PROVE LeaseInv'
  OBVIOUS
<1>0. TypeOK /\ TypeOK'
  BY TypeNext DEF SpoolInv
<1>1. ASSUME NEW r \in Routes, Depth(r) PROVE LeaseInv'
  <2>1. {r} \in SUBSET Routes /\ Expire({r})
    BY <1>1 DEF Depth
  <2>2. QED
    BY <1>0, <2>1, LeaseExpire
<1>2. CASE Sweep
  <2>1. Routes \in SUBSET Routes /\ Expire(Routes)
    BY <1>2 DEF Sweep
  <2>2. QED
    BY <1>0, <2>1, LeaseExpire
<1>3. ASSUME NEW r \in Routes, PutFull(r) \/ PutAdmit(r) PROVE LeaseInv'
  BY <1>0, <1>3, LeasePut
<1>4. ASSUME NEW r \in Routes, NEW limit \in Limits,
             Take(r, limit) \/ \E d \in 1 .. MaxLease : TakeLeased(r, limit, d)
      PROVE  LeaseInv'
  BY <1>0, <1>4, LeaseTake, LeaseTakeLeased
<1>5. ASSUME NEW r \in Routes, NEW g \in grants, Ack(r, g) PROVE LeaseInv'
  BY <1>0, <1>5, LeaseAck
<1>6. CASE PutMemory \/ PutStamp \/ PutFail \/ PutRename \/ PutSync \/ PutSyncFail
  BY <1>0, <1>6, LeasePutSteps
<1>7. CASE (\E m \in doomed : Unlink(m)) \/ Crash \/ PowerCut \/ Aloof
  BY <1>0, <1>7, LeaseWorld
<1>8. CASE Start
  BY <1>0, <1>8, LeaseStart
<1>9. QED
  BY <1>1, <1>2, <1>3, <1>4, <1>5, <1>6, <1>7, <1>8 DEF Next, Aloof

\* What an acknowledgement deletes was handed out under that very grant, in this
\* run, and the grant had not run out: for any clock, any number of runs, and
\* acknowledgements that are late, repeated, or sent to the wrong route.
THEOREM AcksAreOwn == Spec => []AckOwn
<1>1. LeaseInv => AckOwn
  BY DEF LeaseInv
<1>2. QED
  BY <1>1, InvInit, InvNext, OrderInit, OrderNext, LeaseInit, LeaseNext, PTL DEF Spec

\* While a grant lasts nobody else of the same run gets its messages, neither
\* under a lease nor by deletion.
THEOREM LeasesExclude == Spec => []LeaseExclusion
<1>1. LeaseInv => LeaseExclusion
  BY DEF LeaseInv
<1>2. QED
  BY <1>1, InvInit, InvNext, OrderInit, OrderNext, LeaseInit, LeaseNext, PTL DEF Spec
-----------------------------------------------------------------------------
(* What the refinement rests on.                                           *)

\* The message a Put is writing, and the messages there are.
InHand == IF busy \in {"write", "sync"} THEN {cur} ELSE {}
Here == Around \cup InHand
World == Here \cup accepted \cup rotten

\* A payload's number is enough to tell messages apart.
PayloadsUnique == \A m, n \in World : m.msg = n.msg => m = n

\* Later messages are not stamped with earlier times.
Aged ==
  /\ \A m, n \in Here : m.msg <= n.msg => m.at <= n.at
  /\ \A m \in Here : m.at <= now

\* Nothing that came after a kept message is before it in the queue, not even
\* what comes back from the disk without having been accepted.
KeptInOrder == \A m \in Kept : \A x \in Here : m.msg < x.msg => m.num < x.num

AcceptedNumbered ==
  /\ \A m \in accepted \cup rotten : m.msg <= sent
  /\ busy \in {"write", "sync"} => \A m \in accepted : m.msg < cur.msg

QueueBelow == up => \A m \in q : m.num < next

NoSpool == ~Durable => disk = {} /\ firm = {} /\ loose = {} /\ rotten = {}

Runs ==
  /\ 1 <= epoch /\ epoch <= MaxStarts
  /\ ~up => epoch < MaxStarts /\ marks = {}

MailboxInv ==
  /\ PayloadsUnique
  /\ Aged
  /\ KeptInOrder
  /\ AcceptedNumbered
  /\ QueueBelow
  /\ NoSpool
  /\ Runs

\* The clock is set back only between runs of a relay without a spool: what was
\* stamped before would otherwise be younger than what comes after.
ClockGoesOn == Durable => ~ClockMayStepBack

LEMMA WorldType ==
  ASSUME TypeOK
  PROVE  /\ World \subseteq Message
         /\ \A m \in World : m.msg \in Nat /\ m.num \in Nat /\ m.at \in Nat
<1>1. World \subseteq Message
  BY DEF TypeOK, World, Here, InHand, Around
<1>2. QED
  BY <1>1 DEF Message

\* Where the kept messages are.
LEMMA KeptWhere ==
  ASSUME SpoolInv, MailboxInv
  PROVE  /\ Kept \subseteq Around
         /\ up => Kept \subseteq q
         /\ Durable => Kept \ rotten = Owed
         /\ ~up => Kept = IF Durable THEN Owed ELSE {}
<1>1. CASE up
  <2>1. Kept = (accepted \ Gone) \cap q
    BY <1>1 DEF Kept
  <2>2. Durable => Owed \subseteq q
    BY <1>1 DEF SpoolInv, NoLoss
  <2>3. QED
    BY <1>1, <2>1, <2>2 DEF Owed, Around
<1>2. CASE ~up
  <2>1. Kept = (accepted \ Gone) \cap (disk \ rotten)
    BY <1>2 DEF Kept, Loadable
  <2>2. Durable => Owed \subseteq disk
    BY DEF SpoolInv, NoLoss, PutInFlight
  <2>3. ~Durable => disk = {}
    BY DEF MailboxInv, NoSpool
  <2>4. QED
    BY <1>2, <2>1, <2>2, <2>3 DEF Owed, Around
<1>3. QED
  BY <1>1, <1>2

\* The process stops: what is kept is what was, less the damaged.
LEMMA KeptStops ==
  ASSUME SpoolInv, SpoolInv', MailboxInv, NoSpool', ~up',
         UNCHANGED <<accepted, gone, rotten>>
  PROVE  Kept' = IF Durable THEN Kept \ rotten ELSE {}
<1>1. Owed' = Owed
  BY DEF Owed, Gone
<1>2. Kept' = (accepted \ Gone) \cap (disk' \ rotten)
  BY DEF Kept, Loadable, Gone
<1>3. CASE Durable
  <2>1. Owed' \subseteq disk'
    BY <1>3 DEF SpoolInv, NoLoss, PutInFlight
  <2>2. Kept' = Owed
    BY <1>1, <1>2, <2>1 DEF Owed
  <2>3. QED
    BY <1>3, <2>2, KeptWhere
<1>4. CASE ~Durable
  BY <1>2, <1>4 DEF NoSpool
<1>5. QED
  BY <1>3, <1>4

\* It starts: exactly what is kept is loaded.
LEMMA KeptStarts ==
  ASSUME SpoolInv, SpoolInv', MailboxInv, Start
  PROVE  Kept' = Kept
<1>1. up' /\ ~up /\ UNCHANGED <<accepted, gone, rotten>>
  BY DEF Start, past
<1>2. Kept' = (accepted \ Gone) \cap q'
  BY <1>1 DEF Kept, Gone
<1>3. Kept = (accepted \ Gone) \cap Loadable
  BY <1>1 DEF Kept
<1>4. CASE Durable
  BY <1>2, <1>3, <1>4 DEF Start, OpenSpool
<1>5. CASE ~Durable
  BY <1>2, <1>3, <1>5 DEF Start, MailboxInv, NoSpool, Loadable
<1>6. QED
  BY <1>4, <1>5

-----------------------------------------------------------------------------
(* It is kept by every step.                                               *)

LEMMA RunsNext ==
  ASSUME SpoolInv, Runs, [Next]_vars
  PROVE  Runs'
<1>0. TypeOK /\ epoch \in Nat
  BY DEF SpoolInv, TypeOK
<1>1. CASE Crash \/ PowerCut
  BY <1>1 DEF Crash, PowerCut, Runs
<1>2. CASE Start
  BY <1>0, <1>2, BoundAssumption DEF Start, Runs
<1>3. CASE \/ \E S \in SUBSET q : Leaves(S)
           \/ PutMemory \/ PutStamp \/ PutFail \/ PutRename \/ PutSync \/ PutSyncFail
           \/ \E m \in doomed : Unlink(m)
  <2>1. up /\ up' = up /\ epoch' = epoch
    BY <1>3 DEF Leaves, Idle, PutMemory, PutStamp, PutFail, PutRename, PutSync, PutSyncFail, Unlink
  <2>2. QED
    BY <2>1 DEF Runs
<1>4. CASE Aloof
  <2>1. UNCHANGED <<up, epoch, marks>>
    BY <1>4 DEF Aloof, Tick, StepClockBack, Corrupt, vars, memory
  <2>2. QED
    BY <2>1 DEF Runs
<1>5. QED
  BY <1>0, <1>1, <1>2, <1>3, <1>4, StepCases

LEMMA NoSpoolNext ==
  ASSUME SpoolInv, OrderInv, NoSpool, [Next]_vars
  PROVE  NoSpool'
<1> SUFFICES ASSUME ~Durable
             PROVE  disk' = {} /\ firm' = {} /\ loose' = {} /\ rotten' = {}
  BY DEF NoSpool
<1>0. TypeOK /\ disk = {} /\ firm = {} /\ loose = {} /\ rotten = {} /\ busy \notin {"write", "sync"}
  BY DEF SpoolInv, NoSpool, OrderInv, CurNewest
<1>1. CASE \E S \in SUBSET q : Leaves(S)
  BY <1>0, <1>1 DEF Leaves, media
<1>2. CASE PutMemory \/ PutStamp \/ PutFail \/ PutRename \/ PutSync \/ PutSyncFail
  BY <1>0, <1>2 DEF PutMemory, PutStamp, PutFail, PutRename, PutSync, PutSyncFail, media
<1>3. CASE \E m \in doomed : Unlink(m)
  BY <1>0, <1>3 DEF Unlink
<1>4. CASE Crash \/ PowerCut
  BY <1>0, <1>4 DEF Crash, PowerCut, media
<1>5. CASE Start
  BY <1>0, <1>5 DEF Start
<1>6. CASE Aloof
  BY <1>0, <1>6 DEF Aloof, Tick, StepClockBack, Corrupt, vars, media
<1>7. QED
  BY <1>0, <1>1, <1>2, <1>3, <1>4, <1>5, <1>6, StepCases

LEMMA QueueBelowNext ==
  ASSUME SpoolInv, SpoolInv', OrderInv, QueueBelow, [Next]_vars
  PROVE  QueueBelow'
<1>1. CASE Durable
  BY <1>1 DEF SpoolInv, NumbersAgree, QueueBelow
<1>2. CASE ~Durable
  <2>0. TypeOK /\ busy \notin {"write", "sync"}
    BY <1>2 DEF SpoolInv, OrderInv, CurNewest
  <2>1. CASE PutMemory
    <3>1. Stamped(ids + 1).num = next /\ next \in Nat /\ \A m \in q : m.num \in Nat
      BY <2>0 DEF Stamped, TypeOK, Message
    <3>2. QED
      BY <2>1, <3>1 DEF PutMemory, QueueBelow
  <2>2. CASE Start
    BY <1>2, <2>2 DEF Start, QueueBelow
  <2>3. CASE Crash \/ PowerCut
    BY <2>3 DEF Crash, PowerCut, QueueBelow
  <2>4. CASE \E S \in SUBSET q : Leaves(S)
    BY <2>4 DEF Leaves, Leave, QueueBelow
  <2>5. CASE (\E m \in doomed : Unlink(m)) \/ Aloof
    <3>1. UNCHANGED <<up, q, next>>
      BY <2>5 DEF Unlink, Aloof, Tick, StepClockBack, Corrupt, vars, memory
    <3>2. QED
      BY <3>1 DEF QueueBelow
  <2>6. QED
    BY <1>2, <2>0, <2>1, <2>2, <2>3, <2>4, <2>5, StepCases
       DEF PutStamp, PutFail, PutRename, PutSync, PutSyncFail
<1>3. QED
  BY <1>1, <1>2

\* The four parts that speak of messages, where nothing new is about.
Tidy == PayloadsUnique /\ Aged /\ KeptInOrder /\ AcceptedNumbered

LEMMA TidyQuiet ==
  ASSUME TypeOK, TypeOK', Tidy, Here' \subseteq Here, accepted' = accepted,
         rotten' \subseteq rotten \cup Here, \A m \in Here : m.msg <= sent,
         Kept' \subseteq Kept, now <= now' \/ Here' = {}, sent' = sent,
         busy' \in {"write", "sync"} => busy \in {"write", "sync"} /\ cur' = cur
  PROVE  Tidy'
<1>0. \A m \in World : m.msg \in Nat /\ m.num \in Nat /\ m.at \in Nat
  BY WorldType
<1>1. World' \subseteq World
  BY DEF World
<1>2. PayloadsUnique'
  BY <1>1 DEF Tidy, PayloadsUnique
<1>3. \A m \in Here' : m.at <= now'
  BY <1>0 DEF Tidy, Aged, World, TypeOK
<1>4. Aged'
  BY <1>3 DEF Tidy, Aged
<1>5. KeptInOrder'
  BY DEF Tidy, KeptInOrder
<1>6. AcceptedNumbered'
  BY DEF Tidy, AcceptedNumbered
<1>7. QED
  BY <1>2, <1>4, <1>5, <1>6 DEF Tidy

\* A message is stamped: it is the newest, with the highest number.
LEMMA StampNewest ==
  ASSUME TypeOK, Tidy, NEW c \in Message, c.msg = sent + 1, c.at = now,
         \A m \in World : m.msg <= sent,
         \A m \in Kept : m.num < c.num,
         Here' \subseteq Here \cup {c}, World' \subseteq World \cup {c},
         now' = now
  PROVE  /\ PayloadsUnique' /\ Aged'
         /\ \A m \in Kept : \A x \in Here' : m.msg < x.msg => m.num < x.num
<1>0. /\ \A m \in World \cup {c} : m.msg \in Nat /\ m.num \in Nat /\ m.at \in Nat
      /\ sent \in Nat /\ now \in Nat
  BY WorldType DEF Message, TypeOK
<1>1. Here \subseteq World
  BY DEF World
<1>2. \A m \in World : m.msg # c.msg /\ ~(c.msg <= m.msg)
  BY <1>0
<1>3. PayloadsUnique'
  BY <1>2 DEF Tidy, PayloadsUnique
<1>4. \A m \in Here' : m.at <= now
  BY <1>0 DEF Tidy, Aged
<1>5. ASSUME NEW m \in Here', NEW n \in Here', m.msg <= n.msg PROVE m.at <= n.at
  <2>1. CASE n = c
    BY <1>4, <2>1
  <2>2. CASE n \in Here /\ m = c
    BY <1>1, <1>2, <1>5, <2>2
  <2>3. CASE n \in Here /\ m \in Here
    BY <1>5, <2>3 DEF Tidy, Aged
  <2>4. QED
    BY <1>5, <2>1, <2>2, <2>3
<1>6. Aged'
  BY <1>4, <1>5 DEF Aged
<1>7. \A m \in Kept : \A x \in Here' : m.msg < x.msg => m.num < x.num
  BY DEF Tidy, KeptInOrder
<1>8. QED
  BY <1>3, <1>6, <1>7

LEMMA TidyPut ==
  ASSUME SpoolInv, TypeOK', OrderInv, Numbered, MailboxInv
  PROVE  /\ PutMemory => Tidy'
         /\ PutStamp => Tidy'
         /\ PutSync => Tidy'
<1>0. TypeOK /\ Tidy /\ QueueBelow /\ AcceptedNumbered
  BY DEF SpoolInv, MailboxInv, Tidy
<1>1. /\ sent \in Nat /\ now \in Nat /\ ids \in Nat
      /\ \A m \in World : m.msg \in Nat /\ m.num \in Nat
  BY <1>0, WorldType DEF TypeOK
<1>2. \A m \in World : m.msg <= sent
  <2>1. \A m \in InHand : m.msg = sent
    BY DEF InHand, OrderInv, CurNewest
  <2>2. QED
    BY <1>0, <1>1, <2>1 DEF World, Here, Numbered, AcceptedNumbered
<1>3. up => Kept \subseteq q /\ \A m \in Kept : m.num < next
  BY <1>0, KeptWhere DEF QueueBelow
<1>4. Stamped(ids + 1) \in Message
  BY <1>0, <1>1, StampedType
<1>5. LET c == Stamped(ids + 1) IN c.msg = sent + 1 /\ c.at = now /\ c.num = next
  BY DEF Stamped
<1>6. ASSUME PutMemory PROVE Tidy'
  <2> DEFINE c == Stamped(ids + 1)
  <2>1. /\ q' = q \cup {c} /\ accepted' = accepted \cup {c} /\ up /\ up' = up
        /\ sent' = sent + 1 /\ busy = "stamp" /\ busy' = "idle"
        /\ UNCHANGED <<now, disk, firm, loose, rotten, gone>>
    BY <1>6 DEF PutMemory, media
  <2>2. c \in Message /\ c.msg = sent + 1 /\ c.at = now /\ c.num = next
    BY <1>4, <1>5
  <2> HIDE DEF c
  <2>3. Here' \subseteq Here \cup {c} /\ World' \subseteq World \cup {c}
    BY <2>1 DEF World, Here, InHand, Around
  <2>4. /\ PayloadsUnique' /\ Aged'
        /\ \A m \in Kept : \A x \in Here' : m.msg < x.msg => m.num < x.num
    BY <1>0, <1>2, <1>3, <2>1, <2>2, <2>3, StampNewest
  <2>5. Kept' \subseteq Kept \cup {c}
    BY <2>1 DEF Kept, Gone
  <2>6. \A x \in Here' : ~(c.msg < x.msg)
    BY <1>1, <1>2, <2>2, <2>3 DEF World
  <2>7. KeptInOrder'
    BY <2>4, <2>5, <2>6 DEF KeptInOrder
  <2>8. AcceptedNumbered'
    BY <1>0, <1>1, <2>1, <2>2 DEF AcceptedNumbered, World
  <2>9. QED
    BY <2>4, <2>7, <2>8 DEF Tidy
<1>7. ASSUME PutStamp PROVE Tidy'
  <2>1. /\ cur' = Stamped(ids + 1) /\ up /\ up' = up
        /\ sent' = sent + 1 /\ busy = "stamp" /\ busy' = "write"
        /\ UNCHANGED <<now, q, accepted, disk, firm, loose, rotten, gone>>
    BY <1>7 DEF PutStamp
  <2>2. cur' \in Message /\ cur'.msg = sent + 1 /\ cur'.at = now /\ cur'.num = next
    BY <1>4, <1>5, <2>1
  <2>3. Here' \subseteq Here \cup {cur'} /\ World' \subseteq World \cup {cur'}
    BY <2>1 DEF World, Here, InHand, Around
  <2> DEFINE c == cur'
  <2>a. /\ c \in Message /\ c.msg = sent + 1 /\ c.at = now /\ c.num = next
        /\ Here' \subseteq Here \cup {c} /\ World' \subseteq World \cup {c}
    BY <2>2, <2>3
  <2> HIDE DEF c
  <2>4. /\ PayloadsUnique' /\ Aged'
        /\ \A m \in Kept : \A x \in Here' : m.msg < x.msg => m.num < x.num
    BY <1>0, <1>2, <1>3, <2>1, <2>a, StampNewest
  <2>5. Kept' = Kept
    BY <2>1 DEF Kept, Gone
  <2>6. KeptInOrder'
    BY <2>4, <2>5 DEF KeptInOrder
  <2>7. AcceptedNumbered'
    BY <1>0, <1>1, <2>1, <2>2 DEF AcceptedNumbered, World
  <2>8. QED
    BY <2>4, <2>6, <2>7 DEF Tidy
<1>8. ASSUME PutSync PROVE Tidy'
  <2>1. /\ q' = q \cup {cur} /\ accepted' = accepted \cup {cur} /\ up /\ up' = up
        /\ firm' = disk /\ loose' = {} /\ disk' = disk
        /\ busy = "sync" /\ busy' = "idle"
        /\ UNCHANGED <<now, sent, rotten, gone>>
    BY <1>8 DEF PutSync
  <2>2. cur.msg = sent
    BY <2>1 DEF OrderInv, CurNewest
  <2>3. Here' \subseteq Here /\ World' \subseteq World
    BY <2>1 DEF World, Here, InHand, Around
  <2>4. PayloadsUnique' /\ Aged'
    BY <1>0, <2>1, <2>3 DEF Tidy, PayloadsUnique, Aged
  <2>5. Kept' \subseteq Kept \cup {cur}
    BY <2>1 DEF Kept, Gone
  <2>6. \A x \in Here' : ~(cur.msg < x.msg)
    BY <1>1, <1>2, <2>2, <2>3 DEF World
  <2>7. KeptInOrder'
    BY <1>0, <2>3, <2>5, <2>6 DEF Tidy, KeptInOrder
  <2>8. AcceptedNumbered'
    BY <1>0, <1>1, <2>1, <2>2 DEF AcceptedNumbered
  <2>9. QED
    BY <2>4, <2>7, <2>8 DEF Tidy
<1>9. QED
  BY <1>6, <1>7, <1>8

LEMMA TidyOther ==
  ASSUME ClockGoesOn, SpoolInv, SpoolInv', OrderInv, Numbered, MailboxInv, NoSpool', [Next]_vars,
         ~PutMemory, ~PutStamp, ~PutSync
  PROVE  Tidy'
<1>0. TypeOK /\ TypeOK' /\ Tidy /\ Stopped /\ now \in Nat
  BY DEF SpoolInv, MailboxInv, Tidy, TypeOK
<1>1. \A m \in Here : m.msg <= sent
  <2>1. \A m \in InHand : m.msg = sent
    BY DEF InHand, OrderInv, CurNewest
  <2>2. sent <= sent
    BY <1>0 DEF TypeOK
  <2>3. QED
    BY <2>1, <2>2 DEF Here, Numbered
<1>2. CASE \E S \in SUBSET q : Leaves(S)
  <2>1. PICK S \in SUBSET q : Leaves(S)
    BY <1>2
  <2>2. /\ q' = q \ S /\ Gone' = Gone \cup S /\ busy' \in {"idle", "stamp"} /\ up /\ up' = up
        /\ UNCHANGED <<now, disk, firm, loose, rotten, sent, accepted>>
    BY <2>1 DEF Leaves, Leave, Idle, media
  <2>3. Here' \subseteq Here /\ Kept' \subseteq Kept
    BY <2>2 DEF Here, InHand, Around, Kept
  <2>4. QED
    BY <1>0, <1>1, <2>2, <2>3, TidyQuiet
<1>3. CASE PutFail \/ PutSyncFail
  <2>1. /\ busy' = "idle" /\ disk' \subseteq disk /\ up' = up /\ up
        /\ UNCHANGED <<now, q, gone, firm, loose, rotten, sent, accepted>>
    BY <1>3, SwitchAssumption DEF PutFail, PutSyncFail, memory
  <2>2. Here' \subseteq Here /\ Kept' \subseteq Kept
    BY <2>1 DEF Here, InHand, Around, Kept, Gone
  <2>3. QED
    BY <1>0, <1>1, <2>1, <2>2, TidyQuiet
<1>4. CASE PutRename
  <2>1. /\ busy = "write" /\ busy' = "sync" /\ disk' = Over(disk, cur) /\ firm' \subseteq firm
        /\ loose' \subseteq loose \cup {cur} \cup firm /\ up /\ up' = up
        /\ UNCHANGED <<now, q, cur, gone, rotten, sent, accepted>>
    BY <1>4 DEF PutRename, past
  <2>2. Here' \subseteq Here /\ Kept' \subseteq Kept
    BY <2>1 DEF Here, InHand, Around, Kept, Gone, Over
  <2>3. QED
    BY <1>0, <1>1, <2>1, <2>2, TidyQuiet
<1>5. CASE \E m \in doomed : Unlink(m)
  <2>1. /\ disk' \subseteq disk /\ firm' \subseteq firm /\ loose' \subseteq loose \cup firm
        /\ up /\ up' = up
        /\ UNCHANGED <<now, q, cur, busy, gone, rotten, sent, accepted>>
    BY <1>5 DEF Unlink, memory, past
  <2>2. Here' \subseteq Here /\ Kept' \subseteq Kept
    BY <2>1 DEF Here, InHand, Around, Kept, Gone
  <2>3. QED
    BY <1>0, <1>1, <2>1, <2>2, TidyQuiet
<1>6. CASE Crash \/ PowerCut
  <2>1. /\ q' = {} /\ busy' = "idle" /\ ~up' /\ now' = now
        /\ disk' \cup firm' \cup loose' \subseteq disk \cup firm \cup loose
        /\ UNCHANGED <<accepted, gone, rotten, sent>>
    BY <1>6 DEF Crash, PowerCut, media, past
  <2>2. Here' \subseteq Here
    BY <2>1 DEF Here, InHand, Around
  <2>3. Kept' \subseteq Kept
    BY <2>1, KeptStops
  <2>4. QED
    BY <1>0, <1>1, <2>1, <2>2, <2>3, TidyQuiet
<1>7. CASE Start
  <2>1. Here' \subseteq Here
    BY <1>0, <1>7, SwitchAssumption
       DEF Start, OpenSpool, Loadable, Here, InHand, Around, Stopped, call
  <2>2. Kept' = Kept
    BY <1>7, KeptStarts
  <2>3. /\ busy' = "idle" /\ UNCHANGED <<now, accepted, rotten, sent>>
    BY <1>0, <1>7 DEF Start, Stopped, call, past
  <2>4. QED
    BY <1>0, <1>1, <2>1, <2>2, <2>3, TidyQuiet
<1>8. CASE Aloof
  <2>1. /\ UNCHANGED <<up, q, busy, cur, disk, firm, loose, gone, accepted, sent>>
        /\ rotten \subseteq rotten' /\ rotten' \subseteq rotten \cup Here
    BY <1>8 DEF Aloof, Tick, StepClockBack, Corrupt, vars, memory, call, media, past, Here, Around
  <2>2. Here' \subseteq Here /\ Kept' \subseteq Kept
    BY <2>1 DEF Here, InHand, Around, Kept, Gone, Loadable
  <2>3. now <= now' \/ Here' = {}
    <3>1. CASE StepClockBack
      <4>1. ~Durable /\ ~up
        BY <3>1 DEF StepClockBack, ClockGoesOn
      <4>2. Here = {}
        BY <1>0, <4>1 DEF MailboxInv, NoSpool, Stopped, Here, InHand, Around
      <4>3. QED
        BY <2>2, <4>2
    <3>2. CASE ~StepClockBack
      BY <1>0, <1>8, <3>2 DEF Aloof, Tick, Corrupt, vars
    <3>3. QED
      BY <3>1, <3>2
  <2>4. QED
    BY <1>0, <1>1, <2>1, <2>2, <2>3, TidyQuiet
<1>9. QED
  BY <1>0, <1>2, <1>3, <1>4, <1>5, <1>6, <1>7, <1>8, StepCases

LEMMA MailboxInvNext ==
  ASSUME ClockGoesOn, SpoolInv, OrderInv, LeaseInv, MailboxInv, [Next]_vars
  PROVE  MailboxInv'
<1>1. SpoolInv' /\ TypeOK'
  BY InvNext DEF SpoolInv
<1>2. Runs' /\ NoSpool' /\ QueueBelow'
  BY <1>1, RunsNext, NoSpoolNext, QueueBelowNext DEF MailboxInv
<1>3. Tidy'
  BY <1>1, <1>2, TidyPut, TidyOther DEF LeaseInv
<1>4. QED
  BY <1>2, <1>3 DEF MailboxInv, Tidy

LEMMA MailboxInvInit == Init => MailboxInv
<1> SUFFICES ASSUME Init PROVE MailboxInv
  OBVIOUS
<1>1. Here = {} /\ World = {} /\ Kept = {}
  BY DEF Init, World, Here, InHand, Around, Kept
<1>2. PayloadsUnique /\ Aged /\ KeptInOrder /\ AcceptedNumbered
  BY <1>1 DEF Init, PayloadsUnique, Aged, KeptInOrder, AcceptedNumbered
<1>3. QED
  BY <1>2, BoundAssumption DEF Init, MailboxInv, QueueBelow, NoSpool, Runs
-----------------------------------------------------------------------------
(* Letters and loans.                                                      *)

Letters(S) == {Letter(m) : m \in S}

\* The loans that are running.
Lent == {k \in marks : k.m \in Kept /\ k.until > now}
Loans(K) == {Loan(k) : k \in K}

\* The variables of the mailbox, as the store has them.
LEMMA Mapped ==
  /\ Letters(Kept) = {Letter(m) : m \in Kept}
  /\ Loans(Lent) = {Loan(k) : k \in {x \in marks : x.m \in Kept /\ x.until > now}}
BY DEF Letters, Loans, Lent

LEMMA LetterFields ==
  /\ \A m : Letter(m).route = m.route /\ Letter(m).msg = m.msg /\ Letter(m).at = m.at
  /\ \A k : Loan(k).m = Letter(k.m) /\ Loan(k).lease = k.lease /\ Loan(k).until = k.until
BY DEF Letter, Loan

LEMMA LetterInjective ==
  ASSUME PayloadsUnique, NEW m \in World, NEW n \in World, Letter(m) = Letter(n)
  PROVE  m = n
<1>1. m.msg = n.msg
  BY LetterFields
<1>2. QED
  BY <1>1 DEF PayloadsUnique

LEMMA LetterMember ==
  ASSUME PayloadsUnique, NEW S \in SUBSET World, NEW m \in World
  PROVE  Letter(m) \in Letters(S) <=> m \in S
BY LetterInjective DEF Letters

LEMMA LettersMinus ==
  ASSUME PayloadsUnique, NEW S \in SUBSET World, NEW T \in SUBSET World
  PROVE  Letters(S \ T) = Letters(S) \ Letters(T)
<1>1. \A m \in S : Letter(m) \in Letters(T) <=> m \in T
  BY LetterMember
<1>2. QED
  BY <1>1 DEF Letters

LEMMA LettersUnion == \A S, T : Letters(S \cup T) = Letters(S) \cup Letters(T)
BY DEF Letters

LEMMA LoansWithout ==
  ASSUME PayloadsUnique, NEW K, \A k \in K : k.m \in World, NEW T \in SUBSET World
  PROVE  Loans({k \in K : k.m \notin T}) = {l \in Loans(K) : l.m \notin Letters(T)}
<1>1. \A k \in K : Loan(k).m \in Letters(T) <=> k.m \in T
  BY LetterMember, LetterFields
<1>2. QED
  BY <1>1 DEF Loans

-----------------------------------------------------------------------------
(* What a collector finds.                                                 *)

LEMMA KeptInWorld ==
  ASSUME SpoolInv, MailboxInv
  PROVE  /\ Kept \in SUBSET World /\ q \in SUBSET World
         /\ \A k \in Lent : k.m \in Kept /\ k.m \in World
BY KeptWhere DEF World, Here, Around, Lent

\* The expired front of the queue is all that is too old, as far as it is kept:
\* times follow the order of the queue.
LEMMA ExpiredIsStale ==
  ASSUME SpoolInv, MailboxInv, up, NEW r
  PROVE  Expired(r) \cap Kept = {m \in Kept : m.route = r /\ Stale(m)}
<1>0. Kept \subseteq q /\ q \subseteq Here /\ Here \subseteq World /\ TypeOK
  BY KeptWhere DEF Here, Around, World, SpoolInv
<1>1. now \in Nat /\ \A m \in World : m.msg \in Nat /\ m.num \in Nat /\ m.at \in Nat
  BY <1>0, WorldType DEF TypeOK
<1>2. ASSUME NEW m \in Kept, m \in Expired(r) PROVE m.route = r /\ Stale(m)
  <2>1. m \in Queue(r) /\ m.num <= m.num
    BY <1>0, <1>1, <1>2 DEF Expired
  <2>2. QED
    BY <1>2, <2>1 DEF Expired, Queue
<1>3. ASSUME NEW m \in Kept, m.route = r, Stale(m) PROVE m \in Expired(r)
  <2>1. ASSUME NEW x \in Queue(r), x.num <= m.num PROVE Stale(x)
    <3>1. x \in Here /\ x \in World /\ m \in World /\ m \in Here
      BY <1>0, <2>1 DEF Queue
    <3>2. ~(m.msg < x.msg)
      BY <1>1, <2>1, <3>1 DEF MailboxInv, KeptInOrder
    <3>3. x.msg <= m.msg
      BY <1>1, <3>1, <3>2
    <3>4. x.at <= m.at
      BY <3>1, <3>3 DEF MailboxInv, Aged
    <3>5. QED
      BY <1>1, <1>3, <3>1, <3>4, TimeAssumption DEF Stale
  <2>2. m \in Queue(r)
    BY <1>0, <1>3 DEF Queue
  <2>3. QED
    BY <2>1, <2>2 DEF Expired
<1>4. QED
  BY <1>2, <1>3

LEMMA TooOldIs ==
  ASSUME SpoolInv, MailboxInv, up
  PROVE  \A r : Promise!TooOld(r) = Letters(Expired(r) \cap Kept)
<1>1. ASSUME NEW r PROVE Promise!TooOld(r) = Letters(Expired(r) \cap Kept)
  <2>1. Promise!TooOld(r) = {l \in Letters(Kept) : l.route = r /\ l.at + TTL < now}
    BY Mapped DEF Promise!TooOld
  <2>2. {l \in Letters(Kept) : l.route = r /\ l.at + TTL < now}
          = Letters({m \in Kept : m.route = r /\ Stale(m)})
    BY LetterFields DEF Letters, Stale
  <2>3. QED
    BY <2>1, <2>2, ExpiredIsStale
<1>2. QED
  BY <1>1

LEMMA FreeIs ==
  ASSUME SpoolInv, MailboxInv, up, NEW r
  PROVE  Promise!Free(r) = Letters(Available(r) \cap Kept)
<1>0. Kept \subseteq q /\ Kept \in SUBSET World /\ Expired(r) \cap Kept \in SUBSET World
  BY KeptWhere, KeptInWorld
<1>u. PayloadsUnique /\ TypeOK
  BY DEF MailboxInv, SpoolInv
<1>1. Promise!Free(r) = {l \in Letters(Kept) \ Letters(Expired(r) \cap Kept) :
                           l.route = r /\ \A k \in Loans(Lent) : k.m # l}
  BY TooOldIs, Mapped DEF Promise!Free
<1>2. Letters(Kept) \ Letters(Expired(r) \cap Kept) = Letters(Kept \ Expired(r))
  <2>1. Letters(Kept \ (Expired(r) \cap Kept)) = Letters(Kept) \ Letters(Expired(r) \cap Kept)
    BY <1>0, <1>u, LettersMinus
  <2>2. Kept \ (Expired(r) \cap Kept) = Kept \ Expired(r)
    OBVIOUS
  <2>3. QED
    BY <2>1, <2>2
<1>3. ASSUME NEW m \in Kept, m.route = r
      PROVE  (\A k \in Loans(Lent) : k.m # Letter(m)) <=> m \notin Marked(r)
  <2>1. (\A k \in Loans(Lent) : k.m # Letter(m)) <=> \A k \in Lent : Letter(k.m) # Letter(m)
    BY LetterFields DEF Loans
  <2>2. \A k \in Lent : Letter(k.m) = Letter(m) <=> k.m = m
    BY <1>0, <1>u, KeptInWorld, LetterInjective
  <2>3. \A k \in marks : k.until \in Nat /\ now \in Nat
    BY <1>u DEF TypeOK, Mark
  <2>4. (\E k \in Lent : k.m = m) <=> m \in Marked(r)
    BY <1>3, <2>3 DEF Lent, Marked, Lapsed
  <2>5. QED
    BY <2>1, <2>2, <2>4
<1>4. Available(r) \cap Kept = {m \in Kept \ Expired(r) : m.route = r /\ m \notin Marked(r)}
  BY <1>0 DEF Available, Queue
<1>5. {l \in Letters(Kept \ Expired(r)) : l.route = r /\ \A k \in Loans(Lent) : k.m # l}
        = Letters({m \in Kept \ Expired(r) : m.route = r /\ m \notin Marked(r)})
  <2> DEFINE P(l) == l.route = r /\ \A k \in Loans(Lent) : k.m # l
             Q(m) == m.route = r /\ m \notin Marked(r)
  <2>1. \A m \in Kept : P(Letter(m)) <=> Q(m)
    BY <1>3, LetterFields
  <2> HIDE DEF P, Q
  <2>2. {l \in Letters(Kept \ Expired(r)) : P(l)} = Letters({m \in Kept \ Expired(r) : Q(m)})
    BY <2>1 DEF Letters
  <2>3. QED
    BY <2>2 DEF P, Q
<1>6. QED
  BY <1>1, <1>2, <1>4, <1>5

\* The first few of what is available are the oldest of the kept ones among it.
LEMMA FirstIsOldest ==
  ASSUME SpoolInv, BoundInv, MailboxInv, up, NEW r, NEW limit \in Limits
  PROVE  LET S == First(Available(r), limit) \cap Kept
         IN  Promise!OldestFirst(Letters(S), Letters(Available(r) \cap Kept))
<1> DEFINE A == Available(r)
           F == First(A, limit)
           S == F \cap Kept
<1>0. A \subseteq q /\ q \subseteq Around /\ q \subseteq Here /\ Here \subseteq World /\ F \subseteq A
  BY QueueSubset, FirstSubset DEF Here, Around, World
<1>u. PayloadsUnique /\ TypeOK /\ IsFiniteSet(A) /\ limit \in Nat
  <2>1. A \in SUBSET Around
    BY <1>0
  <2>2. QED
    BY <2>1, FS_Subset, SizeAssumption DEF MailboxInv, SpoolInv, BoundInv, Finite
<1>1. \A m \in World : m.msg \in Nat /\ m.num \in Nat
  BY <1>u, WorldType
<1>2. ASSUME NEW m \in F, NEW x \in A \ F PROVE m.num < x.num
  <2>0. limit # 0
    BY <1>2 DEF First
  <2> DEFINE below(y) == {z \in A : z.num < y.num}
  <2>1. F = {y \in A : Cardinality(below(y)) < limit}
    BY <2>0 DEF First
  <2>2. Cardinality(below(m)) < limit /\ ~(Cardinality(below(x)) < limit)
    BY <1>0, <1>2, <2>1
  <2>3. m \in World /\ x \in World
    BY <1>0, <1>2
  <2>4. SUFFICES ASSUME x.num <= m.num PROVE FALSE
    BY <1>1, <2>3
  <2>5. below(x) \subseteq below(m) /\ below(m) \subseteq A
    BY <1>0, <1>1, <2>3, <2>4
  <2> HIDE DEF below, A, F
  <2>6. IsFiniteSet(below(m)) /\ Cardinality(below(m)) \in Nat
    BY <1>u, <2>5, FS_Subset, FS_CardinalityType
  <2>7. IsFiniteSet(below(x)) /\ Cardinality(below(x)) \in Nat
        /\ Cardinality(below(x)) <= Cardinality(below(m))
    BY <2>5, <2>6, FS_Subset, FS_CardinalityType
  <2>8. QED
    BY <1>u, <2>2, <2>6, <2>7
<1>3. ASSUME NEW m \in S, NEW x \in (A \cap Kept) \ S PROVE m.msg < x.msg
  <2>1. m.num < x.num /\ m \in World /\ x \in World /\ m \in Here
    BY <1>0, <1>2, <1>3
  <2>2. ~(x.msg < m.msg)
    BY <1>1, <1>3, <2>1 DEF MailboxInv, KeptInOrder
  <2>3. x.msg # m.msg
    BY <1>1, <1>u, <2>1 DEF PayloadsUnique
  <2>4. QED
    BY <1>1, <2>1, <2>2, <2>3
<1>4. S \subseteq A \cap Kept /\ A \cap Kept \in SUBSET World /\ S \in SUBSET World
  BY <1>0
<1> DEFINE B == A \cap Kept
<1>5. S \subseteq B /\ B \in SUBSET World /\ S \in SUBSET World /\ \A m \in S : \A x \in B \ S : m.msg < x.msg
  BY <1>3, <1>4
<1> HIDE DEF A, F, S, B
<1>6. Letters(B) \ Letters(S) = Letters(B \ S)
  BY <1>5, <1>u, LettersMinus
<1>7. Letters(S) \subseteq Letters(B)
  BY <1>5 DEF Letters
<1>8. \A l \in Letters(S) : \A y \in Letters(B \ S) : l.msg < y.msg
  BY <1>5, LetterFields DEF Letters
<1>9. Promise!OldestFirst(Letters(S), Letters(B))
  BY <1>6, <1>7, <1>8 DEF Promise!OldestFirst
<1>10. QED
  BY <1>9 DEF A, F, S, B
-----------------------------------------------------------------------------
(* The actions of the mailbox, in the words of the store.                  *)

LEMMA StutterIs ==
  ASSUME UNCHANGED <<now, accepted, rotten, grants>>, Kept' = Kept, Lent' = Lent
  PROVE  UNCHANGED Promise!vars
BY DEF Promise!vars, Lent

\* Letters in X leave, and their loans with them.
Without(X) ==
  /\ Letters(Kept') = Letters(Kept) \ X
  /\ Loans(Lent') = {l \in Loans(Lent) : l.m \notin X}

LEMMA ExpireMeans ==
  ASSUME NEW R, NEW X, X = UNION {Promise!TooOld(r) : r \in R}, Without(X),
         UNCHANGED <<now, accepted, rotten, grants>>
  PROVE  Promise!Expire(R)
<1>1. /\ {Letter(m) : m \in Kept}' = {Letter(m) : m \in Kept} \ X
      /\ {Loan(k) : k \in {x \in marks : x.m \in Kept /\ x.until > now}}'
           = {l \in {Loan(k) : k \in {x \in marks : x.m \in Kept /\ x.until > now}} : l.m \notin X}
  BY DEF Without, Letters, Loans, Lent
<1>2. UNCHANGED <<now, {Letter(m) : m \in accepted}, {Letter(m) : m \in rotten}, {g.lease : g \in grants}>>
  OBVIOUS
<1>3. QED
  BY <1>1, <1>2 DEF Promise!Expire, Promise!Drop

LEMMA DeliverMeans ==
  ASSUME NEW r, NEW S, NEW X, X = S \cup Promise!TooOld(r), Without(X),
         Promise!OldestFirst(S, Promise!Free(r)),
         UNCHANGED <<now, accepted, rotten, grants>>
  PROVE  Promise!Deliver(r, S)
<1>1. /\ {Letter(m) : m \in Kept}' = {Letter(m) : m \in Kept} \ X
      /\ {Loan(k) : k \in {x \in marks : x.m \in Kept /\ x.until > now}}'
           = {l \in {Loan(k) : k \in {x \in marks : x.m \in Kept /\ x.until > now}} : l.m \notin X}
  BY DEF Without, Letters, Loans, Lent
<1>2. UNCHANGED <<now, {Letter(m) : m \in accepted}, {Letter(m) : m \in rotten}, {g.lease : g \in grants}>>
  OBVIOUS
<1>3. QED
  BY <1>1, <1>2 DEF Promise!Deliver, Promise!Drop

LEMMA SettleMeans ==
  ASSUME NEW r, NEW lease, NEW X, Without(X),
         X = Promise!TooOld(r) \cup
               {m \in Letters(Kept) : m.route = r /\ \E k \in Loans(Lent) : k.m = m /\ k.lease = lease},
         UNCHANGED <<now, accepted, rotten, grants>>
  PROVE  Promise!Settle(r, lease)
<1>1. /\ {Letter(m) : m \in Kept}' = {Letter(m) : m \in Kept} \ X
      /\ {Loan(k) : k \in {x \in marks : x.m \in Kept /\ x.until > now}}'
           = {l \in {Loan(k) : k \in {x \in marks : x.m \in Kept /\ x.until > now}} : l.m \notin X}
  BY DEF Without, Letters, Loans, Lent
<1>2. UNCHANGED <<now, {Letter(m) : m \in accepted}, {Letter(m) : m \in rotten}, {g.lease : g \in grants}>>
  OBVIOUS
<1>3. QED
  BY <1>1, <1>2 DEF Promise!Settle, Promise!Drop, Letters, Loans, Lent

LEMMA WithoutIs ==
  ASSUME SpoolInv, MailboxInv, NEW out \in SUBSET q,
         Kept' = Kept \ out, Lent' = {k \in Lent : k.m \notin out}
  PROVE  Without(Letters(out \cap Kept))
<1> DEFINE T == out \cap Kept
<1>0. PayloadsUnique /\ Kept \in SUBSET World /\ T \in SUBSET World /\ \A k \in Lent : k.m \in World
  BY KeptInWorld DEF MailboxInv
<1>1. Kept \ out = Kept \ T /\ {k \in Lent : k.m \notin out} = {k \in Lent : k.m \notin T}
  BY KeptInWorld
<1> HIDE DEF T
<1>2. Letters(Kept') = Letters(Kept) \ Letters(T)
  BY <1>0, <1>1, LettersMinus
<1>3. Loans(Lent') = {l \in Loans(Lent) : l.m \notin Letters(T)}
  BY <1>0, <1>1, LoansWithout
<1>4. QED
  BY <1>2, <1>3 DEF T, Without

LEMMA ClearsIs ==
  ASSUME SpoolInv, MailboxInv, NEW out \in SUBSET q, NEW E, Clears(out, E)
  PROVE  /\ up /\ Without(Letters(out \cap Kept))
         /\ UNCHANGED <<now, accepted, rotten, grants>>
<1>1. /\ q' = q \ out /\ Gone' = Gone \cup out /\ up /\ up' = up
      /\ UNCHANGED <<now, accepted, rotten, grants>>
  BY DEF Clears, Leaves, Leave, Idle, media
<1>2. Kept' = Kept \ out
  BY <1>1 DEF Kept
<1>3. PICK lapsed \in SUBSET marks :
        /\ \A k \in lapsed : k.until <= now
        /\ marks' = {k \in marks \ lapsed : k.m \notin out}
  BY DEF Clears
<1>4. \A k \in marks : k.until \in Nat /\ now \in Nat
  BY DEF SpoolInv, TypeOK, Mark
<1>5. Lent' = {k \in Lent : k.m \notin out}
  BY <1>1, <1>2, <1>3, <1>4 DEF Lent
<1>6. QED
  BY <1>1, <1>2, <1>5, WithoutIs

\* Depth, Sweep, and a Put that has looked for room.
LEMMA ExpireIs ==
  ASSUME SpoolInv, MailboxInv, NEW R \in SUBSET Routes,
         NEW out, out = UNION {Expired(r) : r \in R}, out \in SUBSET q,
         NEW E, Clears(out, E)
  PROVE  Promise!Expire(R)
<1> DEFINE X == Letters(out \cap Kept)
<1>1. /\ up /\ Without(X)
      /\ UNCHANGED <<now, accepted, rotten, grants>>
  BY ClearsIs
<1>2. \A r : Promise!TooOld(r) = Letters(Expired(r) \cap Kept)
  BY <1>1, TooOldIs
<1>3. UNION {Promise!TooOld(r) : r \in R} = UNION {Letters(Expired(r) \cap Kept) : r \in R}
  BY <1>2
<1>4. UNION {Letters(Expired(r) \cap Kept) : r \in R} = X
  <2> DEFINE Y(r) == Expired(r)
  <2>1. out = UNION {Y(r) : r \in R}
    OBVIOUS
  <2> HIDE DEF Y
  <2>2. UNION {Letters(Y(r) \cap Kept) : r \in R} = Letters(out \cap Kept)
    <3>1. ASSUME NEW l, l \in UNION {Letters(Y(r) \cap Kept) : r \in R} PROVE l \in Letters(out \cap Kept)
      <4>1. PICK r \in R : l \in Letters(Y(r) \cap Kept)
        BY <3>1
      <4>2. PICK m \in Y(r) \cap Kept : l = Letter(m)
        BY <4>1 DEF Letters
      <4>3. m \in out \cap Kept
        BY <2>1, <4>2
      <4>4. QED
        BY <4>2, <4>3 DEF Letters
    <3>2. ASSUME NEW l, l \in Letters(out \cap Kept) PROVE l \in UNION {Letters(Y(r) \cap Kept) : r \in R}
      <4>1. PICK m \in out \cap Kept : l = Letter(m)
        BY <3>2 DEF Letters
      <4>2. PICK r \in R : m \in Y(r)
        BY <2>1, <4>1
      <4>3. l \in Letters(Y(r) \cap Kept)
        BY <4>1, <4>2 DEF Letters
      <4>4. QED
        BY <4>3
    <3>3. QED
      BY <3>1, <3>2
  <2>3. QED
    BY <2>2 DEF Y
<1>5. X = UNION {Promise!TooOld(r) : r \in R}
  BY <1>3, <1>4
<1> HIDE DEF X
<1>6. QED
  BY <1>1, <1>5, ExpireMeans

LEMMA TakeIs ==
  ASSUME SpoolInv, BoundInv, MailboxInv, NEW r \in Routes, NEW limit \in Limits, Take(r, limit)
  PROVE  \E S \in SUBSET Promise!Free(r) : Promise!Deliver(r, S)
<1> DEFINE taken == First(Available(r), limit)
           out == Expired(r) \cup taken
           E == Exits(Expired(r), "expired", NoOne) \cup Exits(taken, "taken", NoOne)
           S == Letters(taken \cap Kept)
           O == Letters(Expired(r) \cap Kept)
           X == Letters(out \cap Kept)
<1>1. out \in SUBSET q /\ Clears(out, E)
  BY TakeClears
<1>2. out = Expired(r) \cup taken
  OBVIOUS
<1> HIDE DEF taken, E, out
<1>3. /\ up /\ Without(X)
      /\ UNCHANGED <<now, accepted, rotten, grants>>
  BY <1>1, ClearsIs
<1>4. Promise!OldestFirst(S, Promise!Free(r))
  BY <1>3, FirstIsOldest, FreeIs DEF taken
<1>5. X = S \cup O
  BY <1>2 DEF Letters
<1>6. O = Promise!TooOld(r)
  BY <1>3, TooOldIs
<1> HIDE DEF S, O, X
<1>7. PICK Y, T : Y = X /\ T = S
  OBVIOUS
<1>8. Without(Y) /\ Y = T \cup Promise!TooOld(r) /\ Promise!OldestFirst(T, Promise!Free(r))
  BY <1>3, <1>4, <1>5, <1>6, <1>7 DEF Without, Promise!OldestFirst
<1>9. Promise!Deliver(r, T)
  BY <1>3, <1>8, DeliverMeans
<1>10. T \in SUBSET Promise!Free(r)
  BY <1>8 DEF Promise!OldestFirst
<1>11. QED
  BY <1>9, <1>10

LEMMA AckIs ==
  ASSUME SpoolInv, MailboxInv, NEW r \in Routes, NEW g \in grants, Ack(r, g)
  PROVE  \E l \in {h.lease : h \in grants} : Promise!Settle(r, l)
<1> DEFINE out == Expired(r) \cup Acked(r, g)
           E == Exits(Expired(r), "expired", NoOne) \cup Exits(Acked(r, g), "acked", <<g.run, g.k>>)
           lentTo == {m \in Kept : m.route = r /\ \E k \in Lent : k.m = m /\ k.lease = g.lease}
           O == Letters(Expired(r) \cap Kept)
           X == Letters(out \cap Kept)
<1>1. out \in SUBSET q /\ Clears(out, E)
  BY AckClears
<1>2. out = Expired(r) \cup Acked(r, g)
  OBVIOUS
<1> HIDE DEF E, out
<1>3. /\ up /\ Without(X)
      /\ UNCHANGED <<now, accepted, rotten, grants>>
  BY <1>1, ClearsIs
<1>4. Kept \subseteq q /\ Kept \in SUBSET World /\ PayloadsUnique /\ TypeOK
  BY <1>3, KeptWhere, KeptInWorld DEF MailboxInv, SpoolInv
<1>5. out \cap Kept = (Expired(r) \cap Kept) \cup lentTo
  <2>1. \A k \in marks : k.until \in Nat /\ now \in Nat
    BY <1>4 DEF TypeOK, Mark
  <2>2. \A m \in Kept : m.route = r =>
          \A k \in marks : k.m = m => (k \notin Lapsed(r) <=> k \in Lent)
    BY <2>1 DEF Lapsed, Lent
  <2>3. \A m \in Kept \ Expired(r) : m \in Acked(r, g) <=> m \in lentTo
    BY <1>4, <2>2 DEF Acked, Queue, Lent
  <2>4. QED
    BY <1>2, <2>3 DEF Acked
<1>6. {l \in Letters(Kept) : l.route = r /\ \E k \in Loans(Lent) : k.m = l /\ k.lease = g.lease}
        = Letters(lentTo)
  <2> DEFINE P(l) == l.route = r /\ \E k \in Loans(Lent) : k.m = l /\ k.lease = g.lease
             Q(m) == m.route = r /\ \E k \in Lent : k.m = m /\ k.lease = g.lease
  <2>1. ASSUME NEW m \in Kept PROVE P(Letter(m)) <=> Q(m)
    <3>1. \A k \in Lent : Letter(k.m) = Letter(m) <=> k.m = m
      BY <1>4, KeptInWorld, LetterInjective
    <3>2. ASSUME NEW k \in Loans(Lent), k.m = Letter(m), k.lease = g.lease
          PROVE  \E x \in Lent : x.m = m /\ x.lease = g.lease
      <4>1. PICK x \in Lent : k = Loan(x)
        BY DEF Loans
      <4>2. x.m = m /\ x.lease = g.lease
        BY <3>1, <3>2, <4>1, LetterFields
      <4>3. QED
        BY <4>2
    <3>3. ASSUME NEW x \in Lent, x.m = m, x.lease = g.lease
          PROVE  \E k \in Loans(Lent) : k.m = Letter(m) /\ k.lease = g.lease
      <4>1. Loan(x) \in Loans(Lent) /\ Loan(x).m = Letter(m) /\ Loan(x).lease = g.lease
        BY <3>3, LetterFields DEF Loans
      <4>2. QED
        BY <4>1
    <3>4. QED
      BY <3>2, <3>3, LetterFields
  <2>2. lentTo = {m \in Kept : Q(m)}
    OBVIOUS
  <2> HIDE DEF P, Q, lentTo
  <2>3. {l \in Letters(Kept) : P(l)} = Letters({m \in Kept : Q(m)})
    BY <2>1 DEF Letters
  <2>4. QED
    BY <2>2, <2>3 DEF P
<1>7. X = O \cup Letters(lentTo)
  <2> HIDE DEF lentTo
  <2>1. QED
    BY <1>5 DEF Letters
<1>8. O = Promise!TooOld(r)
  BY <1>3, TooOldIs
<1> HIDE DEF out, lentTo, X, O
<1> DEFINE lease == g.lease
<1>a. PICK Y : Y = X
  OBVIOUS
<1>b. Without(Y)
  BY <1>3, <1>a DEF Without
<1>9. Y = Promise!TooOld(r) \cup
        {m \in Letters(Kept) : m.route = r /\ \E k \in Loans(Lent) : k.m = m /\ k.lease = lease}
  BY <1>6, <1>7, <1>8, <1>a
<1>10. lease \in {h.lease : h \in grants}
  OBVIOUS
<1> HIDE DEF lease
<1>11. Promise!Settle(r, lease)
  BY <1>3, <1>b, <1>9, SettleMeans
<1>12. QED
  BY <1>10, <1>11

-----------------------------------------------------------------------------
(* Collection under a lease.                                               *)

LEMMA LendMeans ==
  ASSUME NEW r, NEW S, NEW lease, NEW d,
         Promise!OldestFirst(S, Promise!Free(r)),
         lease \notin {g.lease : g \in grants},
         {g.lease : g \in grants'} = {g.lease : g \in grants} \cup {lease},
         Letters(Kept') = Letters(Kept) \ Promise!TooOld(r),
         Loans(Lent') = {l \in Loans(Lent) : l.m \notin Promise!TooOld(r)}
                          \cup {[m |-> m, lease |-> lease, until |-> now + d] : m \in S},
         UNCHANGED <<now, accepted, rotten>>
  PROVE  Promise!Lend(r, S, lease, d)
<1>1. /\ {Letter(m) : m \in Kept}' = {Letter(m) : m \in Kept} \ Promise!TooOld(r)
      /\ {Loan(k) : k \in {x \in marks : x.m \in Kept /\ x.until > now}}'
           = {l \in {Loan(k) : k \in {x \in marks : x.m \in Kept /\ x.until > now}} :
                l.m \notin Promise!TooOld(r)}
               \cup {[m |-> m, lease |-> lease, until |-> now + d] : m \in S}
  BY DEF Letters, Loans, Lent
<1>2. UNCHANGED <<now, {Letter(m) : m \in accepted}, {Letter(m) : m \in rotten}>>
  OBVIOUS
<1>3. QED
  BY <1>1, <1>2 DEF Promise!Lend

\* A new lease has an id nobody has had.
LEMMA LeaseIsNew ==
  ASSUME TypeOK, GrantsNamed, Runs, leases < MaxGrants
  PROVE  /\ nextLease \notin {g.lease : g \in grants}
         /\ nextLease \in (1 .. MaxStarts) \X (1 .. MaxGrants)
<1>1. leases \in Nat /\ epoch \in Nat
  BY DEF TypeOK
<1>2. ASSUME NEW g \in grants, g.lease = nextLease PROVE FALSE
  <2>1. g.run = epoch /\ g.k = leases + 1
    BY <1>2 DEF GrantsNamed, nextLease
  <2>2. g.k <= leases
    BY <2>1 DEF GrantsNamed
  <2>3. QED
    BY <1>1, <2>1, <2>2
<1>3. epoch \in 1 .. MaxStarts /\ leases + 1 \in 1 .. MaxGrants
  BY <1>1, BoundAssumption DEF Runs
<1>4. QED
  BY <1>2, <1>3 DEF nextLease

LEMMA TakeLeasedIs ==
  ASSUME SpoolInv, BoundInv, LeaseInv, MailboxInv,
         NEW r \in Routes, NEW limit \in Limits, NEW d \in 1 .. MaxLease, TakeLeased(r, limit, d)
  PROVE  \E S \in SUBSET Promise!Free(r) :
           \/ Promise!Deliver(r, S)
           \/ \E l \in (1 .. MaxStarts) \X (1 .. MaxGrants), e \in 1 .. MaxLease : Promise!Lend(r, S, l, e)
<1> DEFINE held == First(Available(r), limit)
           out == Expired(r)
           N == {[m |-> m, lease |-> nextLease, until |-> now + d] : m \in held}
           S == Letters(held \cap Kept)
           X == Letters(out \cap Kept)
<1>0. TypeOK /\ PayloadsUnique /\ GrantsNamed /\ Runs /\ now \in Nat /\ d \in Nat \ {0}
  BY TimeAssumption DEF SpoolInv, MailboxInv, LeaseInv, TypeOK
<1>1. held \subseteq q /\ out \in SUBSET q /\ held \cap out = {}
  BY QueueSubset, FirstSubset DEF Available
<1>2. /\ q' = q \ out /\ up /\ up' = up /\ leases < MaxGrants
      /\ marks' = {k \in marks \ Lapsed(r) : k.m \notin out} \cup N
      /\ Gone' = Gone \cup out
      /\ UNCHANGED <<now, accepted, rotten>>
  BY ExitsGoneOne DEF TakeLeased, Leave, media, Idle
<1>3. {g.lease : g \in grants'} = {g.lease : g \in grants} \cup (IF held = {} THEN {} ELSE {nextLease})
  <2> DEFINE G(T) == [run |-> epoch, k |-> leases + 1, lease |-> nextLease, route |-> r,
                      at |-> now, until |-> now + d, msgs |-> T]
  <2>1. grants' = grants \cup {G(T) : T \in {held} \ {{}}}
    BY DEF TakeLeased
  <2>2. \A T : G(T).lease = nextLease
    OBVIOUS
  <2> HIDE DEF G, held
  <2>3. QED
    BY <2>1, <2>2
<1>4. Kept' = Kept \ out
  BY <1>2 DEF Kept
<1>5. S = Letters(held \cap Kept) /\ X = Letters(out \cap Kept)
  OBVIOUS
<1>6. Promise!OldestFirst(S, Promise!Free(r))
  BY <1>2, FirstIsOldest, FreeIs
<1>7. X = Promise!TooOld(r)
  BY <1>2, TooOldIs
<1>8. Letters(Kept') = Letters(Kept) \ X
  <2>1. Kept \ out = Kept \ (out \cap Kept) /\ Kept \in SUBSET World /\ out \cap Kept \in SUBSET World
    BY KeptInWorld
  <2> HIDE DEF out
  <2>2. QED
    BY <1>0, <1>4, <2>1, LettersMinus
<1>9. Loans(Lent') = {l \in Loans(Lent) : l.m \notin X}
                       \cup {[m |-> m, lease |-> nextLease, until |-> now + d] : m \in S}
  <2> DEFINE new(m) == [m |-> m, lease |-> nextLease, until |-> now + d]
  <2>1. \A m : new(m).m = m /\ new(m).until = now + d /\ Loan(new(m)) = new(Letter(m))
    BY DEF Loan
  <2>2. N = {new(m) : m \in held}
    OBVIOUS
  <2>3. {[m |-> m, lease |-> nextLease, until |-> now + d] : m \in S} = {new(m) : m \in S}
    OBVIOUS
  <2>4. \A k \in marks : k.until \in Nat
    BY <1>0 DEF TypeOK, Mark
  <2>5. now + d > now
    BY <1>0
  <2> HIDE DEF new, N, held, out, S
  <2>6. Lent' = {k \in Lent : k.m \notin out} \cup {new(m) : m \in held \cap Kept}
    <3>1. Lent' = {k \in marks' : k.m \in Kept' /\ k.until > now}
      BY <1>2 DEF Lent
    <3>2. {k \in {k \in marks \ Lapsed(r) : k.m \notin out} : k.m \in Kept' /\ k.until > now}
            = {k \in Lent : k.m \notin out}
      BY <1>0, <1>4, <2>4 DEF Lent, Lapsed
    <3>3. {k \in N : k.m \in Kept' /\ k.until > now} = {new(m) : m \in held \cap Kept}
      BY <1>1, <1>4, <2>1, <2>2, <2>5
    <3>4. QED
      BY <1>2, <3>1, <3>2, <3>3
  <2>7. Loans({k \in Lent : k.m \notin out}) = {l \in Loans(Lent) : l.m \notin X}
    <3>1. {k \in Lent : k.m \notin out} = {k \in Lent : k.m \notin out \cap Kept}
          /\ out \cap Kept \in SUBSET World /\ \A k \in Lent : k.m \in World
      BY KeptInWorld
    <3>2. QED
      BY <1>0, <1>5, <3>1, LoansWithout
  <2>8. Loans({new(m) : m \in held \cap Kept}) = {new(m) : m \in S}
    BY <1>5, <2>1 DEF Loans, Letters
  <2>9. QED
    <3>1. \A A, B : Loans(A \cup B) = Loans(A) \cup Loans(B)
      BY DEF Loans
    <3>2. Loans(Lent') = Loans({k \in Lent : k.m \notin out}) \cup Loans({new(m) : m \in held \cap Kept})
      BY <2>6, <3>1
    <3>3. QED
      BY <2>3, <2>7, <2>8, <3>2
<1>10. nextLease \notin {g.lease : g \in grants} /\ nextLease \in (1 .. MaxStarts) \X (1 .. MaxGrants)
  BY <1>0, <1>2, LeaseIsNew
<1>11. PICK T, Y, l : T = S /\ Y = X /\ l = nextLease
  OBVIOUS
<1>12. held = {} => T = {}
  BY <1>5, <1>11 DEF Letters
<1> HIDE DEF held, out, N, S, X
<1>13. T \in SUBSET Promise!Free(r) /\ Promise!OldestFirst(T, Promise!Free(r))
  BY <1>6, <1>11 DEF Promise!OldestFirst
<1>14. CASE held = {}
  <2>1. T = {} /\ Y = T \cup Promise!TooOld(r)
    BY <1>7, <1>11, <1>12, <1>14
  <2>2. Without(Y)
    BY <1>8, <1>9, <1>11, <2>1 DEF Without
  <2>3. grants' = grants
    BY <1>14 DEF TakeLeased, held
  <2>4. Promise!Deliver(r, T)
    BY <1>2, <1>13, <2>1, <2>2, <2>3, DeliverMeans
  <2>5. QED
    BY <1>13, <2>4
<1>15. CASE held # {}
  <2>1. {g.lease : g \in grants'} = {g.lease : g \in grants} \cup {l} /\ l \notin {g.lease : g \in grants}
    BY <1>3, <1>10, <1>11, <1>15
  <2>2. /\ Letters(Kept') = Letters(Kept) \ Promise!TooOld(r)
        /\ Loans(Lent') = {x \in Loans(Lent) : x.m \notin Promise!TooOld(r)}
                            \cup {[m |-> m, lease |-> l, until |-> now + d] : m \in T}
    BY <1>7, <1>8, <1>9, <1>11
  <2>3. Promise!Lend(r, T, l, d)
    BY <1>2, <1>13, <2>1, <2>2, LendMeans
  <2>4. QED
    BY <1>10, <1>11, <1>13, <2>3
<1>16. QED
  BY <1>14, <1>15

-----------------------------------------------------------------------------
(* The 202, and what the world does.                                       *)

LEMMA AcceptMeans ==
  ASSUME NEW n, n.at <= now, \A x \in Letters(accepted) : x.msg < n.msg, n \notin Letters(accepted),
         Letters(accepted') = Letters(accepted) \cup {n},
         Letters(Kept') = Letters(Kept) \cup {n},
         Lent' = Lent,
         UNCHANGED <<now, rotten, grants>>
  PROVE  Promise!Next
<1>1. /\ {Letter(m) : m \in accepted}' = {Letter(m) : m \in accepted} \cup {n}
      /\ \A x \in {Letter(m) : m \in accepted} : x.msg < n.msg
      /\ {Letter(m) : m \in Kept}' = ({Letter(m) : m \in Kept} \ {}) \cup {n}
      /\ n \in {Letter(m) : m \in accepted}' \ {Letter(m) : m \in accepted}
  BY DEF Letters
<1>2. {Loan(k) : k \in {x \in marks : x.m \in Kept /\ x.until > now}}'
        = {l \in {Loan(k) : k \in {x \in marks : x.m \in Kept /\ x.until > now}} : l.m \notin {}}
  BY DEF Lent
<1>3. UNCHANGED <<now, {Letter(m) : m \in rotten}, {g.lease : g \in grants}>>
  OBVIOUS
<1>4. \E out \in {{}, Promise!TooOld(n.route)} :
        /\ {Letter(m) : m \in Kept}' = ({Letter(m) : m \in Kept} \ out) \cup {n}
        /\ {Loan(k) : k \in {x \in marks : x.m \in Kept /\ x.until > now}}'
             = {l \in {Loan(k) : k \in {x \in marks : x.m \in Kept /\ x.until > now}} : l.m \notin out}
  <2>1. {} \in {{}, Promise!TooOld(n.route)}
    OBVIOUS
  <2>2. QED
    BY <1>1, <1>2, <2>1
<1>5. Promise!Accept(n)
  BY <1>1, <1>3, <1>4 DEF Promise!Accept
<1>6. QED
  BY <1>1, <1>5 DEF Promise!Next

\* Nobody has heard of the message c before, and now it is queued and answered.
LEMMA AcceptIs ==
  ASSUME SpoolInv, LeaseInv, MailboxInv, NEW c \in Message, c.at <= now,
         \A m \in accepted \cup Spoken : m.msg < c.msg,
         q' = q \cup {c}, accepted' = accepted \cup {c}, up, up' = up,
         UNCHANGED <<now, marks, rotten, gone, grants>>
  PROVE  Promise!Next
<1>1. \A m \in accepted \cup Spoken : m # c /\ m.msg # c.msg
  <2>1. c.msg \in Nat
    BY DEF Message
  <2>2. ~(c.msg < c.msg)
    BY <2>1
  <2>3. QED
    BY <2>2
<1>2. Kept' = Kept \cup {c}
  BY <1>1 DEF Kept, Gone, Spoken
<1>3. \A k \in marks : k.m # c
  BY <1>1 DEF LeaseInv, MarksGranted, Spoken
<1>4. Lent' = Lent
  BY <1>2, <1>3 DEF Lent
<1>5. PICK n : n = Letter(c)
  OBVIOUS
<1>6. n.at <= now /\ \A x \in Letters(accepted) : x.msg < n.msg /\ x.msg # n.msg
  BY <1>1, <1>5, LetterFields DEF Letters
<1>7. Letters(accepted') = Letters(accepted) \cup {n} /\ Letters(Kept') = Letters(Kept) \cup {n}
  BY <1>2, <1>5 DEF Letters
<1>8. n \notin Letters(accepted)
  BY <1>6
<1>9. QED
  BY <1>4, <1>6, <1>7, <1>8, AcceptMeans

LEMMA PutIs ==
  ASSUME SpoolInv, OrderInv, LeaseInv, MailboxInv
  PROVE  /\ PutMemory => Promise!Next
         /\ PutSync => Promise!Next
<1>0. /\ TypeOK /\ sent \in Nat /\ now \in Nat /\ ids \in Nat
      /\ \A m \in accepted \cup Spoken : m.msg <= sent /\ m.msg \in Nat
  <2>1. accepted \cup Spoken \subseteq Message
    BY DEF SpoolInv, TypeOK, Spoken, Gone, Exit, Grant
  <2>2. QED
    BY <2>1 DEF SpoolInv, TypeOK, Message, LeaseInv, Numbered, MailboxInv, AcceptedNumbered
<1>1. ASSUME PutMemory PROVE Promise!Next
  <2>1. PICK c : c = Stamped(ids + 1)
    OBVIOUS
  <2>2. c \in Message /\ c.msg = sent + 1 /\ c.at = now
    BY <1>0, <2>1, StampedType DEF Stamped
  <2>3. /\ q' = q \cup {c} /\ accepted' = accepted \cup {c} /\ up /\ up' = up
        /\ UNCHANGED <<now, marks, rotten, gone, grants>>
    BY <1>1, <2>1 DEF PutMemory, media
  <2>4. c.at <= now /\ \A m \in accepted \cup Spoken : m.msg < c.msg
    BY <1>0, <2>2
  <2>5. QED
    BY <2>2, <2>3, <2>4, AcceptIs
<1>2. ASSUME PutSync PROVE Promise!Next
  <2>1. PICK c : c = cur
    OBVIOUS
  <2>2. /\ q' = q \cup {c} /\ accepted' = accepted \cup {c} /\ up /\ up' = up /\ busy = "sync"
        /\ UNCHANGED <<now, marks, rotten, gone, grants>>
    BY <1>2, <2>1 DEF PutSync
  <2>3. c \in Message /\ c \in Here
    BY <1>0, <2>1, <2>2 DEF TypeOK, Here, InHand
  <2>4. c.at <= now /\ \A m \in accepted \cup Spoken : m.msg < c.msg
    BY <2>1, <2>2, <2>3 DEF MailboxInv, Aged, AcceptedNumbered, LeaseInv, Numbered
  <2>5. QED
    BY <2>2, <2>3, <2>4, AcceptIs
<1>3. QED
  BY <1>1, <1>2

\* Steps that change neither what is kept nor what anybody was told.
LEMMA QuietIs ==
  ASSUME up, up' = up, UNCHANGED <<now, q, marks, accepted, gone, rotten, grants>>
  PROVE  UNCHANGED Promise!vars
<1>1. Kept' = Kept
  BY DEF Kept, Gone
<1>2. Lent' = Lent
  BY <1>1 DEF Lent
<1>3. QED
  BY <1>1, <1>2, StutterIs

LEMMA TickIs ==
  ASSUME SpoolInv, Tick
  PROVE  Promise!Tick
<1>1. now' = now + 1 /\ UNCHANGED <<up, q, marks, disk, accepted, gone, rotten, grants>>
  BY DEF Tick, memory, media, past
<1>2. Kept' = Kept
  BY <1>1 DEF Kept, Gone, Loadable
<1>3. \A k \in marks : k.until \in Nat /\ now \in Nat
  BY DEF SpoolInv, TypeOK, Mark
<1>4. Lent' = {k \in Lent : k.until > now + 1}
  BY <1>1, <1>2, <1>3 DEF Lent
<1>5. Loans(Lent') = {l \in Loans(Lent) : l.until > now + 1}
  <2> HIDE DEF Lent
  <2>1. QED
    BY <1>4, LetterFields DEF Loans
<1>6. {Loan(k) : k \in {x \in marks : x.m \in Kept /\ x.until > now}}'
        = {l \in {Loan(k) : k \in {x \in marks : x.m \in Kept /\ x.until > now}} : l.until > now'}
  BY <1>1, <1>5 DEF Loans, Lent
<1>7. UNCHANGED <<{Letter(m) : m \in accepted}, {Letter(m) : m \in Kept},
                  {Letter(m) : m \in rotten}, {g.lease : g \in grants}>>
  BY <1>1, <1>2
<1>8. QED
  BY <1>1, <1>6, <1>7 DEF Promise!Tick

LEMMA StepClockBackIs ==
  ASSUME ClockGoesOn, SpoolInv, MailboxInv, StepClockBack
  PROVE  Promise!SetBack
<1>1. /\ ~up /\ now' < now /\ ClockMayStepBack
      /\ UNCHANGED <<up, q, marks, disk, accepted, gone, rotten, grants>>
  BY DEF StepClockBack, memory, media, past
<1>2. Kept = {} /\ marks = {}
  BY <1>1, KeptWhere DEF ClockGoesOn, MailboxInv, Runs
<1>3. Kept' = {} /\ marks' = {}
  BY <1>1, <1>2 DEF Kept, Gone, Loadable
<1>4. /\ {Letter(m) : m \in Kept} = {} /\ {Letter(m) : m \in Kept}' = {}
      /\ {Loan(k) : k \in {x \in marks : x.m \in Kept /\ x.until > now}} = {}
      /\ {Loan(k) : k \in {x \in marks : x.m \in Kept /\ x.until > now}}' = {}
  BY <1>2, <1>3
<1>5. UNCHANGED <<{Letter(m) : m \in accepted}, {Letter(m) : m \in rotten}, {g.lease : g \in grants}>>
  BY <1>1
<1>6. QED
  BY <1>1, <1>4, <1>5 DEF Promise!SetBack

LEMMA StopIs ==
  ASSUME SpoolInv, SpoolInv', MailboxInv, NoSpool', Crash \/ PowerCut
  PROVE  Promise!Restart
<1>1. /\ ~up' /\ marks' = {}
      /\ UNCHANGED <<now, accepted, gone, rotten, grants>>
  BY DEF Crash, PowerCut, media, past
<1>2. Kept' = IF Durable THEN Kept \ rotten ELSE {}
  BY <1>1, KeptStops
<1>3. PayloadsUnique /\ Kept \in SUBSET World /\ rotten \in SUBSET World
  BY KeptInWorld DEF MailboxInv, World
<1>4. Letters(Kept') = IF ~Durable THEN {} ELSE Letters(Kept) \ Letters(rotten)
  <2>1. CASE Durable
    BY <1>2, <1>3, <2>1, LettersMinus
  <2>2. CASE ~Durable
    BY <1>2, <2>2 DEF Letters
  <2>3. QED
    BY <2>1, <2>2
<1>5. {Letter(m) : m \in Kept}' = IF ~Durable THEN {} ELSE {Letter(m) : m \in Kept} \ {Letter(m) : m \in rotten}
  BY <1>4 DEF Letters
<1>6. {Loan(k) : k \in {x \in marks : x.m \in Kept /\ x.until > now}}' = {}
  BY <1>1
<1>7. UNCHANGED <<now, {Letter(m) : m \in accepted}, {Letter(m) : m \in rotten}, {g.lease : g \in grants}>>
  BY <1>1
<1>8. QED
  BY <1>5, <1>6, <1>7 DEF Promise!Restart

LEMMA CorruptIs ==
  ASSUME SpoolInv, MailboxInv, NEW f \in disk, Corrupt(f)
  PROVE  Promise!Next \/ UNCHANGED Promise!vars
<1>1. /\ rotten' = rotten \cup {f}
      /\ UNCHANGED <<now, up, q, marks, disk, accepted, gone, grants>>
  BY DEF Corrupt, memory, past
<1>2. PayloadsUnique /\ Kept \in SUBSET World /\ rotten \in SUBSET World /\ {f} \in SUBSET World /\ f \in World
  BY KeptInWorld DEF MailboxInv, World, Here, Around
<1>3. Kept' = IF up THEN Kept ELSE Kept \ {f}
  BY <1>1 DEF Kept, Gone, Loadable
<1>4. Lent' = Lent
  <2>1. CASE up
    BY <1>1, <1>3, <2>1 DEF Lent
  <2>2. CASE ~up
    BY <1>1, <2>2 DEF Lent, MailboxInv, Runs
  <2>3. QED
    BY <2>1, <2>2
<1>5. CASE f \in rotten
  <2>1. rotten' = rotten
    BY <1>1, <1>5
  <2>2. Kept' = Kept
    BY <1>1, <2>1 DEF Kept, Gone, Loadable
  <2>3. QED
    BY <1>1, <1>4, <2>1, <2>2, StutterIs
<1>6. CASE f \notin rotten
  <2>1. PICK n : n = Letter(f)
    OBVIOUS
  <2>2. n \notin Letters(rotten) /\ Letters(rotten') = Letters(rotten) \cup {n}
    <3>1. n \notin Letters(rotten)
      BY <1>2, <1>6, <2>1, LetterMember
    <3>2. QED
      BY <1>1, <2>1, <3>1 DEF Letters
  <2>3. Letters(Kept') \in {Letters(Kept), Letters(Kept) \ {n}}
    <3>1. Letters({f}) = {n}
      BY <2>1 DEF Letters
    <3>2. Letters(Kept \ {f}) = Letters(Kept) \ {n}
      BY <1>2, <3>1, LettersMinus
    <3>3. QED
      BY <1>3, <3>2
  <2>4. /\ n \in {Letter(m) : m \in rotten}' \ {Letter(m) : m \in rotten}
        /\ {Letter(m) : m \in rotten}' = {Letter(m) : m \in rotten} \cup {n}
        /\ {Letter(m) : m \in Kept}' \in {{Letter(m) : m \in Kept}, {Letter(m) : m \in Kept} \ {n}}
    BY <2>2, <2>3 DEF Letters
  <2>5. UNCHANGED <<now, {Letter(m) : m \in accepted},
                    {Loan(k) : k \in {x \in marks : x.m \in Kept /\ x.until > now}},
                    {g.lease : g \in grants}>>
    BY <1>1, <1>4 DEF Lent
  <2>6. Promise!Damage(n)
    BY <2>4, <2>5 DEF Promise!Damage
  <2>7. QED
    BY <2>4, <2>6 DEF Promise!Next
<1>7. QED
  BY <1>5, <1>6

LEMMA StartIs ==
  ASSUME SpoolInv, SpoolInv', MailboxInv, Start
  PROVE  UNCHANGED Promise!vars
<1>1. marks = {} /\ marks' = {} /\ UNCHANGED <<now, accepted, rotten, grants>>
  BY DEF Start, past, MailboxInv, Runs
<1>2. Kept' = Kept
  BY KeptStarts
<1>3. Lent' = Lent
  BY <1>1 DEF Lent
<1>4. QED
  BY <1>1, <1>2, <1>3, StutterIs

-----------------------------------------------------------------------------
(* The store implements the mailbox.                                       *)

LEMMA OperationIs ==
  ASSUME SpoolInv, BoundInv, LeaseInv, MailboxInv, NEW r \in Routes
  PROVE  /\ PutFull(r) \/ PutAdmit(r) => Promise!Next
         /\ \A R \in SUBSET Routes : Expire(R) => Promise!Next
         /\ \A limit \in Limits : Take(r, limit) => Promise!Next
         /\ \A limit \in Limits, d \in 1 .. MaxLease : TakeLeased(r, limit, d) => Promise!Next
         /\ \A g \in grants : Ack(r, g) => Promise!Next
<1>0. TypeOK
  BY DEF SpoolInv
<1>1. ASSUME PutFull(r) \/ PutAdmit(r) PROVE Promise!Next
  <2>1. PICK out, E : out = Expired(r) /\ E = Exits(Expired(r), "expired", NoOne)
    OBVIOUS
  <2>2. out \in SUBSET q /\ Clears(out, E)
    BY <1>0, <1>1, <2>1, PutClears DEF Clears, Leaves, Leave
  <2>3. out = UNION {Expired(s) : s \in {r}} /\ {r} \in SUBSET Routes
    BY <2>1
  <2>4. Promise!Expire({r})
    BY <2>2, <2>3, ExpireIs
  <2>5. QED
    BY <2>3, <2>4 DEF Promise!Next
<1>2. ASSUME NEW R \in SUBSET Routes, Expire(R) PROVE Promise!Next
  <2> DEFINE O == UNION {Expired(s) : s \in R}
             F == Exits(O, "expired", NoOne)
  <2>a. O \in SUBSET q /\ Clears(O, F)
    BY <1>2, ExpireClears
  <2>b. O = UNION {Expired(s) : s \in R}
    OBVIOUS
  <2> HIDE DEF O, F
  <2>1. PICK out, E : out = O /\ E = F
    OBVIOUS
  <2>2. out \in SUBSET q /\ Clears(out, E) /\ out = UNION {Expired(s) : s \in R}
    BY <2>a, <2>b, <2>1 DEF Clears, Leaves, Leave
  <2>3. Promise!Expire(R)
    BY <2>2, ExpireIs
  <2>4. QED
    BY <2>3 DEF Promise!Next
<1>3. ASSUME NEW limit \in Limits, Take(r, limit) PROVE Promise!Next
  BY <1>3, TakeIs DEF Promise!Next
<1>4. ASSUME NEW limit \in Limits, NEW d \in 1 .. MaxLease, TakeLeased(r, limit, d) PROVE Promise!Next
  BY <1>4, TakeLeasedIs DEF Promise!Next
<1>5. ASSUME NEW g \in grants, Ack(r, g) PROVE Promise!Next
  BY <1>5, AckIs DEF Promise!Next
<1>6. QED
  BY <1>1, <1>2, <1>3, <1>4, <1>5

LEMMA StepIs ==
  ASSUME ClockGoesOn, SpoolInv, OrderInv, BoundInv, LeaseInv, MailboxInv, [Next]_vars
  PROVE  Promise!Next \/ UNCHANGED Promise!vars
<1>0. SpoolInv' /\ MailboxInv' /\ NoSpool'
  BY InvNext, MailboxInvNext DEF MailboxInv
<1>1. ASSUME NEW r \in Routes,
             \/ PutFull(r) \/ PutAdmit(r) \/ Depth(r)
             \/ \E limit \in Limits :
                  Take(r, limit) \/ \E d \in 1 .. MaxLease : TakeLeased(r, limit, d)
             \/ \E g \in grants : Ack(r, g)
      PROVE  Promise!Next
  <2>1. Depth(r) => {r} \in SUBSET Routes /\ Expire({r})
    BY DEF Depth
  <2>2. QED
    BY <1>1, <2>1, OperationIs
<1>2. ASSUME Sweep PROVE Promise!Next \/ UNCHANGED Promise!vars
  <2>1. Expire(Routes) /\ Routes \in SUBSET Routes
    BY <1>2 DEF Sweep
  <2>2. CASE Routes = {}
    <3>1. /\ up /\ up' = up /\ q' = q \ {} /\ gone' = gone \cup Exits({}, "expired", NoOne)
          /\ marks' = {k \in marks : k.m \notin {}}
          /\ UNCHANGED <<now, accepted, rotten, grants>>
      <4>1. UNION {Expired(s) : s \in Routes} = {}
        BY <2>2
      <4>2. QED
        BY <2>1, <4>1 DEF Expire, Idle, Leave, media
    <3>2. gone' = gone /\ q' = q /\ marks' = marks
      BY <3>1 DEF Exits
    <3>3. QED
      BY <3>1, <3>2, QuietIs
  <2>3. CASE Routes # {}
    BY <2>1, <2>3, OperationIs
  <2>4. QED
    BY <2>2, <2>3
<1>3. ASSUME PutStamp \/ PutFail \/ PutRename \/ PutSyncFail \/ \E m \in doomed : Unlink(m)
      PROVE  UNCHANGED Promise!vars
  <2>1. up /\ up' = up /\ UNCHANGED <<now, q, marks, accepted, gone, rotten, grants>>
    BY <1>3 DEF PutStamp, PutFail, PutRename, PutSyncFail, Unlink, memory, past
  <2>2. QED
    BY <2>1, QuietIs
<1>4. CASE PutMemory \/ PutSync
  BY <1>4, PutIs
<1>5. CASE Crash \/ PowerCut
  BY <1>0, <1>5, StopIs DEF Promise!Next
<1>6. CASE Start
  BY <1>0, <1>6, StartIs
<1>7. CASE Tick
  BY <1>7, TickIs DEF Promise!Next
<1>8. CASE StepClockBack
  BY <1>8, StepClockBackIs DEF Promise!Next
<1>9. ASSUME NEW f \in disk, Corrupt(f) PROVE Promise!Next \/ UNCHANGED Promise!vars
  BY <1>9, CorruptIs
<1>10. CASE UNCHANGED vars
  <2>1. UNCHANGED <<now, up, q, marks, disk, accepted, gone, rotten, grants>>
    BY <1>10 DEF vars, memory, media, past
  <2>2. Kept' = Kept
    BY <2>1 DEF Kept, Gone, Loadable
  <2>3. Lent' = Lent
    BY <2>1, <2>2 DEF Lent
  <2>4. QED
    BY <2>1, <2>2, <2>3, StutterIs
<1>11. QED
  BY <1>1, <1>2, <1>3, <1>4, <1>5, <1>6, <1>7, <1>8, <1>9, <1>10 DEF Next

LEMMA MapsInit == Init => Promise!Init
<1> SUFFICES ASSUME Init PROVE Promise!Init
  OBVIOUS
<1>1. now = 0 /\ accepted = {} /\ marks = {} /\ rotten = {} /\ grants = {} /\ Kept = {}
  BY DEF Init, Kept
<1>2. QED
  BY <1>1 DEF Promise!Init

\* Each step of the store, down to a single system call, a crash or a power cut,
\* is a step of the mailbox or invisible there: for every number of routes,
\* messages, restarts, disk faults and failed removals, with or without a spool.
\* A durable relay must find the clock no earlier than it left it (ClockGoesOn).
THEOREM StoreImplementsMailbox == ClockGoesOn => (Spec => ImplementsMailbox)
<1> SUFFICES ASSUME ClockGoesOn PROVE Spec => ImplementsMailbox
  OBVIOUS
<1>1. Init => SpoolInv /\ OrderInv /\ BoundInv /\ LeaseInv /\ MailboxInv
  BY InvInit, OrderInit, BoundInit, LeaseInit, MailboxInvInit
<1>2. SpoolInv /\ OrderInv /\ BoundInv /\ LeaseInv /\ MailboxInv /\ [Next]_vars
        => (SpoolInv /\ OrderInv /\ BoundInv /\ LeaseInv /\ MailboxInv)'
  BY InvNext, OrderNext, BoundNext, LeaseNext, MailboxInvNext
<1>3. SpoolInv /\ OrderInv /\ BoundInv /\ LeaseInv /\ MailboxInv /\ [Next]_vars
        => [Promise!Next]_(Promise!vars)
  BY StepIs
<1>4. QED
  BY <1>1, <1>2, <1>3, MapsInit, PTL DEF Spec, ImplementsMailbox, Promise!Spec
=============================================================================
