---------------------------- MODULE ReadingProofs ----------------------------
(***************************************************************************)
(* Proofs about Reading, for every length of the units, every ceiling,     *)
(* every width of an integer, every rounding of products that keeps        *)
(* ProductAssumption, every limit and every credential.                    *)
(***************************************************************************)
EXTENDS Reading, TLAPS

-----------------------------------------------------------------------------
(* Division.                                                               *)

\* Multiplying by a positive number keeps the order.
LEMMA TimesMonotone ==
  ASSUME NEW a \in Nat \ {0}, NEW p \in Int, NEW r \in Int
  PROVE  p < r => a * p + a <= a * r
<1>1. ASSUME p < r PROVE a * p + a <= a * r
  <2>1. PICK e \in Nat : r = p + 1 + e
    <3>1. r - p - 1 \in Nat /\ r = p + 1 + (r - p - 1)
      BY <1>1
    <3>2. QED
      BY <3>1
  <2>2. a * r = a * p + a + a * e
    BY <2>1
  <2>3. a * e \in Nat /\ a * p \in Int
    OBVIOUS
  <2>4. QED
    BY <2>2, <2>3
<1>2. QED
  BY <1>1

\* What division means.
LEMMA Division ==
  ASSUME NEW x \in Nat, NEW a \in Nat \ {0}
  PROVE  /\ x \div a \in Nat /\ x % a \in Nat
         /\ x = a * (x \div a) + (x % a) /\ x % a < a
OBVIOUS

\* A multiple divides without rest, and the quotient is the factor.
LEMMA ExactDivision ==
  ASSUME NEW x \in Nat, NEW a \in Nat \ {0}, NEW p \in Int, x = a * p
  PROVE  x \div a = p
<1> DEFINE d == x \div a
           m == x % a
<1>1. d \in Nat /\ m \in Nat /\ x = a * d + m /\ m < a
  BY Division
<1> HIDE DEF d, m
<1>2. a * d \in Int /\ a * p \in Int
  BY <1>1
<1>3. ~(p < d)
  BY <1>1, <1>2, TimesMonotone
<1>4. ~(d < p)
  BY <1>1, <1>2, TimesMonotone
<1>5. QED
  BY <1>1, <1>3, <1>4 DEF d

\* Multiplying by a positive number keeps the order, and makes nothing smaller.
LEMMA TimesOrder ==
  ASSUME NEW a \in Nat \ {0}, NEW p \in Nat, NEW r \in Nat
  PROVE  /\ p * a \in Nat /\ p <= p * a /\ (p * a = 0 <=> p = 0)
         /\ p <= r => p * a <= r * a
<1>1. ASSUME NEW q \in Nat PROVE q * a \in Nat /\ q * a = a * q
  OBVIOUS
<1>2. ASSUME NEW b \in Nat \ {0}, NEW q \in Nat PROVE q <= b * q
  <2>1. PICK c \in Nat : b = 1 + c
    <3>1. b - 1 \in Nat /\ b = 1 + (b - 1)
      OBVIOUS
    <3>2. QED
      BY <3>1
  <2>2. b * q = q + c * q /\ c * q \in Nat
    BY <2>1
  <2>3. QED
    BY <2>2
<1>3. p <= p * a /\ p * a \in Nat
  BY <1>1, <1>2
<1>4. p = 0 => p * a = 0
  OBVIOUS
<1>5. ASSUME p <= r PROVE p * a <= r * a
  <2>1. CASE p = r
    BY <1>1, <2>1
  <2>2. CASE p < r
    <3>1. a * p + a <= a * r
      BY <2>2, TimesMonotone
    <3>2. a * p \in Nat /\ a * r \in Nat /\ p * a = a * p /\ r * a = a * r
      BY <1>1
    <3>3. QED
      BY <3>1, <3>2
  <2>3. QED
    BY <1>5, <2>1, <2>2
<1>6. QED
  BY <1>3, <1>4, <1>5

-----------------------------------------------------------------------------
(* An answer is the one the code gives to the request it was given.        *)

GoReads(w, a) == \E r \in ParseLease(w) : a = IF r.kind = "leased" /\ r.length <= 0 THEN Taken ELSE r
WorkerReads(w, a) == a = IF parseLease(w) = Leased(0) THEN Taken ELSE parseLease(w)

GoStores(b, a) == a = IF TooLarge(b) THEN Refused ELSE Stored(b.size)
WorkerStores(b, a) == a = IF Encoded(b.size) * 3 > BodyLimit * 4 THEN Refused ELSE Stored(b.size)

goKey(text) == IF text = NoKey THEN Read(NoKey, "none") ELSE ParseEd25519PublicKey(text)
GoDecides(p, a) ==
  a = IF goKey(p.text).error # "none" THEN Exited ELSE Admitted(goAdmit(p.bearer, goKey(p.text).key))
WorkerDecides(p, a) == a = Admitted(workerAdmit(p.bearer, verificationKey(p.text)))

GoAnswers ==
  /\ req.op = "get" => GoReads(req.word, go)
  /\ req.op = "put" => GoStores(req, go)
  /\ req.op = "present" => GoDecides(req, go)

WorkerAnswers ==
  /\ req.op = "get" => WorkerReads(req.word, worker)
  /\ req.op = "put" => WorkerStores(req, worker)
  /\ req.op = "present" => WorkerDecides(req, worker)

AnswerInv ==
  /\ req \in AllRequests
  /\ go = Pending \/ GoAnswers
  /\ worker = Pending \/ WorkerAnswers

LEMMA AnswerInit == Init => AnswerInv
BY DEF Init, AnswerInv

LEMMA AnswerNext == AnswerInv /\ [Next]_vars => AnswerInv'
<1> SUFFICES ASSUME AnswerInv, [Next]_vars PROVE AnswerInv'
  OBVIOUS
<1>1. ASSUME GoAnswers', UNCHANGED <<req, worker>> PROVE AnswerInv'
  BY <1>1 DEF AnswerInv, WorkerAnswers
<1>2. ASSUME WorkerAnswers', UNCHANGED <<req, go>> PROVE AnswerInv'
  BY <1>2 DEF AnswerInv, GoAnswers
<1>3. CASE GoGet
  <2>1. GoReads(req.word, go') /\ req.op = "get" /\ UNCHANGED <<req, worker>>
    BY <1>3 DEF GoGet, GoReads
  <2>2. QED
    BY <1>1, <2>1 DEF GoAnswers
<1>4. CASE WorkerGet
  <2>1. WorkerReads(req.word, worker') /\ req.op = "get" /\ UNCHANGED <<req, go>>
    BY <1>4 DEF WorkerGet, WorkerReads
  <2>2. QED
    BY <1>2, <2>1 DEF WorkerAnswers
<1>5. CASE GoPut
  <2>1. GoStores(req, go') /\ req.op = "put" /\ UNCHANGED <<req, worker>>
    BY <1>5 DEF GoPut, GoStores
  <2>2. QED
    BY <1>1, <2>1 DEF GoAnswers
<1>6. CASE WorkerPut
  <2>1. WorkerStores(req, worker') /\ req.op = "put" /\ UNCHANGED <<req, go>>
    BY <1>6 DEF WorkerPut, WorkerStores
  <2>2. QED
    BY <1>2, <2>1 DEF WorkerAnswers
<1>7. CASE GoAdmit
  <2>1. GoDecides(req, go') /\ req.op = "present" /\ UNCHANGED <<req, worker>>
    BY <1>7 DEF GoAdmit, GoDecides, goKey
  <2>2. QED
    BY <1>1, <2>1 DEF GoAnswers
<1>8. CASE WorkerAdmit
  <2>1. WorkerDecides(req, worker') /\ req.op = "present" /\ UNCHANGED <<req, go>>
    BY <1>8 DEF WorkerAdmit, WorkerDecides
  <2>2. QED
    BY <1>2, <2>1 DEF WorkerAnswers
<1>9. CASE Arrive
  BY <1>9 DEF Arrive, AnswerInv
<1>10. CASE UNCHANGED vars
  BY <1>10 DEF vars, AnswerInv, GoAnswers, WorkerAnswers
<1>11. QED
  BY <1>3, <1>4, <1>5, <1>6, <1>7, <1>8, <1>9, <1>10 DEF Next

-----------------------------------------------------------------------------
(* Collection leases.                                                      *)

LEMMA UnitTypes ==
  ASSUME NEW unit \in Units
  PROVE  /\ Millis(unit) \in {1, Second, Minute, Hour} /\ Millis(unit) \in Nat \ {0}
         /\ Ticks(unit) = Millis(unit) * Milli /\ Ticks(unit) \in Nat \ {0}
<1>1. Millis(unit) \in {1, Second, Minute, Hour}
  BY DEF Units, Millis
<1>2. Millis(unit) \in Nat \ {0} /\ Milli \in Nat \ {0}
  BY <1>1, UnitAssumption
<1>3. Ticks(unit) = Millis(unit) * Milli
  BY DEF Ticks
<1> DEFINE m == Millis(unit)
<1> HIDE DEF m
<1>4. m * Milli \in Nat /\ (m * Milli = 0 <=> m = 0)
  BY <1>2, TimesOrder DEF m
<1>5. QED
  BY <1>1, <1>2, <1>3, <1>4 DEF m

LEMMA AnswerFields ==
  /\ Pending.length = 0 /\ Refused.length = 0 /\ Taken.length = 0
  /\ Pending.kind = "pending" /\ Refused.kind = "refused" /\ Taken.kind = "taken"
  /\ \A d : Leased(d).length = d /\ Leased(d).kind = "leased"
  /\ \A n : Stored(n).length = n /\ Stored(n).kind = "stored"
BY DEF Pending, Refused, Taken, Leased, Stored

\* What a product in floats is to the exact one.
Near(got, exact, whole) ==
  /\ got \in Nat /\ exact \in Nat
  /\ exact <= MaxLease + 2 =>
       exact - 1 <= got /\ got <= exact + 1 /\ (whole => got = exact)
  /\ exact > MaxLease + 2 => got > MaxLease

LEMMA NearProduct ==
  ASSUME NEW n \in 0 .. MaxNum, NEW m \in {1, Second, Minute, Hour},
         NEW u \in {m, m * Milli}, u \in Nat
  PROVE  Near(Product(n, u), (n * u) \div Den, n % Den = 0)
<1>1. n \in Nat /\ Den \in Nat \ {0}
  BY BoundAssumption, UnitAssumption
<1>2. n * u \in Nat
  BY <1>1
<1>3. (n * u) \div Den \in Nat
  <2> DEFINE x == n * u
  <2> HIDE DEF x
  <2> QED
    BY <1>1, <1>2, Division DEF x
<1>4. u \in {1, Second, Minute, Hour} \cup {k * Milli : k \in {1, Second, Minute, Hour}}
  OBVIOUS
<1>5. /\ Product(n, u) \in Nat
      /\ IF (n * u) \div Den <= MaxLease + 2
         THEN /\ (n * u) \div Den - 1 <= Product(n, u) /\ Product(n, u) <= (n * u) \div Den + 1
              /\ n % Den = 0 => Product(n, u) = (n * u) \div Den
         ELSE Product(n, u) > MaxLease
  BY <1>4, ProductAssumption
<1> DEFINE e == (n * u) \div Den
           g == Product(n, u)
<1>6. /\ g \in Nat /\ e \in Nat
      /\ IF e <= MaxLease + 2
         THEN e - 1 <= g /\ g <= e + 1 /\ (n % Den = 0 => g = e)
         ELSE g > MaxLease
  BY <1>3, <1>5
<1> HIDE DEF e, g
<1>7. Near(g, e, n % Den = 0)
  BY <1>6, UnitAssumption DEF Near
<1>8. QED
  BY <1>7 DEF e, g

\* What a numeral of the grammar comes to.
LEMMA Asked ==
  ASSUME NEW w \in Words, w.text \in {"plain", "odd"}
  PROVE  /\ Near(Product(w.num, Ticks(w.unit)), Length(w), Whole(w))
         /\ Near(Product(w.num, Millis(w.unit)), Milliseconds(w), Whole(w))
<1>1. w.num \in 0 .. MaxNum /\ w.unit \in Units
  BY BoundAssumption DEF Words
<1> DEFINE n == w.num
           m == Millis(w.unit)
           t == Ticks(w.unit)
<1>2. m \in {1, Second, Minute, Hour} /\ m \in Nat /\ t = m * Milli /\ t \in Nat
  BY <1>1, UnitTypes
<1>3. n \in 0 .. MaxNum
  BY <1>1
<1> HIDE DEF n, m, t
<1>4. Near(Product(n, t), (n * t) \div Den, n % Den = 0)
  BY <1>2, <1>3, NearProduct
<1>5. Near(Product(n, m), (n * m) \div Den, n % Den = 0)
  BY <1>2, <1>3, NearProduct
<1>6. QED
  BY <1>4, <1>5 DEF n, m, t, Length, Milliseconds, Whole

\* A whole number of a unit is the same length in ticks and in milliseconds.
LEMMA AskedWhole ==
  ASSUME NEW w \in Words, AsksForLease(w), Whole(w)
  PROVE  Length(w) = Milliseconds(w) * Milli /\ Milliseconds(w) \in Nat \ {0}
<1>1. w.num \in Nat \ {0} /\ w.unit \in Units
  BY BoundAssumption DEF AsksForLease, Words
<1> DEFINE n == w.num
           m == Millis(w.unit)
           t == Ticks(w.unit)
           k == n \div Den
<1>2. m \in Nat \ {0} /\ t = m * Milli /\ t \in Nat \ {0}
  BY <1>1, UnitTypes
<1>3. n \in Nat \ {0} /\ n % Den = 0 /\ Den \in Nat \ {0} /\ Milli \in Nat \ {0}
  BY <1>1, UnitAssumption DEF Whole
<1>4. Length(w) = (n * t) \div Den /\ Milliseconds(w) = (n * m) \div Den
  BY DEF Length, Milliseconds
<1> HIDE DEF n, m, t
<1>5. k \in Nat \ {0} /\ n = Den * k
  <2>1. k \in Nat /\ n = Den * k + (n % Den)
    BY <1>3, Division
  <2> HIDE DEF k
  <2>2. n = Den * k
    BY <1>3, <2>1
  <2>3. k # 0
    BY <1>3, <2>2
  <2>4. QED
    BY <2>1, <2>2, <2>3
<1> HIDE DEF k
<1>6. ASSUME NEW u \in Nat \ {0} PROVE (n * u) \div Den = k * u
  <2>1. n * u = Den * (k * u) /\ k * u \in Nat /\ n * u \in Nat
    BY <1>3, <1>5
  <2> DEFINE x == n * u
             y == k * u
  <2> HIDE DEF x, y
  <2>2. x \div Den = y
    <3>1. x \in Nat /\ y \in Int /\ x = Den * y
      BY <2>1 DEF x, y
    <3>2. QED
      BY <1>3, <3>1, ExactDivision
  <2>3. QED
    BY <2>2 DEF x, y
<1>7. Length(w) = k * t /\ Milliseconds(w) = k * m
  BY <1>2, <1>4, <1>6
<1>8. k * t = (k * m) * Milli
  BY <1>2, <1>3, <1>5
<1>9. k * m \in Nat /\ k * m # 0
  BY <1>2, <1>5, TimesOrder
<1>10. QED
  BY <1>7, <1>8, <1>9

\* What LeaseAsAsked says of the Go relay, and of the Worker.
GoHonours(w, a) ==
  /\ a.length <= MaxLease
  /\ AsksForLease(w) /\ Product(w.num, Ticks(w.unit)) <= MaxInt =>
       /\ Whole(w) => a = Granted(Length(w))
       /\ a.kind = "leased" => Length(w) - 1 <= a.length /\ a.length <= Length(w) + 1
       /\ a = Refused => Length(w) >= MaxLease
       /\ a = Taken => Length(w) <= 1
WorkerHonours(w, a) ==
  /\ a.length <= MaxLease
  /\ AsksForLease(w) =>
       /\ Whole(w) => a = Granted(Length(w))
       /\ a.kind = "leased" => \E d \in -1 .. 1 : a.length = (Milliseconds(w) + d) * Milli
       /\ a = Refused => Milliseconds(w) <= 1 \/ (Milliseconds(w) + 1) * Milli > MaxLease
  /\ a = Taken => w.text \in {"empty", "zero"}
  /\ a.kind = "leased" => a.length > 0

LEMMA GoLease ==
  ASSUME NEW w \in Words, NEW a, GoReads(w, a)
  PROVE  GoHonours(w, a)
<1>0. MaxLease \in Nat /\ MaxInt \in Nat
  BY UnitAssumption
<1>1. PICK r \in ParseLease(w) : a = IF r.kind = "leased" /\ r.length <= 0 THEN Taken ELSE r
  BY DEF GoReads
<1> DEFINE g == Product(w.num, Ticks(w.unit))
           L == Length(w)
<1>2. r.length <= MaxLease
  <2>1. CASE r = Leased(0) \/ r = Refused
    BY <1>0, <2>1, AnswerFields
  <2>2. ASSUME NEW d, r = Bounded(w, d), d \in Int PROVE r.length <= MaxLease
    BY <1>0, <2>2, AnswerFields DEF Bounded
  <2>3. ASSUME NEW d \in Converted(w), w.text \notin {"empty", "zero", "junk"} PROVE d \in Int
    <3>1. CASE w.text \in {"nan", "inf"}
      BY <1>0, <3>1 DEF Converted
    <3>2. CASE w.text \in {"plain", "odd"}
      <4>1. g \in Nat
        BY <3>2, Asked DEF Near
      <4>2. d \in {-MaxInt - 1, MaxInt, g}
        BY <2>3, <3>2 DEF Converted
      <4>3. QED
        BY <1>0, <4>1, <4>2
    <3>3. QED
      BY <2>3, <3>1, <3>2 DEF Words
  <2>4. CASE w.text \notin {"empty", "zero", "junk"}
    BY <1>1, <2>2, <2>3, <2>4 DEF ParseLease
  <2>5. QED
    BY <1>1, <2>1, <2>4 DEF ParseLease
<1>3. a.length <= MaxLease
  BY <1>0, <1>1, <1>2, AnswerFields
<1>4. ASSUME AsksForLease(w), g <= MaxInt
      PROVE  /\ Whole(w) => a = Granted(L)
             /\ a.kind = "leased" => L - 1 <= a.length /\ a.length <= L + 1
             /\ a = Refused => L >= MaxLease
             /\ a = Taken => L <= 1
  <2>1. w.text = "plain"
    BY <1>4 DEF AsksForLease
  <2>2. Near(g, L, Whole(w))
    BY <2>1, Asked
  <2>3. g \in Nat /\ ~(g > MaxInt)
    BY <1>0, <1>4, <2>2 DEF Near
  <2>4. Converted(w) = {g}
    BY <2>1, <2>3 DEF Converted
  <2>5. r = Bounded(w, g)
    <3>1. ParseLease(w) = {Bounded(w, g)}
      BY <2>1, <2>4 DEF ParseLease
    <3>2. QED
      BY <1>1, <3>1
  <2>6. Whole(w) => L # 0
    <3>1. ASSUME Whole(w) PROVE L # 0
      <4>1. L = Milliseconds(w) * Milli /\ Milliseconds(w) \in Nat \ {0}
        BY <1>4, <3>1, AskedWhole
      <4>2. Milli \in Nat \ {0}
        BY UnitAssumption
      <4> DEFINE e == Milliseconds(w)
      <4> HIDE DEF e, L
      <4>3. e * Milli # 0
        BY <4>1, <4>2, TimesOrder DEF e
      <4>4. QED
        BY <4>1, <4>3 DEF e
    <3>2. QED
      BY <3>1
  <2> HIDE DEF g, L
  <2>7. CASE g > MaxLease
    <3>1. a = Refused
      BY <1>1, <2>5, <2>7, AnswerFields DEF Bounded
    <3>2. L >= MaxLease /\ (Whole(w) => ~(L <= MaxLease))
      BY <1>0, <2>2, <2>7 DEF Near
    <3>3. QED
      BY <3>1, <3>2, AnswerFields DEF Granted
  <2>8. CASE ~(g > MaxLease) /\ g # 0
    <3>1. a = Leased(g)
      BY <1>1, <2>3, <2>5, <2>8, AnswerFields DEF Bounded
    <3>2. L <= MaxLease + 2 /\ L - 1 <= g /\ g <= L + 1 /\ (Whole(w) => g = L)
      BY <1>0, <2>2, <2>3, <2>8 DEF Near
    <3>3. a.kind = "leased" /\ a.length = g /\ a # Refused /\ a # Taken
      BY <3>1, AnswerFields
    <3>4. Whole(w) => a = Granted(L)
      BY <1>0, <2>3, <2>8, <3>1, <3>2 DEF Granted
    <3>5. QED
      BY <3>2, <3>3, <3>4
  <2>9. CASE ~(g > MaxLease) /\ g = 0
    <3>1. a = Taken
      BY <1>1, <2>5, <2>9, AnswerFields DEF Bounded
    <3>2. L <= 1 /\ ~Whole(w)
      BY <1>0, <2>2, <2>6, <2>9 DEF Near
    <3>3. QED
      BY <3>1, <3>2, AnswerFields
  <2>10. QED
    BY <2>7, <2>8, <2>9
<1>5. QED
  BY <1>3, <1>4 DEF GoHonours

LEMMA WorkerLease ==
  ASSUME NEW w \in Words, NEW a, WorkerReads(w, a)
  PROVE  WorkerHonours(w, a)
<1>0. MaxLease \in Nat /\ Milli \in Nat \ {0}
  BY UnitAssumption
<1>1. CASE w.text \in {"empty", "zero"}
  <2>1. a = Taken
    BY <1>1 DEF WorkerReads, parseLease
  <2>2. QED
    BY <1>0, <1>1, <2>1, AnswerFields DEF AsksForLease, WorkerHonours
<1>2. CASE w.text \notin {"empty", "zero", "plain"}
  <2>1. a = Refused
    BY <1>2, AnswerFields DEF WorkerReads, parseLease
  <2>2. QED
    BY <1>0, <1>2, <2>1, AnswerFields DEF AsksForLease, WorkerHonours
<1>3. CASE w.text = "plain"
  <2> DEFINE ms == Product(w.num, Millis(w.unit))
             e == Milliseconds(w)
             L == Length(w)
  <2>1. Near(ms, e, Whole(w))
    BY <1>3, Asked
  <2>2. parseLease(w) = IF ms <= 0 \/ ms * Milli > MaxLease THEN Refused ELSE Leased(ms * Milli)
    BY <1>3 DEF parseLease
  <2>3. AsksForLease(w) /\ Whole(w) => L = e * Milli /\ e # 0
    BY AskedWhole
  <2> HIDE DEF ms, e, L
  <2>4. ms \in Nat /\ e \in Nat
    BY <2>1 DEF Near
  <2>5. /\ ms * Milli \in Nat /\ ms <= ms * Milli /\ (ms * Milli = 0 <=> ms = 0)
        /\ e * Milli \in Nat /\ e <= e * Milli
        /\ (e + 1) * Milli \in Nat /\ e + 1 <= (e + 1) * Milli
        /\ ms <= e + 1 => ms * Milli <= (e + 1) * Milli
    <3>1. e + 1 \in Nat
      BY <2>4
    <3>2. ms * Milli \in Nat /\ ms <= ms * Milli /\ (ms * Milli = 0 <=> ms = 0)
      BY <1>0, <2>4, TimesOrder
    <3>3. e * Milli \in Nat /\ e <= e * Milli
      BY <1>0, <2>4, TimesOrder
    <3>4. (e + 1) * Milli \in Nat /\ e + 1 <= (e + 1) * Milli
      BY <1>0, <3>1, TimesOrder
    <3>5. ms <= e + 1 => ms * Milli <= (e + 1) * Milli
      BY <1>0, <2>4, <3>1, TimesOrder
    <3>6. QED
      BY <3>2, <3>3, <3>4, <3>5
  <2>6. CASE ms = 0 \/ ms * Milli > MaxLease
    <3>1. a = Refused
      BY <2>2, <2>4, <2>6, AnswerFields DEF WorkerReads
    <3> DEFINE P == ms * Milli
               Q == (e + 1) * Milli
               R == e * Milli
    <3> HIDE DEF P, Q, R
    <3>2. /\ P \in Nat /\ ms <= P /\ R \in Nat /\ e <= R
          /\ Q \in Nat /\ e + 1 <= Q /\ (ms <= e + 1 => P <= Q)
          /\ ms = 0 \/ P > MaxLease
      BY <2>5, <2>6 DEF P, Q, R
    <3>3. e <= 1 \/ Q > MaxLease
      BY <1>0, <2>1, <2>4, <3>2 DEF Near
    <3>4. AsksForLease(w) /\ Whole(w) => ~(L <= MaxLease)
      <4>1. ASSUME AsksForLease(w), Whole(w) PROVE ~(L <= MaxLease)
        <5>1. L = R /\ e # 0
          BY <2>3, <4>1 DEF R
        <5>2. CASE e <= MaxLease + 2
          <6>1. ms = e
            BY <2>1, <4>1, <5>2 DEF Near
          <6>2. P = R
            BY <6>1 DEF P, R
          <6>3. QED
            BY <1>0, <3>2, <5>1, <6>1, <6>2
        <5>3. CASE e > MaxLease + 2
          BY <1>0, <2>4, <3>2, <5>1, <5>3
        <5>4. QED
          BY <1>0, <2>4, <5>2, <5>3
      <4>2. QED
        BY <4>1
    <3>5. QED
      BY <1>0, <1>3, <3>1, <3>3, <3>4, AnswerFields DEF WorkerHonours, Granted, Q, e, L
  <2>7. CASE ~(ms = 0 \/ ms * Milli > MaxLease)
    <3> DEFINE P == ms * Milli
    <3>1. parseLease(w) = Leased(P)
      BY <2>2, <2>4, <2>7
    <3> HIDE DEF P
    <3>2. P \in Nat /\ P > 0 /\ P <= MaxLease /\ ms <= P
      BY <1>0, <2>5, <2>7 DEF P
    <3>3. a = Leased(P)
      <4>1. Leased(P).length = P /\ Leased(0).length = 0
        BY AnswerFields
      <4>2. QED
        BY <3>1, <3>2, <4>1 DEF WorkerReads
    <3>4. a.kind = "leased" /\ a.length = P /\ a # Taken /\ a # Refused
      BY <3>3, AnswerFields
    <3>5. e <= MaxLease + 2 /\ e - 1 <= ms /\ ms <= e + 1 /\ (Whole(w) => ms = e)
      BY <1>0, <2>1, <2>4, <3>2 DEF Near
    <3>6. \E d \in -1 .. 1 : P = (e + d) * Milli
      <4>1. ms - e \in -1 .. 1 /\ e + (ms - e) = ms
        BY <2>4, <3>5
      <4>2. P = (e + (ms - e)) * Milli
        BY <4>1 DEF P
      <4>3. QED
        BY <4>1, <4>2
    <3>7. AsksForLease(w) /\ Whole(w) => a = Granted(L)
      <4>1. ASSUME AsksForLease(w), Whole(w) PROVE a = Granted(L)
        <5>1. L = P
          BY <2>3, <3>5, <4>1 DEF P
        <5>2. QED
          BY <3>2, <3>3, <5>1 DEF Granted
      <4>2. QED
        BY <4>1
    <3>8. QED
      BY <3>2, <3>4, <3>6, <3>7 DEF WorkerHonours, e, L
  <2>8. QED
    BY <2>6, <2>7
<1>4. QED
  BY <1>1, <1>2, <1>3

LEMMA WordOf == \A r \in AllRequests : r.op = "get" => r.word \in Words
BY DEF AllRequests, Collects, Bodies, Presented

LEMMA LeasesAsAsked == AnswerInv => LeaseAsAsked
<1> SUFFICES ASSUME AnswerInv, req.op = "get" PROVE LeaseAsAsked
  BY DEF LeaseAsAsked
<1>1. req.word \in Words
  BY WordOf DEF AnswerInv
<1>2. Pending.length <= MaxLease /\ Pending # Taken /\ Pending # Refused /\ Pending.kind # "leased"
  BY UnitAssumption, AnswerFields
<1>3. go = Pending \/ GoHonours(req.word, go)
  BY <1>1, GoLease DEF AnswerInv, GoAnswers
<1>4. worker = Pending \/ WorkerHonours(req.word, worker)
  BY <1>1, WorkerLease DEF AnswerInv, WorkerAnswers
<1> DEFINE w == req.word
           fits == Product(w.num, Ticks(w.unit)) <= MaxInt
<1>5. /\ go.length <= MaxLease
      /\ AsksForLease(w) /\ Whole(w) /\ go # Pending /\ fits => go = Granted(Length(w))
      /\ AsksForLease(w) /\ fits =>
           /\ go.kind = "leased" => Length(w) - 1 <= go.length /\ go.length <= Length(w) + 1
           /\ go = Refused => Length(w) >= MaxLease
           /\ go = Taken => Length(w) <= 1
  BY <1>2, <1>3 DEF GoHonours
<1>6. /\ worker.length <= MaxLease
      /\ AsksForLease(w) /\ Whole(w) /\ worker # Pending => worker = Granted(Length(w))
      /\ AsksForLease(w) =>
           /\ worker.kind = "leased" => \E d \in -1 .. 1 : worker.length = (Milliseconds(w) + d) * Milli
           /\ worker = Refused => Milliseconds(w) <= 1 \/ (Milliseconds(w) + 1) * Milli > MaxLease
      /\ worker = Taken => w.text \in {"empty", "zero"}
      /\ worker.kind = "leased" => worker.length > 0
  BY <1>2, <1>4 DEF WorkerHonours
<1>7. QED
  BY <1>5, <1>6, Zenon DEF LeaseAsAsked

-----------------------------------------------------------------------------
(* The size of a message.                                                  *)

LEMMA BodyOf ==
  \A r \in AllRequests : r.op = "put" => r.size \in Nat /\ r.cap \in Nat /\ r.envelope \in Nat
<1> SUFFICES ASSUME NEW r \in AllRequests, r.op = "put"
             PROVE  r.size \in Nat /\ r.cap \in Nat /\ r.envelope \in Nat
  OBVIOUS
<1>1. r \notin Collects /\ r \notin Presented
  BY DEF Collects, Presented
<1>2. r \in Bodies
  BY <1>1 DEF AllRequests
<1>3. r.size \in 0 .. MaxSize /\ r.cap \in Caps /\ r.envelope \in Envelopes
  BY <1>2 DEF Bodies
<1>4. r.size \in Nat
  BY <1>3
<1>5. r.cap \in Nat
  BY <1>3, SizeAssumption
<1>6. r.envelope \in Nat
  BY <1>3, SizeAssumption
<1>7. QED
  BY <1>4, <1>5, <1>6

LEMMA Fits == AnswerInv => NothingOversize
<1> SUFFICES ASSUME AnswerInv, req.op = "put"
             PROVE  /\ go.kind = "stored" => go.length <= Limit(req)
                    /\ worker.kind = "stored" => worker.length <= BodyLimit
  BY DEF NothingOversize
<1>1. req.size \in Nat /\ req.cap \in Nat /\ BodyLimit \in Nat
  BY BodyOf, SizeAssumption DEF AnswerInv
<1>2. Limit(req) \in Nat
  BY <1>1 DEF Limit
<1>3. ASSUME go.kind = "stored" PROVE go.length <= Limit(req)
  <2>1. go = Stored(req.size) /\ ~TooLarge(req)
    BY <1>3, AnswerFields DEF AnswerInv, GoAnswers, GoStores
  <2>2. QED
    BY <1>1, <1>2, <2>1, AnswerFields DEF TooLarge
<1>4. ASSUME worker.kind = "stored" PROVE worker.length <= BodyLimit
  <2>1. worker = Stored(req.size) /\ ~(Encoded(req.size) * 3 > BodyLimit * 4)
    BY <1>4, AnswerFields DEF AnswerInv, WorkerAnswers, WorkerStores
  <2>2. PICK n \in Nat : n = req.size
    BY <1>1
  <2>3. n <= 3 * ((n + 2) \div 3)
    OBVIOUS
  <2>4. n <= BodyLimit
    BY <1>1, <2>1, <2>2, <2>3 DEF Encoded
  <2>5. QED
    BY <2>1, <2>2, <2>4, AnswerFields
<1>5. QED
  BY <1>3, <1>4

\* The two numbers a client chooses are honoured by both relays within the bounds,
\* whole numerals exactly and others as far as floats carry them: whatever the units,
\* the ceiling, the fraction numerals are written in and the width of a Duration
\* are, and for every body and cap (lease.go, ParseLease; server.go, put; worker.ts,
\* parseLease and put).
THEOREM BoundsAreKept == Spec => []WithinBounds
<1>1. AnswerInv => WithinBounds
  BY LeasesAsAsked, Fits DEF WithinBounds
<1>2. QED
  BY <1>1, AnswerInit, AnswerNext, PTL DEF Spec

-----------------------------------------------------------------------------
(* Authorisation leases.                                                   *)

LEMMA TextOf ==
  \A r \in AllRequests : r.op = "present" =>
    /\ r.text = NoKey \/ r.text \in [form : Forms, half : {"public", "private", "other"}, key : Keys]
    /\ r.bearer \in Bearers
BY DEF AllRequests, Collects, Bodies, Presented, Texts

LEMMA DecisionFields ==
  /\ \A how : Admitted(how).kind = how
  /\ Exited.kind = "exited" /\ Pending.kind = "pending"
  /\ \A key, error : Read(key, error).key = key /\ Read(key, error).error = error
BY DEF Admitted, Exited, Pending, Read

\* What the Go relay serves with is a public key or none, and the Worker reads
\* the same one from the same text.
LEMMA SameKey ==
  ASSUME NEW t, t = NoKey \/ t \in [form : Forms, half : {"public", "private", "other"}, key : Keys]
  PROVE  /\ goKey(t).error = "none" => goKey(t).key = verificationKey(t) /\ (t = NoKey \/ t.half = "public")
         /\ verificationKey(t) # NoKey => t # NoKey /\ t.half = "public" /\ verificationKey(t) = t.key
<1>1. CASE t = NoKey
  BY <1>1, DecisionFields DEF goKey, verificationKey
<1>2. CASE t # NoKey
  <2>1. t.form \in Forms /\ t.half \in {"public", "private", "other"}
    BY <1>2
  <2>2. verificationKey(t) = IF t.form # "junk" /\ t.half = "public" THEN t.key ELSE NoKey
    BY <1>2, <2>1 DEF verificationKey, parsePublicKey, Bytes, Forms
  <2>3. goKey(t).error = "none" => goKey(t).key = t.key /\ t.half = "public" /\ t.form # "junk"
    <3>1. goKey(t) = ParseEd25519PublicKey(t)
      BY <1>2 DEF goKey
    <3>2. goKey(t).error = "none" => goKey(t).key = t.key /\ Bytes(t, {"hex", "std", "rawurl"}) = 32
      <4>1. PICK n : n = Bytes(t, {"hex", "std", "rawurl"})
        OBVIOUS
      <4>2. n # 32 => goKey(t) \in {Read(NoKey, "encoding"), Read(NoKey, "private"), Read(NoKey, "size")}
        BY <3>1, <4>1 DEF ParseEd25519PublicKey
      <4>3. n # 32 => goKey(t).error # "none"
        BY <4>2 DEF Read
      <4>4. n = 32 => goKey(t) = Read(t.key, "none")
        BY <3>1, <4>1 DEF ParseEd25519PublicKey
      <4>5. QED
        BY <4>1, <4>3, <4>4 DEF Read
    <3>3. Bytes(t, {"hex", "std", "rawurl"}) = 32 => t.half = "public" /\ t.form # "junk"
      BY <2>1 DEF Bytes
    <3>4. QED
      BY <3>2, <3>3
  <2>4. QED
    BY <1>2, <2>2, <2>3
<1>3. QED
  BY <1>1, <1>2

\* Whichever is looked at first, bounds or signature.
LEMMA SameVerdict ==
  ASSUME NEW b, NEW key
  PROVE  /\ goAdmit(b, key) = "genuine" /\ b.payload # "recased" =>
              workerAdmit(b, key) = "genuine"
         /\ workerAdmit(b, key) = "genuine" /\ b.code = "raw" /\ b.payload # "loose" =>
              goAdmit(b, key) = "genuine"
         /\ "genuine" \in {goAdmit(b, key), workerAdmit(b, key)} => key # NoKey /\ b.by = key
BY DEF goAdmit, workerAdmit, ParseAuthority, looksLikeAuthority, Verifies

\* Where the Go relay serves, either relay takes for genuine what the other does,
\* but for the encodings and payloads only one of them reads, and so both the same
\* leases of those NewAuthority writes, although they check bounds and signature in
\* opposite orders and read the configured key with different decoders; what either
\* honours is signed with the pair that was configured; and a Go relay that serves
\* has a public key or none (verify.go, authlease.go and main.go; worker.ts,
\* parsePublicKey to admitAuthority).
THEOREM LeasesReadAlike == Spec => []SameLeases
<1>1. AnswerInv => SameLeases
  <2> SUFFICES ASSUME AnswerInv, req.op = "present"
               PROVE  /\ go \notin {Pending, Exited} /\ worker # Pending =>
                           /\ go.kind = "genuine" /\ req.bearer.payload # "recased" =>
                                worker.kind = "genuine"
                           /\ /\ worker.kind = "genuine"
                              /\ req.bearer.code = "raw" /\ req.bearer.payload # "loose"
                              => go.kind = "genuine"
                      /\ go \notin {Pending, Exited} => req.text = NoKey \/ req.text.half = "public"
                      /\ "genuine" \in {go.kind, worker.kind} =>
                           req.text # NoKey /\ req.text.half = "public" /\ req.bearer.by = req.text.key
    BY DEF SameLeases
  <2>1. PICK t, b : t = req.text /\ b = req.bearer
    OBVIOUS
  <2>2. t = NoKey \/ t \in [form : Forms, half : {"public", "private", "other"}, key : Keys]
    BY <2>1, TextOf DEF AnswerInv
  <2>3. go \notin {Pending, Exited} => goKey(t).error = "none" /\ go.kind = goAdmit(b, goKey(t).key)
    BY <2>1, DecisionFields DEF AnswerInv, GoAnswers, GoDecides
  <2>4. worker # Pending => worker.kind = workerAdmit(b, verificationKey(t))
    BY <2>1, DecisionFields DEF AnswerInv, WorkerAnswers, WorkerDecides
  <2>5. go.kind = "genuine" => go \notin {Pending, Exited}
    BY DecisionFields
  <2>6. worker.kind = "genuine" => worker # Pending
    BY DecisionFields
  <2>7. goKey(t).error = "none" =>
          /\ goAdmit(b, goKey(t).key) = "genuine" /\ b.payload # "recased" =>
               workerAdmit(b, verificationKey(t)) = "genuine"
          /\ /\ workerAdmit(b, verificationKey(t)) = "genuine"
             /\ b.code = "raw" /\ b.payload # "loose"
             => goAdmit(b, goKey(t).key) = "genuine"
          /\ goAdmit(b, goKey(t).key) = "genuine" =>
               t # NoKey /\ t.half = "public" /\ b.by = t.key
    <3>1. PICK k : k = verificationKey(t)
      OBVIOUS
    <3>2. goKey(t).error = "none" => goKey(t).key = k
      BY <2>2, <3>1, SameKey
    <3>3. /\ goAdmit(b, k) = "genuine" /\ b.payload # "recased" => workerAdmit(b, k) = "genuine"
          /\ workerAdmit(b, k) = "genuine" /\ b.code = "raw" /\ b.payload # "loose" =>
               goAdmit(b, k) = "genuine"
          /\ goAdmit(b, k) = "genuine" => k # NoKey /\ b.by = k
      BY SameVerdict
    <3>4. k # NoKey => t # NoKey /\ t.half = "public" /\ k = t.key
      BY <2>2, <3>1, SameKey
    <3>5. QED
      BY <3>1, <3>2, <3>3, <3>4
  <2>8. workerAdmit(b, verificationKey(t)) = "genuine" => t # NoKey /\ t.half = "public" /\ b.by = t.key
    <3>1. PICK k : k = verificationKey(t)
      OBVIOUS
    <3>2. workerAdmit(b, k) = "genuine" => k # NoKey /\ b.by = k
      BY SameVerdict
    <3>3. k # NoKey => t # NoKey /\ t.half = "public" /\ k = t.key
      BY <2>2, <3>1, SameKey
    <3>4. QED
      BY <3>1, <3>2, <3>3
  <2>9. go \notin {Pending, Exited} => t = NoKey \/ t.half = "public"
    BY <2>2, <2>3, SameKey
  <2>10. QED
    BY <2>1, <2>3, <2>4, <2>5, <2>6, <2>7, <2>8, <2>9
<1>2. QED
  BY <1>1, AnswerInit, AnswerNext, PTL DEF Spec
=============================================================================
