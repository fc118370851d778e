------------------------------ MODULE Reading -------------------------------
(***************************************************************************)
(* What the two implementations of the relay make of the same input, where *)
(* each reads it with code of its own: the length of the collection lease  *)
(* asked for with ?lease= (ParseLease and parseLease), the size of a       *)
(* message (put and put), and the key and the bearer credential of an      *)
(* authorisation lease (verify.go, authlease.go and main; parsePublicKey   *)
(* to admitAuthority in the Worker).                                       *)
(*                                                                         *)
(* Durations are counted in nanoseconds in Go, with a ceiling in a signed  *)
(* integer of fixed width, and in milliseconds in the Worker.  The         *)
(* constants scale both down: a tick stands for Go's nanosecond.  Both     *)
(* multiply in floating point, and so may miss the product by a little.    *)
(*                                                                         *)
(* Ed25519 is taken for what it promises: a signature checks with the key  *)
(* it was made for, over the text it was made over.  What a genuine lease  *)
(* then permits is the business of Admission and WorkerFront.              *)
(***************************************************************************)
EXTENDS Integers

CONSTANTS
  Milli,      \* a millisecond, in ticks
  Second, Minute, Hour, \* the other units, in milliseconds
  MaxLease,   \* the longest lease, in ticks
  MaxInt,     \* the largest Duration; the smallest is -MaxInt - 1
  Den,        \* numerals are written in fractions of this
  MaxNum,     \* bound: the largest numeral, as a number of such fractions
  Product(_, _), \* the whole part of the product of a numeral and a unit, in floats
  BodyLimit,  \* MaxBodyBytes
  Caps,       \* the caps a grant puts on one operation; 0 is none
  Slack,      \* what put allows for the JSON around a body
  Envelopes,  \* what the JSON around a body does take
  MaxSize,    \* bound: the size of a body
  Keys,       \* key pairs
  NoKey,
  Bearers     \* the credentials presented, see BearerAssumption

ASSUME UnitAssumption ==
  /\ {Milli, Second, Minute, Hour, Den} \subseteq Nat \ {0}
  /\ MaxLease \in Nat /\ MaxLease <= MaxInt /\ MaxInt \in Nat
\* What is left of IEEE 754 where the ceiling is far below 2^53: up to the ceiling a
\* product is less than one off, and right for a whole numeral; above it, it does
\* not come out below.
ASSUME ProductAssumption ==
  LET Millis == {1, Second, Minute, Hour}
  IN  \A n \in 0 .. MaxNum, u \in Millis \cup {m * Milli : m \in Millis} :
        LET exact == (n * u) \div Den
            got == Product(n, u)
        IN  /\ got \in Nat
            /\ IF exact <= MaxLease + 2
               THEN /\ exact - 1 <= got /\ got <= exact + 1
                    /\ n % Den = 0 => got = exact
               ELSE got > MaxLease
ASSUME SizeAssumption ==
  /\ BodyLimit \in Nat \ {0} /\ Caps \subseteq Nat /\ Slack \in Nat
  /\ Envelopes \subseteq Nat
ASSUME BoundAssumption == MaxNum \in Nat /\ MaxSize \in Nat
\* A lease is its parts, their encoding, what the payload says, and the signature.
\* NewAuthority writes raw base64url; padded or in the other alphabet it is loose.
\* A loose payload says what only JavaScript takes for a lease, like an exp with a
\* fraction; a recased one has keys that only Go recognises.
ASSUME BearerAssumption ==
  Bearers \subseteq [lease : BOOLEAN, code : {"raw", "loose"},
                     payload : {"empty", "garbled", "unbounded", "loose", "recased", "good"},
                     sig : {"garbled", "short", "good"}, by : Keys \cup {NoKey}]

VARIABLES
  req,     \* the request
  go,      \* what the Go relay makes of it, once it has
  worker   \* what the Worker makes of it

vars == <<req, go, worker>>

-----------------------------------------------------------------------------
(* Requests.                                                               *)

Units == {"none", "ms", "s", "m", "h"}

\* What ?lease= can say.  plain is a numeral of the documented grammar; odd is
\* one that only strconv.ParseFloat reads, like ".5" or a hexadecimal float;
\* inf and nan are numbers to it as well; junk is read by neither.
Words ==
  [text : {"empty", "zero"}, num : {0}, unit : {"none"}]
    \cup [text : {"plain", "odd"}, num : 0 .. MaxNum, unit : Units]
    \cup [text : {"inf", "nan", "junk"}, num : {0}, unit : Units]

Collects == [op : {"get"}, word : Words]
Bodies == [op : {"put"}, size : 0 .. MaxSize, envelope : Envelopes, cap : Caps]

\* HELIOGRAPH_RELAY_LEASE_KEY, unset or a text: the form it is written in, which
\* half of the pair it is, and the pair.
Forms == {"hex", "std", "rawstd", "url", "rawurl", "junk"}
Texts == [form : Forms, half : {"public", "private", "other"}, key : Keys] \cup {NoKey}
Presented == [op : {"present"}, text : Texts, bearer : Bearers]

AllRequests == Collects \cup Bodies \cup Presented

Pending == [kind |-> "pending", length |-> 0]
Refused == [kind |-> "refused", length |-> 0]
Taken == [kind |-> "taken", length |-> 0]
Leased(d) == [kind |-> "leased", length |-> d]
Stored(n) == [kind |-> "stored", length |-> n]
Admitted(how) == [kind |-> how, length |-> 0]
Exited == [kind |-> "exited", length |-> 0]

Init ==
  /\ req \in AllRequests
  /\ go = Pending /\ worker = Pending

-----------------------------------------------------------------------------
(* Collection leases.                                                      *)

Millis(unit) ==
  CASE unit = "ms" -> 1
    [] unit \in {"none", "s"} -> Second
    [] unit = "m" -> Minute
    [] unit = "h" -> Hour
Ticks(unit) == Millis(unit) * Milli

\* time.Duration(x) for a float x that is not a number, infinite, or beyond the
\* range is whatever the processor makes of it: the smallest integer on amd64;
\* on arm64 zero for NaN, and otherwise the largest.  Any other is cut off.
Converted(w) ==
  IF w.text = "nan" THEN {-MaxInt - 1, 0}
  ELSE IF w.text = "inf" \/ Product(w.num, Ticks(w.unit)) > MaxInt THEN {-MaxInt - 1, MaxInt}
  ELSE {Product(w.num, Ticks(w.unit))}

\* Mutant of Bounded: the ceiling is looked at only if a unit was given.
BoundedWithUnit(w, d) == IF d > MaxLease /\ w.unit # "none" THEN Refused ELSE Leased(d)

Bounded(w, d) == IF d > MaxLease THEN Refused ELSE Leased(d)

\* ParseLease.  A lease of no length, or less, is no lease to its caller.
ParseLease(w) ==
  CASE w.text \in {"empty", "zero"} -> {Leased(0)}
    [] w.text = "junk" -> {Refused}
    [] OTHER -> {Bounded(w, d) : d \in Converted(w)}

\* get: a refusal, or a leased collection, or delete on collection.
GoGet ==
  /\ req.op = "get" /\ go = Pending
  /\ \E r \in ParseLease(req.word) :
       go' = IF r.kind = "leased" /\ r.length <= 0 THEN Taken ELSE r
  /\ UNCHANGED <<req, worker>>

\* parseLease of the Worker, in whole milliseconds.
parseLease(w) ==
  LET ms == Product(w.num, Millis(w.unit))
  IN  IF w.text \in {"empty", "zero"} THEN Leased(0)
      ELSE IF w.text # "plain" THEN Refused
      ELSE IF ms <= 0 \/ ms * Milli > MaxLease THEN Refused
      ELSE Leased(ms * Milli)

WorkerGet ==
  /\ req.op = "get" /\ worker = Pending
  /\ LET r == parseLease(req.word)
     IN  worker' = IF r = Leased(0) THEN Taken ELSE r
  /\ UNCHANGED <<req, go>>

-----------------------------------------------------------------------------
(* The size of a message.                                                  *)

\* base64, padded: four characters for each three bytes begun.
Encoded(n) == 4 * ((n + 2) \div 3)

\* The limit on a body: the server's, or the grant's if that is smaller.
Limit(b) == IF b.cap > 0 /\ b.cap < BodyLimit THEN b.cap ELSE BodyLimit

\* MaxBytesReader bounds what is read, which is JSON with the body in base64;
\* the decoded body is bounded afterwards.
TooLarge(b) ==
  \/ Encoded(b.size) + b.envelope > Limit(b) + Slack
  \/ b.size > Limit(b)

GoPut ==
  /\ req.op = "put" /\ go = Pending
  /\ go' = IF TooLarge(req) THEN Refused ELSE Stored(req.size)
  /\ UNCHANGED <<req, worker>>

\* The Worker has no caps, and bounds the body by the length of its encoding.
WorkerPut ==
  /\ req.op = "put" /\ worker = Pending
  /\ worker' = IF Encoded(req.size) * 3 > BodyLimit * 4 THEN Refused ELSE Stored(req.size)
  /\ UNCHANGED <<req, go>>

-----------------------------------------------------------------------------
(* Authorisation leases: the key they are verified with, and the credential. *)

Read(key, error) == [key |-> key, error |-> error]

\* What the decoders make of a text in bytes: 96 is the hexadecimal form of a
\* private key, which is twice too long for the one that is looked for and is
\* base64 as well; 0 is a text they refuse.
Bytes(t, readable) ==
  IF t.form \notin readable THEN 0
  ELSE IF t.half = "public" THEN 32
  ELSE IF t.half = "private" THEN (IF t.form = "hex" THEN 96 ELSE 64)
  ELSE 16

\* Standard base64 with its padding, or base64url without.
ParseEd25519PublicKey(t) ==
  LET n == Bytes(t, {"hex", "std", "rawurl"})
  IN  IF n = 0 THEN Read(NoKey, "encoding")
      ELSE IF n = 64 THEN Read(NoKey, "private")
      ELSE IF n # 32 THEN Read(NoKey, "size")
      ELSE Read(t.key, "none")

\* fromBase64Url takes either alphabet, padded or not.
parsePublicKey(t) == IF Bytes(t, Forms \ {"junk"}) = 32 THEN t.key ELSE NoKey

\* Mutant of ParseAuthority: a lease without bounds is a lease.
ParseAuthorityUnbounded(b) ==
  /\ b.lease /\ b.code = "raw" /\ b.sig # "garbled"
  /\ b.payload \in {"unbounded", "recased", "good"}

\* A lease that can be read: everything else is the inner authoriser's.
ParseAuthority(b) ==
  b.lease /\ b.code = "raw" /\ b.sig # "garbled" /\ b.payload \in {"recased", "good"}

\* Ed25519Verifier, and crypto.subtle.verify.
Verifies(b, key) == key # NoKey /\ b.sig = "good" /\ b.by = key

goAdmit(b, key) ==
  IF ~ParseAuthority(b) THEN "refer"
  ELSE IF ~Verifies(b, key) THEN "unverifiable"
  ELSE "genuine"

looksLikeAuthority(b) == b.lease /\ b.payload # "empty"

\* admitAuthority: first the signature, then the bounds; fromBase64Url takes either
\* encoding.
workerAdmit(b, key) ==
  IF ~looksLikeAuthority(b) THEN "refer"
  ELSE IF ~Verifies(b, key) THEN "unverifiable"
  ELSE IF b.payload \notin {"loose", "good"} THEN "unverifiable"
  ELSE "genuine"

\* main reads the key before it serves: none is fine, one that cannot be read
\* ends the process.
GoAdmit ==
  /\ req.op = "present" /\ go = Pending
  /\ LET k == IF req.text = NoKey THEN Read(NoKey, "none") ELSE ParseEd25519PublicKey(req.text)
     IN  go' = IF k.error # "none" THEN Exited ELSE Admitted(goAdmit(req.bearer, k.key))
  /\ UNCHANGED <<req, worker>>

\* The Worker reads it when a lease comes: without a key no lease verifies.  The
\* imported key is kept under the text it was read from, which changes no answer.
verificationKey(text) == IF text = NoKey THEN NoKey ELSE parsePublicKey(text)

WorkerAdmit ==
  /\ req.op = "present" /\ worker = Pending
  /\ worker' = Admitted(workerAdmit(req.bearer, verificationKey(req.text)))
  /\ UNCHANGED <<req, go>>

-----------------------------------------------------------------------------
\* The next request, once both have answered.
Arrive ==
  /\ go # Pending /\ worker # Pending
  /\ req' \in AllRequests
  /\ go' = Pending /\ worker' = Pending

Next == GoGet \/ WorkerGet \/ GoPut \/ WorkerPut \/ GoAdmit \/ WorkerAdmit \/ Arrive

Spec == Init /\ [][Next]_vars

-----------------------------------------------------------------------------
(* Properties.                                                             *)

\* The length that was asked for, in ticks and in milliseconds; whether a lease was
\* asked for, and whether in a whole number of its unit.
Length(w) == (w.num * Ticks(w.unit)) \div Den
Milliseconds(w) == (w.num * Millis(w.unit)) \div Den
AsksForLease(w) == w.text = "plain" /\ w.num > 0
Whole(w) == w.num % Den = 0
Granted(d) == IF d <= MaxLease THEN Leased(d) ELSE Refused

\* "One place for the bounds, after every form has been read" (lease.go,
\* ParseLease), and "the same small grammar the Go server parses" (worker.ts,
\* parseLease): whole seconds, minutes and so on up to the ceiling are granted to
\* the tick by both relays, with a unit or without, and refused by both above it;
\* with a fraction Go's lease is a tick off at most and the Worker's a millisecond;
\* neither grants more than the ceiling, and neither refuses, or takes for none, what
\* is further from the bounds than that.  Go's part is about lengths that its
\* integers can hold.  And in the Worker "a 400 rather than a silent fall back to
\* destructive collection": only nothing and "0" collect without a lease, also where
\* rounding leaves none.
LeaseAsAsked ==
  LET w == req.word
      fits == Product(w.num, Ticks(w.unit)) <= MaxInt
      ms == Milliseconds(w)
  IN  req.op = "get" =>
        /\ go.length <= MaxLease /\ worker.length <= MaxLease
        /\ AsksForLease(w) /\ Whole(w) =>
             /\ go # Pending /\ fits => go = Granted(Length(w))
             /\ worker # Pending => worker = Granted(Length(w))
        /\ AsksForLease(w) /\ fits =>
             /\ go.kind = "leased" => Length(w) - 1 <= go.length /\ go.length <= Length(w) + 1
             /\ go = Refused => Length(w) >= MaxLease
             /\ go = Taken => Length(w) <= 1
        /\ AsksForLease(w) =>
             /\ worker.kind = "leased" => \E d \in -1 .. 1 : worker.length = (ms + d) * Milli
             /\ worker = Refused => ms <= 1 \/ (ms + 1) * Milli > MaxLease
        /\ worker = Taken => w.text \in {"empty", "zero"}
        /\ worker.kind = "leased" => worker.length > 0

\* What either relay stores is within the limit on the decoded body, which for
\* Go is the grant's cap if that is smaller (server.go, put; worker.ts, put).
NothingOversize ==
  req.op = "put" =>
    /\ go.kind = "stored" => go.length <= Limit(req)
    /\ worker.kind = "stored" => worker.length <= BodyLimit

\* The two numbers that a client chooses are honoured as they were given, as far as
\* floats carry them and within the bounds of the relay, by both implementations (lease.go, ParseLease;
\* server.go, put; worker.ts, parseLease and put).
WithinBounds == LeaseAsAsked /\ NothingOversize

\* "A lease is signed with Ed25519 and both implementations verify it" (README):
\* the two read a credential in opposite orders, Go the bounds before the
\* signature and the Worker after it.  Where the Go relay serves, the Worker takes
\* for genuine what Go does, unless its keys are written in another case; and Go
\* what the Worker does, unless it is encoded, or says, what only JavaScript lets
\* pass.  So they agree on every lease that NewAuthority writes, and those that
\* either honours are signed with the pair that was configured.
\* A Go relay that serves was given a public key or none, never the private half
\* ("refused rather than started with a verifier that silently refuses
\* everything", main).
SameLeases ==
  req.op = "present" =>
    /\ go \notin {Pending, Exited} /\ worker # Pending =>
         /\ go.kind = "genuine" /\ req.bearer.payload # "recased" => worker.kind = "genuine"
         /\ worker.kind = "genuine" /\ req.bearer.code = "raw" /\ req.bearer.payload # "loose" =>
              go.kind = "genuine"
    /\ go \notin {Pending, Exited} => req.text = NoKey \/ req.text.half = "public"
    /\ "genuine" \in {go.kind, worker.kind} =>
         req.text # NoKey /\ req.text.half = "public" /\ req.bearer.by = req.text.key
=============================================================================
