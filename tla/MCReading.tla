----------------------------- MODULE MCReading ------------------------------
(***************************************************************************)
(* The instance of Reading for TLC: a short millisecond, a range of        *)
(* integers that a few minutes overflow, and floats with a mantissa of six *)
(* bits, so that 0.6 s, which is 15 ms, is cut off below it by both.       *)
(***************************************************************************)
EXTENDS Reading

CONSTANT Mantissa

\* To the nearest whole number, from the middle to the even one.
Nearest(a, b) ==
  LET rest == 2 * (a % b)
  IN  a \div b + IF rest > b \/ (rest = b /\ (a \div b) % 2 = 1) THEN 1 ELSE 0

\* The float nearest to a / b, for numbers from 2^-5 to 2^10, as a fraction.
Float(a, b) ==
  IF a = 0 THEN <<0, 1>>
  ELSE LET scale == CHOOSE k \in 0 .. Mantissa + 8 :
                      /\ 16 * b * 2^(Mantissa - 1) <= a * 2^k
                      /\ a * 2^k < 16 * b * 2^Mantissa
       IN  <<16 * Nearest(a * 2^scale, 16 * b), 2^scale>>

\* Both factors are floats, and so is the product.
MCProduct(n, u) ==
  LET f == Float(n, Den)
      p == Float(f[1] * u, f[2])
  IN  p[1] \div p[2]

Bearer(lease, payload, sig, by) ==
  [lease |-> lease, code |-> "raw", payload |-> payload, sig |-> sig, by |-> by]

\* A lease that either key may have signed, and everything that can be wrong
\* with one: not a lease at all, nothing in it, an unreadable part, no bounds, a
\* signature of the wrong length or by nobody; and what only one of them reads.
MCBearers ==
  LET signed == {Bearer(TRUE, p, "good", k) :
                   p \in {"empty", "garbled", "unbounded", "loose", "recased"}, k \in Keys} \cup
                {Bearer(TRUE, "good", "good", k) : k \in Keys \cup {NoKey}}
  IN  signed \cup {[b EXCEPT !.code = "loose"] : b \in signed} \cup
      {Bearer(TRUE, "good", s, NoKey) : s \in {"garbled", "short"}} \cup
      {Bearer(FALSE, "good", "good", NoKey)}
=============================================================================
