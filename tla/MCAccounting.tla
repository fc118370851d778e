---------------------------- MODULE MCAccounting ----------------------------
(***************************************************************************)
(* Instances of Accounting for TLC.                                        *)
(***************************************************************************)
EXTENDS Accounting

CONSTANTS r1, r2, r3

Kinds ==
  << [op |-> "put", size |-> 1, chunked |-> FALSE], [op |-> "put", size |-> 2, chunked |-> FALSE],
     [op |-> "put", size |-> 2, chunked |-> TRUE],
     [op |-> "get", size |-> 1, chunked |-> FALSE],
     [op |-> "lease", size |-> 1, chunked |-> FALSE],
     [op |-> "ack", size |-> 1, chunked |-> FALSE] >>

\* A put and any two others.  Requests are interchangeable, so they are sorted.
AllLoads ==
  {[r \in {r1, r2, r3} |-> CASE r = r1 -> Kinds[i] [] r = r2 -> Kinds[j] [] r = r3 -> Kinds[k]] :
     <<i, j, k>> \in {x \in (1 .. 3) \X (1 .. 6) \X (1 .. 6) : x[1] <= x[2] /\ x[2] <= x[3]}}
=============================================================================
