---------------------------- MODULE MCConformance ----------------------------
(***************************************************************************)
(* The instance of Conformance for TLC.                                    *)
(***************************************************************************)
EXTENDS Conformance

\* The harnesses: the command on its own, with a control plane, with a hosted
\* relay, with a restart command, and with everything.
AllLevers ==
  {{"sign", "other"}, {"sign", "other", "plane"}, {"sign", "other", "plane", "tenancy"},
   {"sign", "other", "restart"}, {"sign", "other", "plane", "tenancy", "restart"}, {}}

AllFaults ==
  {"nameless", "open", "one-sided", "mute", "wide-is-fine", "trusts-leases", "endless-leases",
   "blames", "remembers-outages", "asks-always", "coarse-key", "leaks",
   "stalls", "loses", "garbles", "keeps", "steals", "shares", "keeps-acked", "acks-anything",
   "lost-with-lease", "renumbers", "one-lease", "any-length",
   "deaf", "hangs", "wakes-unleased", "volatile", "backs-up", "dead"}

Holds == {"empty", "again"}

Trial(f, L, k, lag, h, n) ==
  [fault |-> f, levers |-> L, keyed |-> k, lag |-> lag, hold |-> h, runs |-> n]

\* Relays that keep the contract, twice over, and once with calls that take just
\* under 5 s or just under 10; one without the lease key; and every fault at every
\* harness.
AllTrials ==
  {Trial("none", L, TRUE, 0, h, 2) : L \in AllLevers, h \in Holds}
    \cup {Trial("none", L, TRUE, lag, h, 1) : L \in AllLevers, lag \in {49, 99}, h \in Holds}
    \cup {Trial("none", L, FALSE, 0, "empty", 1) : L \in AllLevers}
    \cup {Trial(f, L, TRUE, 0, h, 1) : f \in AllFaults, L \in AllLevers, h \in Holds}
==============================================================================
