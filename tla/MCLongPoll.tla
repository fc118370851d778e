----------------------------- MODULE MCLongPoll -----------------------------
(***************************************************************************)
(* Instances of LongPoll for TLC: two polls with plain tokens race each    *)
(* other and a put; or one poll under a lease, below, at or above the      *)
(* epochs that are raised, races its revocation.                           *)
(***************************************************************************)
EXTENDS LongPoll

CONSTANTS p1, p2

Asking(creds, waiting) == [cred : creds, leased : BOOLEAN, waits : waiting]
Racing == [{p1, p2} -> Asking({0}, {TRUE})]
Watched == [{p1} -> Asking({1, 2}, BOOLEAN)]
AllLoads == Racing \cup Watched
=============================================================================
