---------------------------- MODULE MCWorkerQueue ----------------------------
(***************************************************************************)
(* Instances of WorkerQueue and WorkerMailbox for TLC.                     *)
(***************************************************************************)
EXTENDS WorkerMailbox, TLC

\* Polls are interchangeable: only their number matters.
PollSymmetry == Permutations(Polls)
=============================================================================
