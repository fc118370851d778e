------------------------------ MODULE MCStore ------------------------------
(***************************************************************************)
(* Instances of Store and StoreMailbox for TLC.  Bounds are CONSTANTS of    *)
(* Store, so an instance is a choice of values in a .cfg.                  *)
(***************************************************************************)
EXTENDS StoreMailbox, TLC

\* Routes are interchangeable: no action compares two of them.
RouteSymmetry == Permutations(Routes)
=============================================================================
