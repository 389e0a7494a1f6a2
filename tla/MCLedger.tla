------------------------------ MODULE MCLedger ------------------------------
(***************************************************************************)
(* Instances of Ledger for TLC.                                             *)
(***************************************************************************)
EXTENDS Ledger, TLC

CONSTANTS c1, c2, p1, p2, r1, r2

\* One process in each of two clones.
Separate == p1 :> c1 @@ p2 :> c2

\* Two processes in the same clone.
Together == p1 :> c1 @@ p2 :> c1
=============================================================================
