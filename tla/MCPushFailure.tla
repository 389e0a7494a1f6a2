--------------------------- MODULE MCPushFailure ---------------------------
(***************************************************************************)
(* Instances of PushFailure for TLC.                                        *)
(***************************************************************************)
EXTENDS PushFailure, TLC

CONSTANTS p1, p2

\* A protected branch, and a refusal that says no more.
SomeMessages == {{"remote rejected", "protected"}, {"remote rejected"}}

AnyOrder == Permutations(Processes)
=============================================================================
