------------------------------- MODULE MCGate -------------------------------
(***************************************************************************)
(* Instances of Gate for TLC: one edit, which a scope of one file matches   *)
(* more precisely than a glob does.                                         *)
(***************************************************************************)
EXTENDS Gate, TLC

CONSTANTS s1, s2, m1, m2, edit, glob, file

EveryMatch == Entries \X Actions
Literal    == [e \in Entries |-> IF e = file THEN 3 ELSE 1]
InOrder    == [m \in Memories |-> IF m = m1 THEN 1 ELSE 2]

Entry(status, enforcement, confidence, entry) ==
    [status |-> status, enforcement |-> enforcement, confidence |-> confidence, scope |-> {entry}]

Requirement == Entry("active", "requirement", "medium", glob)
Narrow      == Entry("active", "warning", "low", file)
Sure        == Entry("active", "warning", "high", glob)
Contested   == Entry("contested", "requirement", "medium", file)

\* The first memory binds, the second comes and goes above and below it.
Mixed   == [m \in Memories |-> {Requirement} \cup (IF m = m1 THEN {} ELSE {Narrow, Sure, Contested})]

Results(max) == [maxResults |-> max, maxProvisional |-> 1, mode |-> "related"]
OneResult    == Results(1)
=============================================================================
