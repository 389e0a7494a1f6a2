---------------------------- MODULE MCLifecycle ----------------------------
(***************************************************************************)
(* Instances of Lifecycle for TLC.                                          *)
(***************************************************************************)
EXTENDS Lifecycle, TLC

CONSTANTS m1, m2, m3          \* memories
CONSTANTS pa, pb              \* places: pb is a sensitive path

Memory(type, places) ==
    [type |-> type, external |-> FALSE, scope |-> places,
     session |-> "s1", email |-> "dev@x", branch |-> "main"]

\* Memories no rule tells apart, active at once: risk 0 as long as pa is all they cover.
Alike    == [m \in Memories |-> Memory("successful_pattern", {pa})]
AnyOrder == Permutations(Memories)

Author == [session |-> "s1", email |-> "dev@x", branch |-> "main", places |-> {pa}]
\* Another session of the same person, on another branch, in another place.
Second == [session |-> "s2", email |-> "dev@x", branch |-> "fix", places |-> {pb}]
TwoAgents == {Author, Second}

Broad      == {{pa, pb}}
SomeScopes == {{pa}, {pb}, {pa, pb}}

\* Three records at two instants: the first two share one.
Instants == <<1, 1, 2>>
Stamps   == [i \in Ids |-> Instants[i]]

\* The default policy with pb as a critical path and everything as broad.
DefaultTiers ==
    [r \in Risks |->
        [auto |-> IF r = 0 THEN "immediate" ELSE "independent_confirm",
         minConfirms |-> IF r = 3 THEN 2 ELSE 0,
         maxEnforcement |-> IF r = 0 THEN "recommendation" ELSE "warning"]]
BaseRisks == [t \in {"decision", "successful_pattern"} |-> 0] @@ [t \in {"failed_attempt"} |-> 1]
DefaultPolicy ==
    [baseRisk |-> BaseRisks, broadScopeBump |-> TRUE,
     sensitive |-> {[places |-> {pb}, minRisk |-> 3]},
     independence |-> "different_session", tiers |-> DefaultTiers]

\* A team that asks for three confirms in its critical tier, from other branches.
Cautious == [DefaultPolicy EXCEPT !.tiers[3].minConfirms = 3,
                                  !.independence = "different_session_and_branch"]
=============================================================================
