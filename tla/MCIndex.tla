------------------------------ MODULE MCIndex ------------------------------
(***************************************************************************)
(* Instances of Index for TLC.                                              *)
(***************************************************************************)
EXTENDS Index, TLC

CONSTANTS a, b, p, q, place

Envelopes ==
    [m \in Memories |-> [type |-> "failed_attempt", external |-> FALSE, scope |-> {place},
                         session |-> "s1", email |-> NoOne, branch |-> NoOne]]

Stamps == <<1, 2, 3, 4>>

By(session, kind, target, ref, id) ==
    [id |-> id, target |-> target, kind |-> kind, human |-> FALSE,
     session |-> session, email |-> NoOne, branch |-> NoOne, places |-> {place},
     scope |-> {}, ref |-> ref, enforcement |-> Unset, confidence |-> Unset]

\* b is called a duplicate of a, a goes stale, somebody else confirms a.
Claims == {By("s2", "mark_duplicate", b, a, 1), By("s2", "mark_stale", a, Unset, 2),
           By("s3", "confirm", a, Unset, 3)}

\* One memory that is confirmed and contradicted.
Reactions == {By("s2", "confirm", a, Unset, 1), By("s3", "contradict", a, Unset, 2)}

Tier(auto, confirms) ==
    [auto |-> auto, minConfirms |-> confirms, maxEnforcement |-> "warning"]
TeamPolicy(auto) ==
    [baseRisk |-> [t \in {"failed_attempt"} |-> 1], broadScopeBump |-> FALSE, sensitive |-> {},
     independence |-> "different_session",
     tiers |-> [r \in Risks |-> Tier(auto, 0)]]

OnePolicy   == <<TeamPolicy("independent_confirm")>>
TwoPolicies == <<TeamPolicy("independent_confirm"), TeamPolicy("never")>>

AnyProcess == Permutations(Processes)
=============================================================================
