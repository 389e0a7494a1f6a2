------------------------------ MODULE MCNudge ------------------------------
(***************************************************************************)
(* Instances of Nudge for TLC: one file, one memory, which is filed under   *)
(* an exact path, and a test command.                                       *)
(***************************************************************************)
EXTENDS Nudge, TLC

CONSTANTS h1, h2, p, m

AnyMatching == [x \in Paths \cup Signatures |-> Memories]
ExactScope  == [x \in Memories |-> p]

Test(failed)  == [signature |-> "go test", failed |-> failed, revert |-> FALSE]
Tests         == {Test(TRUE), Test(FALSE)}

In(queues, injects, overlaps) == [queues |-> queues, injects |-> injects, overlaps |-> overlaps]

\* Claude Code, Codex and the others, with hooks that overlap or not.
AnyHarness == {In(TRUE, FALSE, FALSE), In(TRUE, TRUE, FALSE), In(FALSE, TRUE, FALSE),
               In(TRUE, FALSE, TRUE), In(FALSE, TRUE, TRUE)}

Limits(max, cooldown) == [enabled |-> TRUE, maxPerSession |-> max, cooldownTurns |-> cooldown,
                          selfReviewEvery |-> 2, churnThreshold |-> 2]
EveryTurn == Limits(2, 1)

\* Overlapping hooks, and retries of what was not rendered, are explored less deep.
OneToFour   == [x \in Harnesses |-> (IF x.queues THEN 2 ELSE 1) + (IF x.overlaps THEN 0 ELSE 2)]

AnyHook == Permutations(Hooks)
=============================================================================
