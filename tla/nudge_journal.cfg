\* One session in every harness; its hooks fail at any step and may overlap.
SPECIFICATION Spec
CONSTANTS
    h1 = h1
    h2 = h2
    p = p
    m = m
    None = None
    Hooks = {h1, h2}
    Paths = {p}
    Memories = {m}
    Commands <- Tests
    Matching <- AnyMatching
    FirstScope <- ExactScope
    Requirements = {}
    Drifted = {}
    Harnesses <- AnyHarness
    Config <- EveryTurn
    AdvisoryMax = 1
    MaxTurns <- OneToFour
SYMMETRY AnyHook
INVARIANTS TypeOK BudgetKept QueuedApart ReportBalances DeliveredWasShown
PROPERTY NothingForgotten
CHECK_DEADLOCK FALSE
