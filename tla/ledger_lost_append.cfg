\* Two processes in one clone append and sync concurrently.
SPECIFICATION Spec
CONSTANTS
    c1 = c1
    c2 = c2
    p1 = p1
    p2 = p2
    r1 = r1
    r2 = r2
    Seed = Seed
    Processes = {p1, p2}
    Records = {r1, r2}
    Clones = {c1}
    CloneOf <- Together
    AutoPush = {}
    HookClones = {}
    MaxSyncAttempts = 2
    MaxSyncs = 1
INVARIANT ConcurrentAppendsKept
\* A team may stop working: no command has to be started.
CHECK_DEADLOCK FALSE
