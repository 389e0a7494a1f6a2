\* Two clones with detached pushes and hook fetches beside the commands.
SPECIFICATION Spec
CONSTANTS
    c1 = c1
    c2 = c2
    p1 = p1
    p2 = p2
    r1 = r1
    r2 = r2
    Seed = Seed
    Processes = {p1, p2}
    Records = {r1, r2}
    Clones = {c1, c2}
    CloneOf <- Separate
    AutoPush = {r1}
    HookClones = {c1, c2}
    MaxSyncAttempts = 2
    MaxSyncs = 1
INVARIANTS TypeOK AcknowledgedKept SyncedIsShared ReconciledFits
PROPERTY RefinesShared
\* A team may stop working: no command has to be started.
CHECK_DEADLOCK FALSE
