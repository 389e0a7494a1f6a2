\* Every memory and every order of three records about it.
SPECIFICATION Spec
CONSTANTS
    a = a
    b = b
    run = run
    fix = fix
    env = env
    GlobNames = {a, b}
    Other = Other
    One = One
    Rest = Rest
    Words = {run, fix, env}
    OtherWord = OtherWord
    EnvWords = {env}
    MaxSegments = 3
    MaxWords = 2
    Scopes <- SomeScopes
    Contexts <- SomeContexts
    Sensitive <- SensitivePaths
    MaxRecords = 3
INVARIANTS TypeOK EarnedReach ApproveSettles MatcherMissesNothing CommandContainmentExact SensitiveIsSeen BreadthIsSeen
PROPERTY NarrowingAppliesAtOnce
