\* Two processes update the same file, which is not damaged.
SPECIFICATION Spec
CONSTANTS
    a = a
    b = b
    p = p
    q = q
    place = place
    NoOne = NoOne
    Unset = Unset
    Memories = {a, b}
    Envelope <- Envelopes
    CreatedAt <- Stamps
    BroadScopes = {}
    Feed <- Reactions
    Policies <- OnePolicy
    Processes = {p, q}
    MaxFiles = 1
    Serial = FALSE
    QuietReplay = TRUE
INVARIANT IndexFresh
CHECK_DEADLOCK FALSE
