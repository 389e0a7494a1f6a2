\* Updates one at a time, replays on a resting branch; files are damaged and created anew.
SPECIFICATION Spec
CONSTANTS
    a = a
    b = b
    p = p
    q = q
    place = place
    NoOne = NoOne
    Unset = Unset
    Memories = {a, b}
    Envelope <- Envelopes
    CreatedAt <- Stamps
    BroadScopes = {}
    Feed <- Claims
    Policies <- TwoPolicies
    Processes = {p, q}
    MaxFiles = 2
    Serial = TRUE
    QuietReplay = TRUE
SYMMETRY AnyProcess
INVARIANTS TypeOK StaleRowsAreDue
CHECK_DEADLOCK FALSE
