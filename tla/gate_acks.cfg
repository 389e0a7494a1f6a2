\* Two sessions, one of which knows its id, over two memories.
SPECIFICATION Spec
CONSTANTS
    s1 = s1
    s2 = s2
    m1 = m1
    m2 = m2
    edit = edit
    glob = glob
    file = file
    None = None
    Garbled = Garbled
    NoFile = NoFile
    Sessions = {s1, s2}
    Identified = {s1}
    Memories = {m1, m2}
    Actions = {edit}
    Entries = {glob, file}
    Matches <- EveryMatch
    Precision <- Literal
    Rows <- Mixed
    CreatedAt <- InOrder
    Retrieval <- OneResult
    TTL = 1
    MaxTime = 1
    MaxAcks = 2
INVARIANTS TypeOK ClearedByAck OwnAckHolds
PROPERTY RequirementYields
