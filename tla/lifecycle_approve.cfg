\* One memory a maintainer approves more than once.
SPECIFICATION Spec
CONSTANTS
    m1 = m1
    m2 = m2
    m3 = m3
    pa = pa
    pb = pb
    NoOne = NoOne
    Unset = Unset
    Memories = {m1}
    Envelope <- Alike
    Ids = {1, 2, 3}
    CreatedAt <- Stamps
    BroadScopes <- Broad
    Agents <- TwoAgents
    Scopes <- SomeScopes
    EnforcementChoices = {Unset, "warning", "requirement"}
    ConfidenceChoices = {Unset}
    Policy <- Cautious
PROPERTY ApproveSetsRequirement
CHECK_DEADLOCK FALSE
