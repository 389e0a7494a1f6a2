\* Three memories, two sessions, three records of any kind.
SPECIFICATION Spec
CONSTANTS
    m1 = m1
    m2 = m2
    m3 = m3
    pa = pa
    pb = pb
    NoOne = NoOne
    Unset = Unset
    Memories = {m1, m2, m3}
    Envelope <- Alike
    Ids = {1, 2, 3}
    CreatedAt <- Stamps
    BroadScopes <- Broad
    Agents <- TwoAgents
    Scopes <- SomeScopes
    EnforcementChoices = {Unset, "requirement"}
    ConfidenceChoices = {Unset}
    Policy <- Cautious
SYMMETRY AnyOrder
INVARIANTS TypeOK RequirementNeedsApprove BroadeningNeedsEvidence RejectedHidesNothing RingsAreWarned
PROPERTIES PraiseDemotesOnlyByRisk PraiseResolves FanOutSuffices
CHECK_DEADLOCK FALSE
