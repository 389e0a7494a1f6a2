\* Two commands of one clone, killed anywhere, with five pushes between them.
SPECIFICATION Spec
CONSTANTS
    p1 = p1
    p2 = p2
    Processes = {p1, p2}
    Remotes = {"origin"}
    Messages <- SomeMessages
    Kills = TRUE
    MaxAge = 0
    MaxTime = 1
    MaxPushes = 5
    Absent = Absent
    Empty = Empty
    Garbled = Garbled
SYMMETRY AnyOrder
INVARIANTS TypeOK CountEarned StreakExact
CHECK_DEADLOCK FALSE
