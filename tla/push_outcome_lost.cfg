\* One command that leaves its push to a goroutine; nobody is killed.
SPECIFICATION Spec
CONSTANTS
    p1 = p1
    p2 = p2
    Processes = {p1}
    Remotes = {"origin"}
    Messages <- SomeMessages
    Kills = FALSE
    MaxAge = 1
    MaxTime = 0
    MaxPushes = 1
    Absent = Absent
    Empty = Empty
    Garbled = Garbled
INVARIANT OutcomeRecorded
CHECK_DEADLOCK FALSE
