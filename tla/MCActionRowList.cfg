SPECIFICATION MCSpec
CONSTANTS
    RiSc = {"a", "b"}
    Item = {action, info}
    Info = info
    MaxEdits = 2
    MaxUnderWay = 1
    MaxFaults = 1
    MaxMoves = 2
    MaxEvents = 3
    MaxEarly = 1
INVARIANTS TypeOK SpinnerMeansWaiting OrderlyPageIsCurrent OrderlyEditsAreKept
PROPERTIES PendingIsSettled
CHECK_DEADLOCK FALSE
