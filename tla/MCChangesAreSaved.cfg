SPECIFICATION MCSpec
CONSTANTS
    RiSc = {"a", "b"}
    Item = {action, info}
    Info = info
    MaxEdits = 2
    MaxUnderWay = 1
    MaxFaults = 0
    MaxMoves = 2
    MaxEvents = 4
    MaxEarly = 1
INVARIANT ChangesAreSaved
CHECK_DEADLOCK FALSE
