SPECIFICATION Spec
CONSTANTS
    r1 = r1
    r2 = r2
    Task = {r1, r2}
    Request = {r1, r2}
    Kinds <- MCKinds
    Part = {p1, p2, p3}
    FirstPage = {p1, p2}
    Permitted = {p2, p3}
    MaxTokens = 3
INVARIANTS
    TypeOK
    SopsEndsWithItsRequest
    RetryIsHarmless
    OneCallback
PROPERTIES
    OkAnswerIsWhole
    CallersHear
CHECK_DEADLOCK FALSE
