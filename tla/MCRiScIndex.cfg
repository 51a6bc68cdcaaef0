SPECIFICATION MCSpec
CONSTANTS
    c1 = c1
    c2 = c2
    system = system
    component = component
    ra = ra
    rb = rb
    Repo = {ra, rb}
    Content = {c1, c2}
    EntityRef = {system, component}
    AppliesTo <- MCAppliesTo
    System = system
    Components = {component}
    Refresh = {f1, f2}
    MaxChanges = 1
    MaxFaults = 1
    MaxTimeouts = 1
INVARIANTS
    TypeOK
    LoneReplacementRepairs
    RefreshIsExact
PROPERTIES
    FailingRepoKeepsItsEntry
    UnchangedRiScIsFound
    IndexCatchesUp
