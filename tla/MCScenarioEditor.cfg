SPECIFICATION Spec
CONSTANTS
    None = None
    s1 = s1
    s2 = s2
    s3 = s3
    s4 = s4
    a1 = a1
    a2 = a2
    ScenarioId = {s1, s2, s3, s4}
    ActionId = {a1, a2}
    Files <- MCFiles
    NewScenario = s3
    NewAction = a2
    WizardRisks <- MCWizardRisks
    Predefined <- MCPredefined
    securityTeamPublicKey = "team"
    backendPublicKey = "backend"
    securityPlatformPublicKey = "platform"
    MaxEdits = 1
    MaxFaults = 1
INVARIANTS
    TypeOK
    MigrationIsReported
    DifferenceIsExact
    DifferenceIsCurrent
    ApprovalCoversScenarios
    OrderlyPageIsStored
    TableShowsScenarios
PROPERTIES
    RiskLevelsAreKept
    EditsAreKept
    KeysAreKept
    TypedIsKept
CHECK_DEADLOCK FALSE
