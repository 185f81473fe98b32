CONSTANTS
    Questions <- MCQuestions
    Callers <- MCCallers
    RolesOf <- MCRolesOf
    TenantOf <- MCTenantOf
    Tenants <- MCTenants
    KnownColumns <- Columns
    Scripts <- MCScripts
    MaxRows = 4
    MaxRepair = 2
    LastYear = 2025
    NoStatement = NoStatement
    Nobody = Nobody
SPECIFICATION Spec
INVARIANTS
    TypeOK
    WindowsFollowTheCalendar
    AnswersSettle
    StatementsAreScoped
    JoinsConnect
    SensitiveOnRequest
    FirstClearedAnswers
