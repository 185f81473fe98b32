\* Two concurrent requests, two repairs allowed, a cap of two rows.
CONSTANTS
    Tables <- MCTables
    Columns <- MCColumns
    TableOf <- MCTableOf
    NameOf <- MCNameOf
    Classification <- MCClassification
    TenantColumn <- MCTenantColumn
    NoColumn = NoColumn
    DeniedTables = {"audit"}
    AllowedTables = {"users", "orders", "audit"}
    Callers <- MCCallers
    RolesOf <- MCRolesOf
    TenantOf <- MCTenantOf
    Tenants = {org1, org2}
    NoStatement = NoStatement
    Requests = {r1, r2}
    Submissions <- MCSubmissions
    Candidates <- MCCandidates
    Snapshots <- MCSnapshots
    MaxRows = 2
    MaxRepair = 2
    MaxAvailable = 3
    NoTenant = NoTenant
    NoSubmission = NoSubmission
    NoSchema = NoSchema
    analyst = analyst
    admin = admin
    org1 = org1
    org2 = org2
SPECIFICATION Spec
INVARIANTS
    TypeOK
    OnlySafeStatements
    RejectionsAreHonest
    CountersAgree
    RepairsAreCounted
    RowsAreExact
PROPERTIES
    ImplementsGuardedQuery
    EveryRequestAnswered
