\* One request: can a statement read what no role may see?
CONSTANTS
    Tables <- MCTables
    Columns <- MCColumns
    TableOf <- MCTableOf
    NameOf <- MCNameOf
    Classification <- MCClassification
    TenantColumn <- MCTenantColumn
    NoColumn = NoColumn
    DeniedTables = {"audit"}
    AllowedTables = {"users", "orders", "audit"}
    Callers <- MCCallers
    RolesOf <- MCRolesOf
    TenantOf <- MCTenantOf
    Tenants = {org1, org2}
    NoStatement = NoStatement
    Requests = {r1}
    Submissions <- MCSubmissions
    Candidates <- MCCandidates
    Snapshots <- MCSnapshots
    MaxRows = 2
    MaxRepair = 0
    MaxAvailable = 3
    NoTenant = NoTenant
    NoSubmission = NoSubmission
    NoSchema = NoSchema
    analyst = analyst
    admin = admin
    org1 = org1
    org2 = org2
SPECIFICATION Spec
INVARIANT
    SecretsAreNeverSelectable
