------------------------------- MODULE SqlGate -------------------------------
(***************************************************************************)
(* The deterministic gate every SQL candidate passes before it may be      *)
(* shown or run: QueryOrchestrator._secure_candidate with the validator,   *)
(* the column and table policy, the tenant rewriter, the LIMIT enforcer    *)
(* and the cost analyzer it calls in turn, and the two decisions taken on  *)
(* its verdict: RepairPlanner.is_repairable and _raise_for_failure.        *)
(*                                                                         *)
(* A candidate is what those stages can tell apart about a SQL text: does  *)
(* it parse, into how many statements, which name-independent rules does   *)
(* it break (flaws), the names it uses, its LIMIT, and which structural    *)
(* cost limits does it exceed (shape); and, apart from what the validator  *)
(* makes of the names, which tables and columns the database would read.   *)
(* The validator resolves names over the whole statement, SQL per scope:   *)
(* what the two have to do with each other is left open, so what is read   *)
(* and what is reported to the policy may differ.  How sqlglot finds all   *)
(* this in a syntax tree is not modelled.                                  *)
(***************************************************************************)
EXTENDS Integers, FiniteSets

CONSTANTS
    Tables,             \* table names a schema or a statement may mention
    Columns,            \* column names, each of one table
    TableOf,            \* [Columns -> Tables]
    NameOf,             \* [Columns -> STRING], the name within the table
    Classification,     \* [Columns -> Classes], from the semantic layer
    TenantColumn,       \* [Tables -> Columns or NoColumn], from the semantic layer
    NoColumn,
    DeniedTables,       \* SecurityPolicyConfig.denied_tables
    AllowedTables,      \* SecurityPolicyConfig.allowed_tables, Tables for None
    Callers,            \* authenticated callers
    RolesOf,            \* [Callers -> SUBSET Roles]
    TenantOf,           \* [Callers -> Tenants]
    Tenants,
    NoStatement         \* _Secured.final_sql = None

Classes == {"public", "internal", "confidential", "financial", "pii",
            "auth_secret", "highly_restricted"}

Secrets == {"auth_secret", "highly_restricted"}

NoLimit == -1           \* the statement carries no LIMIT clause

-----------------------------------------------------------------------------
(* Issue codes, as each source file lists them. *)

FlawCodes == {"comment_present", "non_read_only_statement", "forbidden_statement",
              "select_star_forbidden", "denied_function", "cross_database_access",
              "system_catalog_access", "schema_not_allowed"}

NameCodes == {"unknown_table", "unknown_column"}

PolicyCodes == {"table_denied", "table_not_allowed", "column_denied"}

ShapeCodes == {"too_many_joins", "subquery_too_deep", "too_many_columns",
               "cartesian_product"}

GateCodes == {"sql_parse_failed", "multiple_statements", "estimated_cost_too_high"}
                \cup FlawCodes \cup NameCodes \cup PolicyCodes \cup ShapeCodes

RepairableCodes == {"sql_parse_failed", "unknown_table", "unknown_column",
                    "select_star_forbidden", "denied_function"}

NonRepairableCodes ==
    {"non_read_only_statement", "forbidden_statement", "multiple_statements",
     "comment_present", "system_catalog_access", "cross_database_access",
     "schema_not_allowed", "column_denied", "table_denied", "table_not_allowed",
     "cartesian_product", "too_many_joins", "subquery_too_deep",
     "too_many_columns", "estimated_cost_too_high"}

AuthCodes == {"column_denied", "table_denied", "table_not_allowed"}

CostCodes == {"cartesian_product", "too_many_joins", "subquery_too_deep",
              "too_many_columns", "estimated_cost_too_high"}

SecurityCodes == {"non_read_only_statement", "forbidden_statement",
                  "multiple_statements", "comment_present",
                  "system_catalog_access", "cross_database_access",
                  "schema_not_allowed"}

-----------------------------------------------------------------------------
(* The values that flow through the gate. *)

(* An enriched DatabaseSchema: the tables and columns the catalog knew. *)
Snapshot == {s \in [tables: SUBSET Tables, columns: SUBSET Columns] :
                \A c \in s.columns : TableOf[c] \in s.tables}

(* The names a statement uses, wherever in it: FROM and JOIN items as      *)
(* <<alias or name, table>>, column references as <<qualifier, name>>, the *)
(* names of CTEs and derived tables, and those given with AS in a SELECT.  *)
Naming == [sources: SUBSET (STRING \X Tables), mentions: SUBSET (STRING \X STRING),
           virtual: SUBSET STRING, outputs: SUBSET STRING]

Bare == ""              \* column.table of a column without qualifier

(* tables and columns: what the database reads to answer the statement.    *)
Candidate == {c \in [parses: BOOLEAN, statements: 1..2, flaws: SUBSET FlawCodes,
                     names: Naming, tables: SUBSET Tables, columns: SUBSET Columns,
                     limit: Nat \cup {NoLimit}, shape: SUBSET ShapeCodes] :
                 /\ \A t \in c.tables : \E src \in c.names.sources : src[2] = t
                 /\ \A col \in c.columns : TableOf[col] \in c.tables}

(* What final_sql says: what the candidate's own text reads and by which   *)
(* names, which of these tables carry the caller's tenant predicate, and   *)
(* its LIMIT; bounded tells that the engine put it.                        *)
Statement == [names: Naming, tables: SUBSET Tables, columns: SUBSET Columns,
              scoped: SUBSET Tables, tenant: Tenants,
              limit: Nat, bounded: BOOLEAN]

Secured == [ok: BOOLEAN, issues: SUBSET GateCodes,
            stmt: Statement \cup {NoStatement}]

(* The planner's estimate: absent on other dialects and when EXPLAIN fails. *)
Estimates == {"none", "low", "high"}

ASSUME GateAssumption ==
    /\ TableOf \in [Columns -> Tables]
    /\ NameOf \in [Columns -> STRING]
    /\ Classification \in [Columns -> Classes]
    /\ NoColumn \notin Columns
    /\ TenantColumn \in [Tables -> Columns \cup {NoColumn}]
    /\ \A t \in Tables :
          TenantColumn[t] # NoColumn => TableOf[TenantColumn[t]] = t
    /\ DeniedTables \subseteq Tables
    /\ AllowedTables \subseteq Tables
    /\ TenantOf \in [Callers -> Tenants]
    /\ DOMAIN RolesOf = Callers
    /\ NoStatement \notin Statement

-----------------------------------------------------------------------------
(* ColumnAccessPolicy: classification and roles to visibility. *)

AllowedRoles(class) ==
    CASE class \in {"public", "internal"} -> {"*"}
      [] class \in {"confidential", "financial"} -> {"admin", "analyst"}
      [] class = "pii" -> {"admin"}
      [] class \in Secrets -> {}

RequiredGrant(class) ==
    CASE class = "financial" -> {"finance_read"}
      [] class = "pii" -> {"pii_read"}
      [] OTHER -> {}

CanView(class, roles) ==
    IF "admin" \in roles
    THEN class \notin Secrets
    ELSE \/ "*" \in AllowedRoles(class)
         \/ roles \cap AllowedRoles(class) # {}
         \/ roles \cap RequiredGrant(class) # {}

-----------------------------------------------------------------------------
(* The stages, in the order _secure_candidate calls them. *)

(* How _check_tables_and_columns resolves the names n against s.  Aliases  *)
(* of any scope are known in every other, and a name of a CTE or a derived *)
(* table hides the table of that name throughout.                          *)
BaseSources(n) == {src \in n.sources : src[2] \notin n.virtual}

ReferencedTables(n, s) == {src[2] : src \in BaseSources(n)} \cap s.tables

(* Faulty: an alias means one table, in whatever scope it is used. *)
DenotedOnce(q, n, s) ==
    LET all == {t \in ReferencedTables(n, s) : q \in {Bare, t} \/ <<q, t>> \in n.sources}
    IN  IF q = Bare \/ all = {} THEN all ELSE {CHOOSE t \in all : TRUE}

(* The tables a qualifier may stand for; without one, all of them. *)
Denoted(q, n, s) ==
    {t \in ReferencedTables(n, s) : q \in {Bare, t} \/ <<q, t>> \in n.sources}

Owners(m, n, s) ==
    LET denoted == Denoted(m[1], n, s)
    IN  {col \in s.columns : NameOf[col] = m[2] /\ TableOf[col] \in denoted}

(* References taken for those to an output alias, a CTE or a derived table, *)
(* whatever they mean in their own scope.                                   *)
Skipped(m, n, s) ==
    \/ m[1] = Bare /\ m[2] \in n.outputs
    \/ m[1] # Bare /\ m[1] \in n.virtual
    \/ Denoted(m[1], n, s) = {}

(* Every owner of a qualified column is recorded; of an unqualified one    *)
(* the first, in the order of a set of names, which CHOOSE leaves open.    *)
Recorded(m, n, s) ==
    LET owners == Owners(m, n, s)
    IN  IF m[1] = Bare /\ owners # {} THEN {CHOOSE col \in owners : TRUE} ELSE owners

Resolved(n, s) == {m \in n.mentions : ~Skipped(m, n, s)}

ReferencedColumns(n, s) == UNION {Recorded(m, n, s) : m \in Resolved(n, s)}

NameIssues(n, s) ==
    {code \in NameCodes :
        \/ /\ code = "unknown_table"
           /\ \E src \in BaseSources(n) : src[2] \notin s.tables
        \/ /\ code = "unknown_column"
           /\ \E m \in Resolved(n, s) : Owners(m, n, s) = {}}

ValidateExpression(c, s) == c.flaws \cup NameIssues(c.names, s)

Validate(c, s) ==
    CASE ~c.parses -> {"sql_parse_failed"}
      [] c.parses /\ c.statements # 1 -> {"multiple_statements"}
      [] OTHER -> ValidateExpression(c, s)

(* Faulty: columns are not looked at when every table is allowed. *)
EnforcePolicyTablesOnly(c, s, caller) ==
    LET tables == ReferencedTables(c.names, s)
    IN  {code \in PolicyCodes :
            \/ code = "table_denied" /\ tables \cap DeniedTables # {}
            \/ code = "table_not_allowed" /\ ~(tables \subseteq AllowedTables)}

(* The policy judges what the validator reports. *)
EnforcePolicy(c, s, caller) ==
    LET tables == ReferencedTables(c.names, s)
    IN  {code \in PolicyCodes :
            \/ code = "table_denied" /\ tables \cap DeniedTables # {}
            \/ code = "table_not_allowed" /\ ~(tables \subseteq AllowedTables)
            \/ /\ code = "column_denied"
               /\ \E col \in ReferencedColumns(c.names, s) :
                     ~CanView(Classification[col], RolesOf[caller])}

TenantTables(s) == {t \in s.tables : TenantColumn[t] \in s.columns}

(* The rewriter adds a predicate on the tenant column for each source of   *)
(* such a table, one whose name a CTE bears included.                      *)
Rewrite(c, s) ==
    LET owned == {src \in c.names.sources : src[2] \in TenantTables(s)}
    IN  [c EXCEPT !.names.mentions =
            @ \cup {<<src[1], NameOf[TenantColumn[src[2]]]>> : src \in owned}]

(* Faulty: an explicit LIMIT is trusted. *)
EnforceLimitTrusting(limit, maxRows) ==
    IF limit = NoLimit THEN maxRows ELSE limit

EnforceLimit(limit, maxRows) ==
    IF limit = NoLimit \/ limit > maxRows THEN maxRows ELSE limit

CostIssues(c, estimate) ==
    c.shape \cup {code \in {"estimated_cost_too_high"} :
                     c.shape = {} /\ estimate = "high"}

FinalStatement(c, s, caller, maxRows) ==
    [names   |-> c.names,
     tables  |-> c.tables,
     columns |-> c.columns,
     scoped  |-> c.tables \cap TenantTables(s),
     tenant  |-> TenantOf[caller],
     limit   |-> EnforceLimit(c.limit, maxRows),
     bounded |-> c.limit = NoLimit \/ c.limit > maxRows]

GateIssues(c, s, caller, estimate) ==
    LET found == Validate(c, s)
        denied == EnforcePolicy(c, s, caller)
        foundAgain == ValidateExpression(Rewrite(c, s), s)
    IN  CASE found # {} -> found
          [] found = {} /\ denied # {} -> denied
          [] found = {} /\ denied = {} /\ foundAgain # {} -> foundAgain
          [] OTHER -> CostIssues(c, estimate)

SecureCandidate(c, s, caller, maxRows, estimate) ==
    LET issues == GateIssues(c, s, caller, estimate)
    IN  [ok     |-> issues = {},
         issues |-> issues,
         stmt   |-> IF issues = {} THEN FinalStatement(c, s, caller, maxRows)
                    ELSE NoStatement]

-----------------------------------------------------------------------------
(* What is decided on a rejected candidate. *)

(* Faulty: one repairable finding is enough, whatever else was found. *)
IsRepairableAny(issues) == issues \cap RepairableCodes # {}

IsRepairable(issues) ==
    /\ issues # {}
    /\ issues \cap NonRepairableCodes = {}
    /\ issues \cap RepairableCodes # {}

FailureOf(issues) ==
    CASE issues \cap AuthCodes # {} -> "authorization_denied"
      [] issues \cap AuthCodes = {} /\ issues \cap CostCodes # {} ->
            "query_cost_rejected"
      [] /\ issues \cap (AuthCodes \cup CostCodes) = {}
         /\ issues \cap SecurityCodes # {} -> "sql_validation_failed"
      [] OTHER -> "repair_exhausted"

-----------------------------------------------------------------------------
(* Column col is read under a name that can only mean it: its table is not *)
(* named like a CTE or a derived table, and the column is written with a   *)
(* qualifier of its table that is not named so either, or without one when *)
(* no output has its name and no other source has a column of that name.   *)
ReadPlainly(col, n, s) ==
    LET t == TableOf[col]
        named == {src[2] : src \in n.sources}
    IN  /\ t \in named \ n.virtual
        /\ \E m \in n.mentions :
              /\ m[2] = NameOf[col]
              /\ \/ m[1] # Bare /\ m[1] \notin n.virtual /\ <<m[1], t>> \in n.sources
                 \/ /\ m[1] = Bare
                    /\ NameOf[col] \notin n.outputs
                    /\ \A other \in s.columns :
                          NameOf[other] = NameOf[col] /\ TableOf[other] \in named
                              => other = col

(* What the gate is for, said without its stages.  Of what a statement     *)
(* reads: every table that shares its name with no CTE or derived table is *)
(* in the snapshot and allowed; every column read plainly is visible to    *)
(* the caller and no secret, and known unless it shares its name with one  *)
(* that is; every tenant-owned table is confined to the caller's own       *)
(* tenant; and no more than maxRows rows come back.  Of columns that are   *)
(* read otherwise than plainly it promises nothing, nor does the code.     *)
SafeStatement(stmt, s, caller, maxRows) ==
    /\ stmt \in Statement
    /\ stmt.tables \ stmt.names.virtual
          \subseteq (s.tables \cap AllowedTables) \ DeniedTables
    /\ \A col \in {c \in stmt.columns : ReadPlainly(c, stmt.names, s)} :
          /\ col \in s.columns => /\ CanView(Classification[col], RolesOf[caller])
                                  /\ Classification[col] \notin Secrets
          /\ col \notin s.columns =>
                \E other \in s.columns : NameOf[other] = NameOf[col]
    /\ \A t \in stmt.tables : TenantColumn[t] \in s.columns => t \in stmt.scoped
    /\ stmt.tenant = TenantOf[caller]
    /\ stmt.limit <= maxRows
=============================================================================
