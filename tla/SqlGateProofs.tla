---------------------------- MODULE SqlGateProofs ----------------------------
(***************************************************************************)
(* Facts about the gate that hold for every deployment: every set of       *)
(* tables, columns, classifications, callers and policies.                 *)
(***************************************************************************)
EXTENDS SqlGate, TLAPS

(* Four lists of issue codes are written independently: the two of         *)
(* repair.py and the three of _raise_for_failure; together they split the  *)
(* codes the gate can emit, with nothing missing and nothing in both.      *)
THEOREM CodeListsAgree ==
    /\ GateCodes = RepairableCodes \cup NonRepairableCodes
    /\ RepairableCodes \cap NonRepairableCodes = {}
    /\ NonRepairableCodes = AuthCodes \cup CostCodes \cup SecurityCodes
BY DEF GateCodes, FlawCodes, NameCodes, PolicyCodes, ShapeCodes, RepairableCodes,
       NonRepairableCodes, AuthCodes, CostCodes, SecurityCodes

(* The stages report codes of the known list only. *)
LEMMA ValidateReportsGateCodes ==
    ASSUME NEW c \in Candidate, NEW s
    PROVE  ValidateExpression(c, s) \subseteq GateCodes
BY DEF Candidate, ValidateExpression, NameIssues, GateCodes

(* The rewriter changes the names of a candidate only. *)
LEMMA RewriteKeepsFlaws ==
    ASSUME NEW c \in Candidate, NEW s
    PROVE  Rewrite(c, s).flaws = c.flaws
<1>1. PICK names : Rewrite(c, s) = [c EXCEPT !.names = names]
  BY DEF Rewrite
<1> QED
  BY <1>1 DEF Candidate

(* Whatever the candidate, the gate's findings are on the known list. *)
LEMMA GateReportsGateCodes ==
    ASSUME NEW c \in Candidate, NEW s \in Snapshot, NEW caller \in Callers,
           NEW estimate
    PROVE  GateIssues(c, s, caller, estimate) \subseteq GateCodes
<1>1. Validate(c, s) \subseteq GateCodes
  BY ValidateReportsGateCodes DEF Validate, GateCodes
<1>2. EnforcePolicy(c, s, caller) \subseteq GateCodes
  BY DEF EnforcePolicy, GateCodes
<1>3. ValidateExpression(Rewrite(c, s), s) \subseteq GateCodes
  <2>1. Rewrite(c, s).flaws = c.flaws
    BY RewriteKeepsFlaws
  <2>2. c.flaws \subseteq FlawCodes
    BY DEF Candidate
  <2> QED
    BY <2>1, <2>2 DEF ValidateExpression, NameIssues, GateCodes
<1>4. CostIssues(c, estimate) \subseteq GateCodes
  BY DEF Candidate, CostIssues, GateCodes
<1> QED
  BY <1>1, <1>2, <1>3, <1>4 DEF GateIssues

(* No role and no grant makes a secret column visible. *)
LEMMA SecretsStaySecret ==
    ASSUME NEW class \in Classes, NEW roles, CanView(class, roles)
    PROVE  class \notin Secrets
BY DEF CanView, AllowedRoles, RequiredGrant, Secrets, Classes

(* A policy finding is never mixed with findings of another stage. *)
LEMMA PolicyFindingsComeAlone ==
    ASSUME NEW c \in Candidate, NEW s \in Snapshot, NEW caller \in Callers,
           NEW estimate,
           GateIssues(c, s, caller, estimate) \cap PolicyCodes # {}
    PROVE  GateIssues(c, s, caller, estimate) \subseteq PolicyCodes
<1>1. Validate(c, s) \cap PolicyCodes = {}
  BY DEF Validate, ValidateExpression, NameIssues, Candidate, FlawCodes, NameCodes,
         PolicyCodes
<1>2. ValidateExpression(Rewrite(c, s), s) \cap PolicyCodes = {}
  <2>1. Rewrite(c, s).flaws \subseteq FlawCodes
    BY RewriteKeepsFlaws DEF Candidate
  <2> QED
    BY <2>1 DEF ValidateExpression, NameIssues, FlawCodes, NameCodes, PolicyCodes
<1>3. CostIssues(c, estimate) \cap PolicyCodes = {}
  BY DEF CostIssues, Candidate, ShapeCodes, PolicyCodes
<1>4. EnforcePolicy(c, s, caller) \subseteq PolicyCodes
  BY DEF EnforcePolicy
<1> QED
  BY <1>1, <1>2, <1>3, <1>4 DEF GateIssues

(* A bounded statement never returns more rows than its request may have. *)
LEMMA LimitIsBounded ==
    ASSUME NEW limit \in Nat \cup {NoLimit}, NEW maxRows \in Nat
    PROVE  /\ EnforceLimit(limit, maxRows) \in Nat
           /\ EnforceLimit(limit, maxRows) <= maxRows
BY DEF EnforceLimit, NoLimit

(* Where the names n are resolved without a finding, a source that no CTE  *)
(* or derived table shares its name with is reported as referenced.        *)
LEMMA SourcesAreReported ==
    ASSUME NEW n, NEW s, NameIssues(n, s) = {},
           NEW src \in n.sources, src[2] \notin n.virtual
    PROVE  src[2] \in ReferencedTables(n, s)
<1>1. src \in BaseSources(n)
  BY DEF BaseSources
<1>2. src[2] \in s.tables
  BY <1>1 DEF NameIssues, NameCodes
<1> QED
  BY <1>1, <1>2 DEF ReferencedTables

(* A reference that is looked up and gives no finding has an owner, and    *)
(* all its owners are reported, or the only one there is.                  *)
LEMMA ResolvedHasOwner ==
    ASSUME NEW n, NEW s, NameIssues(n, s) = {},
           NEW m \in Resolved(n, s)
    PROVE  /\ Owners(m, n, s) # {}
           /\ m[1] # Bare => Owners(m, n, s) \subseteq ReferencedColumns(n, s)
           /\ \A col : Owners(m, n, s) = {col} => col \in ReferencedColumns(n, s)
<1>1. Owners(m, n, s) # {}
  BY DEF NameIssues, NameCodes
<1>2. Recorded(m, n, s) \subseteq ReferencedColumns(n, s)
  BY DEF ReferencedColumns
<1>3. m[1] # Bare => Recorded(m, n, s) = Owners(m, n, s)
  BY DEF Recorded
<1>4. ASSUME NEW col, Owners(m, n, s) = {col}
      PROVE  col \in Recorded(m, n, s)
  BY <1>4 DEF Recorded
<1> QED
  BY <1>1, <1>2, <1>3, <1>4

(* What is read plainly is reported.  A column that the snapshot holds, is *)
(* read by the database, and is written under a name that can only mean    *)
(* it, is among the columns the validator hands to the policy; one that    *)
(* the snapshot lacks shares its name with one it holds, or the candidate  *)
(* is rejected.                                                            *)
THEOREM PlainReadsAreReported ==
    ASSUME NEW n, NEW s \in Snapshot, NameIssues(n, s) = {},
           NEW col \in Columns, ReadPlainly(col, n, s)
    PROVE  /\ col \in s.columns => col \in ReferencedColumns(n, s)
           /\ col \notin s.columns =>
                 \E other \in s.columns : NameOf[other] = NameOf[col]
<1> DEFINE t == TableOf[col]
           named == {src[2] : src \in n.sources}
<1>1. PICK src \in n.sources : src[2] = t /\ t \notin n.virtual
  BY DEF ReadPlainly
<1>2. t \in ReferencedTables(n, s)
  BY <1>1, SourcesAreReported
<1>3. PICK m \in n.mentions :
         /\ m[2] = NameOf[col]
         /\ \/ m[1] # Bare /\ m[1] \notin n.virtual /\ <<m[1], t>> \in n.sources
            \/ /\ m[1] = Bare
               /\ NameOf[col] \notin n.outputs
               /\ \A other \in s.columns :
                     NameOf[other] = NameOf[col] /\ TableOf[other] \in named
                         => other = col
  BY DEF ReadPlainly
<1>4. t \in Denoted(m[1], n, s)
  BY <1>2, <1>3 DEF Denoted
<1>5. m \in Resolved(n, s)
  BY <1>3, <1>4 DEF Resolved, Skipped
<1>6. PICK owner \in Owners(m, n, s) : TRUE
  BY <1>5, ResolvedHasOwner
<1>7. owner \in s.columns /\ NameOf[owner] = NameOf[col]
  BY <1>3, <1>6 DEF Owners
<1>8. ASSUME col \in s.columns
      PROVE  col \in ReferencedColumns(n, s)
  <2>1. col \in Owners(m, n, s)
    BY <1>3, <1>4, <1>8 DEF Owners
  <2>2. CASE m[1] # Bare
    BY <2>1, <2>2, <1>5, ResolvedHasOwner
  <2>3. CASE m[1] = Bare
    <3>1. \A other \in Owners(m, n, s) :
             /\ other \in s.columns /\ NameOf[other] = NameOf[col]
             /\ TableOf[other] \in named
      BY <1>3 DEF Owners, Denoted, ReferencedTables, BaseSources
    <3>2. Owners(m, n, s) = {col}
      BY <2>1, <2>3, <3>1, <1>3
    <3> QED
      BY <3>2, <1>5, ResolvedHasOwner
  <2> QED
    BY <2>2, <2>3
<1> QED
  BY <1>7, <1>8

(* What the gate clears is safe: of what the statement reads, every table  *)
(* no CTE shares its name with is allowed, every column read plainly is    *)
(* visible to the caller and no secret, every tenant-owned table is        *)
(* scoped, and the LIMIT is within the request's cap.  Columns are read by *)
(* the database and reported by the validator, and it is the names that    *)
(* connect the two.  The proof follows the early returns.                  *)
THEOREM GateClearsOnlySafe ==
    ASSUME NEW c \in Candidate, NEW s \in Snapshot, NEW caller \in Callers,
           NEW maxRows \in Nat, NEW estimate,
           SecureCandidate(c, s, caller, maxRows, estimate).ok
    PROVE  SafeStatement(SecureCandidate(c, s, caller, maxRows, estimate).stmt,
                         s, caller, maxRows)
<1> DEFINE n == c.names
           stmt == FinalStatement(c, s, caller, maxRows)
<1>1. GateIssues(c, s, caller, estimate) = {}
  BY DEF SecureCandidate
<1>2. SecureCandidate(c, s, caller, maxRows, estimate).stmt = stmt
  BY <1>1 DEF SecureCandidate
<1>3. Validate(c, s) = {} /\ EnforcePolicy(c, s, caller) = {}
  BY <1>1 DEF GateIssues
<1>4. NameIssues(n, s) = {}
  BY <1>3 DEF Validate, ValidateExpression
<1>5. c.tables \ n.virtual \subseteq (s.tables \cap AllowedTables) \ DeniedTables
  <2>1. ASSUME NEW t \in c.tables, t \notin n.virtual
        PROVE  t \in ReferencedTables(n, s)
    <3>1. PICK src \in n.sources : src[2] = t
      BY DEF Candidate
    <3> QED
      BY <3>1, <2>1, <1>4, SourcesAreReported
  <2>2. /\ ReferencedTables(n, s) \cap DeniedTables = {}
        /\ ReferencedTables(n, s) \subseteq AllowedTables
    BY <1>3 DEF EnforcePolicy, PolicyCodes
  <2>3. ReferencedTables(n, s) \subseteq s.tables
    BY DEF ReferencedTables
  <2> QED
    BY <2>1, <2>2, <2>3
<1>6. ASSUME NEW col \in c.columns, ReadPlainly(col, n, s), col \in s.columns
      PROVE  /\ CanView(Classification[col], RolesOf[caller])
             /\ Classification[col] \notin Secrets
  <2>1. col \in Columns
    BY DEF Candidate
  <2>2. col \in ReferencedColumns(n, s)
    BY <2>1, <1>4, <1>6, PlainReadsAreReported
  <2>3. CanView(Classification[col], RolesOf[caller])
    BY <2>2, <1>3 DEF EnforcePolicy, PolicyCodes
  <2>4. Classification[col] \in Classes
    BY <2>1, GateAssumption
  <2> QED
    BY <2>3, <2>4, SecretsStaySecret
<1>7. ASSUME NEW col \in c.columns, ReadPlainly(col, n, s), col \notin s.columns
      PROVE  \E other \in s.columns : NameOf[other] = NameOf[col]
  <2>1. col \in Columns
    BY DEF Candidate
  <2> QED
    BY <2>1, <1>4, <1>7, PlainReadsAreReported
<1>8. ASSUME NEW t \in c.tables, TenantColumn[t] \in s.columns
      PROVE  t \in c.tables \cap TenantTables(s)
  <2>1. t \in Tables /\ TenantColumn[t] \in Columns
    BY <1>8 DEF Candidate, Snapshot
  <2>2. TableOf[TenantColumn[t]] = t
    BY <2>1, GateAssumption
  <2>3. t \in s.tables
    BY <2>2, <1>8 DEF Snapshot
  <2> QED
    BY <2>3, <1>8 DEF TenantTables
<1>9. stmt \in Statement /\ stmt.limit <= maxRows
  <2>1. c.limit \in Nat \cup {NoLimit}
    BY DEF Candidate
  <2>2. EnforceLimit(c.limit, maxRows) \in Nat /\ EnforceLimit(c.limit, maxRows) <= maxRows
    BY <2>1, LimitIsBounded
  <2>3. TenantOf[caller] \in Tenants
    BY GateAssumption
  <2>4. /\ n \in Naming
        /\ c.tables \in SUBSET Tables /\ c.columns \in SUBSET Columns
    BY DEF Candidate
  <2>5. c.tables \cap TenantTables(s) \in SUBSET Tables
    BY <2>4
  <2> QED
    BY <2>2, <2>3, <2>4, <2>5 DEF FinalStatement, Statement
<1> QED
  BY <1>2, <1>5, <1>6, <1>7, <1>8, <1>9 DEF SafeStatement, FinalStatement

(* The verdict is well formed. *)
LEMMA SecuredType ==
    ASSUME NEW c \in Candidate, NEW s \in Snapshot, NEW caller \in Callers,
           NEW maxRows \in Nat, NEW estimate
    PROVE  SecureCandidate(c, s, caller, maxRows, estimate) \in Secured
<1> DEFINE out == SecureCandidate(c, s, caller, maxRows, estimate)
<1>1. out.issues \subseteq GateCodes
  BY GateReportsGateCodes DEF SecureCandidate
<1>2. out.stmt \in Statement \cup {NoStatement}
  <2>1. CASE out.ok
    BY <2>1, GateClearsOnlySafe DEF SafeStatement
  <2>2. CASE ~out.ok
    BY <2>2 DEF SecureCandidate
  <2> QED
    BY <2>1, <2>2
<1> QED
  BY <1>1, <1>2 DEF SecureCandidate, Secured

(* repair_exhausted is the error of exactly those findings that the repair *)
(* planner would send back to the model; every other error is final.       *)
THEOREM FailureIsHonest ==
    ASSUME NEW issues \in SUBSET GateCodes, issues # {}
    PROVE  FailureOf(issues) = "repair_exhausted" <=> IsRepairable(issues)
<1>1. IsRepairable(issues) <=> issues \cap NonRepairableCodes = {}
  BY CodeListsAgree DEF IsRepairable
<1>2. FailureOf(issues) = "repair_exhausted" <=>
         issues \cap (AuthCodes \cup CostCodes \cup SecurityCodes) = {}
  BY DEF FailureOf
<1> QED
  BY <1>1, <1>2, CodeListsAgree
=============================================================================
